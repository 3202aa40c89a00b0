\* One delivery: retries, handovers, late evidence, repeated submissions; what is told is recorded.
SPECIFICATION FairSpec
CONSTANTS
  None = None
  p1 = p1
  Principal = {p1, p2, p3}
  Delivery = {d1}
  Task = {t1}
  Contract = {c1}
  ResultId = {r1, r2}
  Body = {b1, b2}
  Sender <- OneSender
  MaxAttempts = 2
  MaxHandovers = 2
CHECK_DEADLOCK FALSE
INVARIANTS
  TypeOK
  WorkingIsUnconfirmed
  OnlyLatestUnconfirmed
  StateMatchesRecord
PROPERTIES
  ResultIsFinal
  CancelBlocksClaims
  ClosureIsKept
  EveryStopIsRecorded
