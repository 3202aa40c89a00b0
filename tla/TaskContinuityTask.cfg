\* Three deliveries of one task, one attempt each, no handover.
SPECIFICATION Spec
CONSTANTS
  None = None
  p1 = p1
  Principal = {p1, p2}
  Delivery = {d1, d2, d3}
  Task = {t1}
  Contract = {c1, c2, c3}
  ResultId = {r1, r2}
  Body = {b1}
  Sender <- OneSender
  MaxAttempts = 1
  MaxHandovers = 0
SYMMETRY Symmetry
CHECK_DEADLOCK FALSE
INVARIANTS
  OneActiveAttemptPerTask
  ActiveWhileSiblingsSettled
  OneDeliveryPerContract
  PredecessorsTerminal
  RecordedResultIsStored
  UnlinkedExecutorsNeverOverlap
PROPERTIES
  ImplementsRights
