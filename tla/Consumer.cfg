\* An Agent and a command that may change the same path.
SPECIFICATION Spec
CONSTANTS
  None = None
  d1 = d1
  d2 = d2
  Delivery = {d1, d2}
  Agent = {d1}
  Path = {p1}
  targets <- SamePath
  Content = {c1, c2}
  MaxConcurrency = 2
  LateHelpers = FALSE
SYMMETRY Symmetry
CHECK_DEADLOCK FALSE
INVARIANTS
  StopReportsAreReal
  BeforeEffectIsTrue
  EveryAttemptIsJournalled
  ReplayIsIdentical
  TargetsNotShared
PROPERTIES
  NeverRedone
