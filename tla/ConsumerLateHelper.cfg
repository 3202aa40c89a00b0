\* One Agent that starts a process while it is closed.
SPECIFICATION Spec
CONSTANTS
  None = None
  d1 = d1
  d2 = d2
  Delivery = {d1}
  Agent = {d1}
  Path = {p1}
  targets <- SamePath
  Content = {c1}
  MaxConcurrency = 1
  LateHelpers = TRUE
CHECK_DEADLOCK FALSE
INVARIANTS
  ConfirmedStopIsReal
