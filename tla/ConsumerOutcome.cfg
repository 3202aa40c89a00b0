\* One command that ends while its outcome is looked for.
SPECIFICATION Spec
CONSTANTS
  None = None
  d1 = d1
  d2 = d2
  Delivery = {d1}
  Agent = {}
  Path = {p1}
  targets <- SamePath
  Content = {c1}
  MaxConcurrency = 1
  LateHelpers = FALSE
CHECK_DEADLOCK FALSE
INVARIANTS
  OutcomeIsPickedUp
