SPECIFICATION Spec
CONSTANTS
  None = None
  root = root
  other = other
  a = a
  z = z
  p = p
  f = f
  g = g
  h = h
  l = l
  m = m
  outer = outer
  inner = inner
  pocket = pocket
  Name = {"a", "f", "l", "p", "z", "Z"}
  Fold <- Same
  Scope = {outer, inner, pocket}
  ScopeRoot <- Roots
  Root = root
  Spare = other
  Directory = {root, other, a, z, p}
  File = {f, g, h}
  Link = {l, m}
  Absolute = {l}
  Target <- Texts
  FirstNames <- Tree
  Turns <- Turned
  Private = {a, f}
  CaseBlind = TRUE
  MaxChanges = 2
  Policies <- Some
  Registries = {None, "reads", "observes"}
  Paths <- Asked
  MaxHops = 2
  TreeDepth = 2
  BatchLimit = 2
INVARIANTS ContentIsAllowed DigestIsOneContent NothingStableIsMissed
CHECK_DEADLOCK FALSE
