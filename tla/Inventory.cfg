SPECIFICATION Spec
CONSTANTS
  None = None
  outer = outer
  inner = inner
  r1 = r1
  r2 = r2
  Name = {"a", "A", "b"}
  Fold <- Same
  Scope = {outer, inner}
  ScopeRoot <- Roots
  Repo = {r1, r2}
  RepoAt <- Places
  Basename <- Names
  Remote <- Remotes
  Policies <- Some
  Serve = serve
  MaxAge = 1
  MaxTime = 2
  GitBudget = 1
  MaxDepth = 4
  MaxRepos = 2
  MaxTrouble = 1
  Alias = {"b", "x"}
  Wanted <- Paths
  Protected = {}
  MaxAsked = 2
INVARIANTS BoundToItsPolicy ResolvedIsGranted DirectoryIsWhole HealthyIsServed
CHECK_DEADLOCK FALSE
