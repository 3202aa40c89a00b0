------------------------------- MODULE Resolver -------------------------------
(***************************************************************************)
(* RealityResolver and AutoAdmissionEngine (resolver.py): from a name or a *)
(* path to a workspace.  A name is looked up in the index, then in the     *)
(* inventories of the scopes, then in the directories themselves; whatever *)
(* it leads to is admitted by the policy that holds then, and its          *)
(* capability verified once more.  Repositories do not come and go.        *)
(***************************************************************************)
EXTENDS Discovery

CONSTANTS
  Alias,        \* names that clients ask for
  Wanted,       \* paths that clients ask for, with or without Git
  Protected     \* paths of UAM's own and paths with a protected name

ASSUME WantedAssumption == \A w \in Wanted : w.path \in Seq(Name)

VARIABLE request   \* the resolution that the serving process is about

NoRequest ==
  [step |-> "idle", alias |-> None, git |-> FALSE, asked |-> None, left |-> {}, scope |-> None,
   names |-> {}, path |-> None, effective |-> {}, kind |-> None, policies |-> {}]

ResolverTypeOK ==
  request.step \in {"idle", "lookup", "scopes", "inventory", "scan", "choose", "admit", "locate",
                    "nested", "verify", "resolved"}

ResolverInit == request = NoRequest

Proceeds(changes) == request' = With(changes, request)

Refused == request' = NoRequest

\* The file system compares names folded.
Checkout(path) == \E r \in Repo : Folded(RepoAt[r]) = Folded(path)

Resting == request.step = "idle" /\ op[Serve].step = "idle"

AskName(alias, git) ==
  /\ Resting
  /\ request' = [NoRequest EXCEPT !.step = "lookup", !.alias = alias, !.git = git,
                                  !.asked = Current, !.policies = {Current}]
  /\ NoTrouble
  /\ UNCHANGED <<policy, now, index, op, cache>>

\* A scope whose names may be admitted: the scope of the row, as it is now.
AdmitsNames(scope) == {"auto_admit", "content_read"} \subseteq Rights(scope)

\* _find_name_candidates, the index.
Lookup ==
  LET rows == {c \in ByAlias(Serve, request.alias, request.asked) : AdmitsNames(c.scope)}
      left == {s \in DOMAIN Current : {"auto_admit", "discover"} \subseteq Current[s]}
  IN /\ request.step = "lookup"
     /\ \/ /\ Proceeds(IF rows # {} THEN [step |-> "choose", names |-> rows]
                       ELSE [step |-> "scopes", left |-> left])
           /\ handle' = Learned(Serve) /\ NoTrouble
        \/ /\ Proceeds([step |-> "scopes", left |-> left])
           /\ UNCHANGED handle /\ Trouble
     /\ UNCHANGED <<policy, now, db, file, op, cache>>

\* The next scope's inventory, the most specific scope first.
NextScope ==
  /\ request.step = "scopes"
  /\ \/ request.left = {} /\ Proceeds([step |-> "choose"]) /\ UNCHANGED op
     \/ \E scope \in request.left :
          /\ scope = MostSpecific(request.left)
          /\ Proceeds([step |-> "inventory", scope |-> scope, left |-> request.left \ {scope}])
          /\ AskInventory(scope, FALSE, "name")
  /\ NoTrouble
  /\ UNCHANGED <<policy, now, index, cache>>

\* An inventory that is refused, or has no such project, sends the resolver to the directories; one
\* that raises leaves the scope out.
TakeInventory ==
  LET me == op[Serve]
      named == {[scope |-> request.scope, repo |-> f.repo] :
                f \in {e \in me.found : ProjectId(e) = request.alias}}
  IN /\ request.step = "inventory"
     /\ me.step \in {"done", "raised"}
     /\ Proceeds([step |-> IF me.step = "done" /\ named = {} THEN "scan" ELSE "scopes",
                  names |-> request.names \cup named])
     /\ op' = [op EXCEPT ![Serve] = Idle]
     /\ NoTrouble
     /\ UNCHANGED <<policy, now, index, cache>>

\* _scan_scope_for_name: directories whatever scope they are in, repositories by their own authority.
ScanNames ==
  LET found == {r \in Repo : /\ IsPrefix(ScopeRoot[request.scope], RepoAt[r])
                             /\ Basename[r] = request.alias
                             /\ {"auto_admit", "content_read"} \subseteq Authority(Current, RepoAt[r])}
  IN /\ request.step = "scan"
     /\ Proceeds([step |-> "scopes",
                  names |-> request.names \cup {[scope |-> request.scope, repo |-> r] : r \in found}])
     /\ NoTrouble
     /\ UNCHANGED <<policy, now, index, op, cache>>

\* A handle names a scope, which must be there, and a path beneath its root.  The scope is looked for
\* in what was loaded last, without a look at the file.
ResolveDerived(scope, path) ==
  \E P \in request.policies :
    \/ scope \notin DOMAIN P /\ Refused
    \/ scope \in DOMAIN P /\ Proceeds([step |-> "admit", path |-> path])

\* _resolve_by_name: none, or several that only the client can tell apart, or one.
Choose ==
  /\ request.step = "choose"
  /\ \/ Cardinality(request.names) # 1 /\ Refused
     \/ \E c \in request.names :
          /\ request.names = {c}
          /\ ResolveDerived(c.scope, RepoAt[c.repo])
  /\ NoTrouble
  /\ UNCHANGED <<policy, now, index, op, cache>>

\* _resolve_absolute_path, and a handle that a client kept, whose scope covers its path.
AskPath(path, git) ==
  /\ Resting
  /\ ResolveScope(Current, path) # None
  /\ request' = [NoRequest EXCEPT !.step = "admit", !.path = path, !.git = git, !.policies = {Current}]
  /\ NoTrouble
  /\ UNCHANGED <<policy, now, index, op, cache>>

-----------------------------------------------------------------------------
(* AutoAdmissionEngine *)

\* Mutant of Effective: the innermost scope as the path is spelled decides alone.
EffectiveAsSpelled(path) ==
  LET scope == ResolveScope(Current, path) IN IF scope = None THEN {} ELSE Current[scope]

Effective(path) == Authority(Current, path)

\* admit: authority first.  What it grants now decides below, whatever the file says by then.
Admit ==
  LET effective == Effective(request.path)
  IN /\ request.step = "admit"
     /\ IF /\ {"auto_admit", "directory_admit"} \cap effective # {}
           /\ "content_read" \in effective
        THEN Proceeds([step |-> "locate", effective |-> effective]) ELSE Refused
     /\ NoTrouble
     /\ UNCHANGED <<policy, now, index, op, cache>>

\* A path of UAM's own, or with a protected name, is not served as a directory.
Overlaps(path) == \E q \in Protected : IsPrefix(path, q) \/ IsPrefix(q, path)

\* The path must lie in a scope when that is asked again; then what it is decides: _admit_repository,
\* or _admit_directory up to its question for nested scopes.
Locate ==
  LET path == request.path
      repository == Checkout(path) /\ "auto_admit" \in request.effective
      directory == ~Checkout(path) /\ "directory_admit" \in request.effective /\ ~Overlaps(path)
  IN /\ request.step = "locate"
     /\ IF ResolveScope(Current, path) # None /\ (repository \/ directory)
        THEN Proceeds(IF repository THEN [step |-> "verify", kind |-> "git-repository"]
                      ELSE [step |-> "nested", kind |-> "filesystem-directory"])
        ELSE Refused
     /\ NoTrouble
     /\ UNCHANGED <<policy, now, index, op, cache>>

\* Mutant of SpansNoScope: scopes inside that may be admitted as directories are served along.
SpansAdmitted(path) == \A s \in NestedScopes(Current, path) : "directory_admit" \in Current[s]

\* A directory is served whole, so no scope may begin inside of it.
SpansNoScope(path) == NestedScopes(Current, path) = {}

AdmitDirectory ==
  /\ request.step = "nested"
  /\ IF SpansNoScope(request.path) THEN Proceeds([step |-> "verify"]) ELSE Refused
  /\ NoTrouble
  /\ UNCHANGED <<policy, now, index, op, cache>>

\* _capabilities_for_path
Capabilities(path, kind) ==
  IF "content_read" \notin Effective(path) THEN {}
  ELSE IF kind = "filesystem-directory"
       THEN {c \in {"filesystem.read"} : "directory_admit" \in Effective(path)}
  ELSE {"filesystem.read"} \cup {c \in {"git.observe"} : "git_observe" \in Effective(path)}

\* _require_kind_support and verify_capability
Verify ==
  LET capability == IF request.git THEN "git.observe" ELSE "filesystem.read"
  IN /\ request.step = "verify"
     /\ IF capability \in Capabilities(request.path, request.kind)
        THEN Proceeds([step |-> "resolved"]) ELSE Refused
     /\ NoTrouble
     /\ UNCHANGED <<policy, now, index, op, cache>>

\* The operation that asked has its workspace.
Deliver ==
  /\ request.step = "resolved"
  /\ request' = NoRequest
  /\ NoTrouble
  /\ UNCHANGED <<policy, now, index, op, cache>>

=============================================================================
