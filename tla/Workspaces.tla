----------------------------- MODULE Workspaces -----------------------------
(***************************************************************************)
(* Which workspace an operation has, and whether it still has it           *)
(* (WorkspaceRegistry in workspace.py, _resolve, _path_policy and          *)
(* _reverify_resolution in gateway.py).  One root is served in two ways:   *)
(* registered in workspaces.json, its own contract, or derived, a          *)
(* repository that the RootScopes admit.  Neither trusts a path: what is   *)
(* bound is the object that the root named, with the policy in force.      *)
(***************************************************************************)
EXTENDS FileTree

CONSTANTS
  Policies,   \* contents that the RootScopes' file may have
  Registries  \* contents that workspaces.json may have

ASSUME WorkspacesAssumption ==
  /\ \A p \in Policies \ {None} : IsPolicy(p)
  /\ Registries \subseteq {None, "unreadable", "reads", "observes"}

VARIABLES
  policy,    \* what the RootScopes' file holds
  registry,  \* what workspaces.json holds, and when it was written
  loaded     \* the entry that the process has read from it

files == <<policy, registry, loaded>>

NoEntry == [says |-> None, stamp |-> 0, reason |-> None, root |-> None]

\* _probe_root
Probe(says, stamp) ==
  [says |-> says, stamp |-> stamp,
   reason |-> IF top \in closed THEN "root_unresolvable" ELSE None,
   root |-> IF top \in closed THEN None ELSE top]

WorkspacesInit ==
  /\ policy \in Policies \ {None}
  /\ registry = [says |-> "reads", stamp |-> 0]
  /\ loaded = Probe("reads", 0)

\* _maybe_reload: a missing file serves nothing, one that cannot be parsed refuses the call and
\* leaves what was loaded for the next, any other that was written since is read again.
Reloaded ==
  IF registry.says = None THEN NoEntry
  ELSE IF registry.says = "unreadable" \/ registry.stamp = loaded.stamp THEN loaded
  ELSE Probe(registry.says, registry.stamp)

\* Why an entry cannot be served now.  What failed when the file was read is never tried again.
CurrentReason(entry) ==
  IF entry.reason # None THEN entry.reason
  ELSE IF entry.root = None THEN "root_unresolvable"
  ELSE IF top # entry.root THEN "root_identity_changed"
  ELSE IF top \in closed THEN "root_unresolvable"
  ELSE None

\* require_capability(..., "filesystem.read")
Registered ==
  LET entry == Reloaded
  IN IF registry.says = "unreadable" \/ entry.says # "reads" \/ CurrentReason(entry) # None THEN None
     ELSE [root |-> entry.root, generation |-> entry.says]

\* A repository that auto-admission derives a handle for, bound as bind_root_identity finds it.
Derived ==
  IF {"auto_admit", "content_read"} \subseteq Authority(Loaded(policy), <<>>) /\ top \notin closed
  THEN [root |-> top, generation |-> policy]
  ELSE None

Workspace == {"static", "derived"}

ASSUME NoneAssumption == None \notin Workspace

Bind(workspace) == IF workspace = "static" THEN Registered ELSE Derived

\* What reading a workspace's registration leaves in the process.
Reads(workspace) == loaded' = IF workspace = "static" THEN Reloaded ELSE loaded

PathPolicy(workspace) ==
  IF workspace = "static" THEN Unrestricted ELSE Beneath(Loaded(policy), <<>>)

EditPolicy ==
  \E p \in Policies \ {policy} :
    /\ Change
    /\ policy' = p
    /\ UNCHANGED <<registry, loaded, names, text, closed, top>>

EditRegistry ==
  \E says \in Registries :
    /\ Change
    /\ registry' = [says |-> says, stamp |-> changes + 1]
    /\ UNCHANGED <<policy, loaded, names, text, closed, top>>

=============================================================================
