------------------------------- MODULE Inventory -------------------------------
(***************************************************************************)
(* The serving process, the processes that index, and the file they share. *)
(* The RootScope file changes under them, locks do not come free,          *)
(* processes are killed and the file is damaged or migrated, at any step.  *)
(***************************************************************************)
EXTENDS Resolver

CONSTANT MaxAsked   \* bound: what clients and operators ask for

VARIABLE asked

vars == <<policy, now, index, discovery, request, asked>>

TypeOK == IndexTypeOK /\ DiscoveryTypeOK /\ ResolverTypeOK /\ asked \in 0..MaxAsked

Init == IndexInit /\ DiscoveryInit /\ ResolverInit /\ asked = 0

-----------------------------------------------------------------------------
(* What a client is told without a scan (gateway.py, list_workspaces) *)

\* _discovered_scope: the row, however old, and its age.
ScopeStatus(scope) ==
  LET row == Snapshot(Serve, scope, Current)
  IN IF row # None THEN IF Stale(row) THEN "stale" ELSE "fresh"
     ELSE IF "index" \notin Current[scope] THEN "not_indexed"
     ELSE "unavailable"

\* _discovered_workspaces
ListingStatus ==
  LET statuses == {ScopeStatus(s) : s \in {t \in DOMAIN Current : "discover" \in Current[t]}}
  IN IF statuses = {} THEN "not_configured"
     ELSE IF statuses \cap {"unavailable", "not_indexed"} # {} THEN "incomplete"
     ELSE IF "stale" \in statuses THEN "stale"
     ELSE "fresh"

-----------------------------------------------------------------------------

Ask ==
  /\ asked < MaxAsked
  /\ asked' = asked + 1
  /\ \/ \E s \in Scope, enrich \in BOOLEAN :
          Resting /\ AskInventory(s, enrich, "client") /\ NoTrouble
                  /\ UNCHANGED <<policy, now, index, cache, request>>
     \/ \E a \in Alias : AskName(a, TRUE)
     \/ \E w \in Wanted : AskPath(w.path, w.git)
     \/ \E s \in Scope, enrich \in BOOLEAN : StartWorker(s, enrich) /\ UNCHANGED request

Inventory ==
  /\ UNCHANGED <<asked, request>>
  /\ \/ ReadSnapshot
     \/ ReadMemory
     \/ EnrichNext
     \/ EnrichDone
     \/ Probe
     \/ \E p \in Process : Discover(p) \/ Walk(p) \/ Scanned(p) \/ Persist(p) \/ Write(p) \/ Store(p)

Resolution ==
  /\ UNCHANGED asked
  /\ Lookup \/ NextScope \/ TakeInventory \/ ScanNames \/ Choose
     \/ Admit \/ Locate \/ AdmitDirectory \/ Verify \/ Deliver

Others ==
  /\ UNCHANGED asked
  /\ \/ UNCHANGED request
        /\ ((\E s \in Scope : KillWorker(s)) \/ (\E f \in {"newer", "damaged"} : ChangeFile(f)) \/ Tick)
     \/ RestartServe /\ request' = NoRequest
     \/ \E new \in Policies :
          /\ EditPolicy(new)
          /\ request' = IF Resting THEN request
                        ELSE [request EXCEPT !.policies = @ \cup {Loaded(new)}]

Next == Ask \/ Inventory \/ Resolution \/ Others

Spec == Init /\ [][Next]_vars

-----------------------------------------------------------------------------

\* One of the policies lets a scan in: where no scope covers the directory, the walk goes on.
LetsIn(met, directory) ==
  \E P \in met : LET on == ResolveScope(P, directory) IN on = None \/ "discover" \in P[on]

\* Whether a scan of a scope that met these policies may come to a repository: it lies in the scope, one
\* of them lets the scope be discovered, and one lets the scan in at each directory on the way; Git is asked only where
\* one of them allows it in both views of the path.
MayList(met, scope, entry) ==
  /\ IsPrefix(ScopeRoot[scope], RepoAt[entry.repo])
  /\ \E P \in met : scope \in DOMAIN P /\ "discover" \in P[scope]
  /\ \A n \in Len(ScopeRoot[scope])..Len(RepoAt[entry.repo]) :
       LetsIn(met, SubSeq(RepoAt[entry.repo], 1, n))
  /\ entry.git => \E P \in met : "git_observe" \in Authority(P, RepoAt[entry.repo])

\* What is kept for later readers, in the file or in memory, lists only what the policies allowed that
\* were in force while it was made, and a row is bound to one of these; so a list that met no edit lists
\* what its own policy allows.  One that met an edit may list what the policy of its row denies (the
\* scan of discovery.py asks the policy at every directory, the write binds the row to the last), but
\* never what all of them denied.
BoundToItsPolicy ==
  /\ \A s \in Scope : db[s] # None =>
       /\ db[s].bound \in db[s].met
       /\ \A e \in db[s].found : MayList(db[s].met, s, e)
  /\ \A c \in cache : \A e \in c.row.found : MayList(c.row.met, c.scope, e)

\* What the step that admits a kind asks of the authority of a path.
Admission(kind) ==
  {"content_read", IF kind = "git-repository" THEN "auto_admit" ELSE "directory_admit"}

\* However old the row, the memory or the candidate that led to it: for what a client gets, one policy
\* that held during the request granted its admission, and one granted its capability (resolver.py;
\* each asks the file again).
ResolvedIsGranted ==
  request.step = "resolved" =>
    /\ \E P \in request.policies : Admission(request.kind) \subseteq Authority(P, request.path)
    /\ \E P \in request.policies :
         {"content_read"} \cup {r \in {"git_observe"} : request.git} \subseteq Authority(P, request.path)

\* A directory is served whole: under one policy that held during the request, everything beneath it
\* is under the authority of the directory itself (resolver.py _admit_directory).
DirectoryIsWhole ==
  request.step = "resolved" /\ request.kind = "filesystem-directory" =>
    \E P \in request.policies : \A r \in Repo :
      IsPrefix(request.path, RepoAt[r]) => Authority(P, RepoAt[r]) = Authority(P, request.path)

\* When Doctor calls the index healthy, a listing finds every required scope fresh: the two judge rows
\* by rules of their own (reality_index.py health_report, gateway.py _discovered_scope).
HealthyIsServed ==
  Health = "PASS" /\ handle[Serve] = "ok" => \A s \in Required : ScopeStatus(s) = "fresh"

=============================================================================
