------------------------------- MODULE Discovery -------------------------------
(***************************************************************************)
(* DiscoveryEngine (discovery.py): the inventory of a scope, from the      *)
(* index, from the memory of the process or from a scan, and the indexing  *)
(* of a scope by a process of its own (cli.py index, which the Supervisor  *)
(* and operators start; a lock per scope lets one of them run).            *)
(*                                                                         *)
(* A scan asks the RootScope file again at every directory, and the write  *)
(* of its result asks again what it may write and under which policy.      *)
(***************************************************************************)
EXTENDS RealityIndex

CONSTANTS
  GitBudget,   \* git_budget: repositories that a scan asks Git about
  MaxDepth,    \* _MAX_DEPTH
  MaxRepos,    \* _MAX_REPOS
  MaxTrouble   \* bound: locks, kills, damage, newer releases and edits of the RootScope file

ASSUME DiscoveryAssumption == {GitBudget, MaxDepth, MaxRepos, MaxTrouble} \subseteq Nat

VARIABLES
  op,      \* what each process is doing
  cache,   \* DiscoveryEngine._cache of the serving process: by scope and policy
  trouble

discovery == <<op, cache, trouble>>

Step == {"idle", "snapshot", "memory", "enrich", "probe", "discover", "walk", "persist", "write",
         "commit", "done", "raised"}

Idle ==
  [step |-> "idle", for |-> None, scope |-> None, enrich |-> FALSE, asked |-> None, key |-> None,
   todo |-> <<>>, found |-> {}, row |-> None, policies |-> {}]

\* op.for: whom an inventory is for: the client ("client") or the resolution of a name ("name").
DiscoveryTypeOK ==
  /\ \A p \in Process : op[p].step \in Step /\ op[p].found \in Found
  /\ \A e \in cache : e.scope \in Scope /\ e.row.found \in Found
  /\ trouble \in 0..MaxTrouble

DiscoveryInit ==
  /\ op = [p \in Process |-> Idle]
  /\ cache = {}
  /\ trouble = 0

Current == Loaded(policy)

Rights(scope) == IF scope \in DOMAIN Current THEN Current[scope] ELSE {}

Goes(p, changes) == op' = [op EXCEPT ![p] = With(changes, @)]

To(p, step) == Goes(p, [step |-> step])

\* An inventory that a name needs goes to the resolver; a client's is its answer.
Answer(p, found) ==
  op' = [op EXCEPT ![p] = IF @.for = "name" THEN [Idle EXCEPT !.step = "done", !.found = found] ELSE Idle]

\* A scan of a scope that is unknown, denied or gone, or an index that could not be written.
Fail(p) == Answer(p, {})

\* An error that nobody catches reaches the client, or the resolution of a name, which goes on.
Raise(p) == op' = [op EXCEPT ![p] = IF @.for = "name" THEN [Idle EXCEPT !.step = "raised"] ELSE Idle]

Trouble == trouble < MaxTrouble /\ trouble' = trouble + 1

NoTrouble == UNCHANGED trouble

Entry(scope, generation) == {e \in cache : e.scope = scope /\ e.generation = generation}

CacheWith(scope, generation, row) ==
  (cache \ Entry(scope, generation)) \cup {[scope |-> scope, generation |-> generation, row |-> row]}

-----------------------------------------------------------------------------
(* scope_inventory *)

AskInventory(scope, enrich, for) ==
  /\ op[Serve].step = "idle"
  /\ Goes(Serve, [step |-> "snapshot", for |-> for, scope |-> scope, enrich |-> enrich,
                  asked |-> Current, policies |-> {Current}])

Enough(row, enrich) == row # None /\ (enrich => row.enriched)

\* The index first.  A lock that does not come free is a miss.
ReadSnapshot ==
  LET me == op[Serve]
      row == FreshSnapshot(Serve, me.scope, me.asked)
  IN /\ me.step = "snapshot"
     /\ \/ /\ Enough(row, me.enrich)
           /\ Answer(Serve, row.found)
           /\ UNCHANGED handle /\ NoTrouble
        \/ /\ ~Enough(row, me.enrich)
           /\ To(Serve, "memory")
           /\ handle' = Learned(Serve) /\ NoTrouble
        \/ /\ To(Serve, "memory")
           /\ UNCHANGED handle /\ Trouble
     /\ UNCHANGED <<policy, now, db, file, cache>>

\* The entry's key is the policy now, which need not be the one the index was asked with.
ReadMemory ==
  LET me == op[Serve]
      kept == {e \in Entry(me.scope, Current) : now - e.row.at < MaxAge}
  IN /\ me.step = "memory"
     /\ \/ \E e \in kept : Enough(e.row, me.enrich) /\ Answer(Serve, e.row.found)
        \/ \E e \in kept :
             /\ ~Enough(e.row, me.enrich)
             /\ Goes(Serve, [step |-> "enrich", key |-> Current, found |-> e.row.found, row |-> e.row,
                             todo |-> SetToSeq({f \in e.row.found : ~f.git})])
        \/ kept = {} /\ Goes(Serve, [step |-> IF me.enrich THEN "discover" ELSE "probe", key |-> Current])
     /\ NoTrouble
     /\ UNCHANGED <<policy, now, index, cache>>

\* _may_observe_git: the most specific scope, as spelled and folded, decides now.
MayObserveGit(repo) == "git_observe" \in Authority(Current, RepoAt[repo])

Enriched(found) == Cardinality({f \in found : f.git})

GitIsSpent(me) == Enriched(me.found) - Enriched(me.row.found) >= GitBudget

\* _enrich_cached_inventory, one repository.
EnrichNext ==
  LET me == op[Serve]
      f == Head(me.todo)
      asked == MayObserveGit(f.repo)
  IN /\ me.step = "enrich"
     /\ me.todo # <<>> /\ ~GitIsSpent(me)
     /\ Goes(Serve, [todo |-> Tail(me.todo),
                     found |-> {IF e = f THEN [e EXCEPT !.git = asked] ELSE e : e \in me.found}])
     /\ NoTrouble
     /\ UNCHANGED <<policy, now, index, cache>>

\* The entry counts as observed now, although only Git was asked again.
EnrichDone ==
  LET me == op[Serve]
      row == Row(me.found, me.key, now, TRUE, me.row.met \cup me.policies)
  IN /\ me.step = "enrich"
     /\ me.todo = <<>> \/ GitIsSpent(me)
     /\ cache' = CacheWith(me.scope, me.key, row)
     /\ Answer(Serve, me.found)
     /\ NoTrouble
     /\ UNCHANGED <<policy, now, index>>

\* A scan that would replace a row with Git's answers asks Git as well.
Probe ==
  LET me == op[Serve]
  IN /\ me.step = "probe"
     /\ \/ /\ Goes(Serve, [step |-> "discover", enrich |-> ActiveEnriched(me.scope, me.asked)])
           /\ NoTrouble
        \/ To(Serve, "discover") /\ Trouble
     /\ UNCHANGED <<policy, now, index, cache>>

-----------------------------------------------------------------------------
(* discover_scope *)

Discover(p) ==
  LET me == op[p]
  IN /\ me.step = "discover"
     /\ \/ "discover" \notin Rights(me.scope) /\ Fail(p)
        \/ /\ "discover" \in Rights(me.scope)
           /\ Goes(p, [step |-> "walk", found |-> {}, policies |-> {Current},
                       todo |-> <<[path |-> ScopeRoot[me.scope],
                                   git |-> me.enrich /\ "git_observe" \in Rights(me.scope)]>>])
     /\ NoTrouble
     /\ UNCHANGED <<policy, now, index, cache>>

Beyond(path) == UNION {{SubSeq(RepoAt[r], 1, Len(path) + 1)} :
                       r \in {q \in Repo : IsStrictPrefix(path, RepoAt[q])}}

\* Mutant of Walked: the scope that is scanned decides for all directories beneath it.
WalkedByScan(scope, path) == IF scope \in DOMAIN Current THEN scope ELSE None

\* The scope that decides whether a scan enters a directory: the most specific one now.
Walked(scope, path) == ResolveScope(Current, path)

\* _read_repo_metadata: Git is asked for a repository that may be observed, while the budget lasts.
ReadMetadata(repo, git, spent) ==
  [repo |-> repo, git |-> git /\ spent < GitBudget /\ MayObserveGit(repo)]

\* _walk_for_repos, one directory.  A repository is not descended into.
Walk(p) ==
  LET me == op[p]
      next == Head(me.todo)
      scope == Walked(me.scope, next.path)
      git == IF scope # None /\ me.enrich THEN "git_observe" \in Current[scope] ELSE next.git
      here == {r \in Repo : RepoAt[r] = next.path}
      within == /\ Len(next.path) <= Len(ScopeRoot[me.scope]) + MaxDepth
                /\ Cardinality(me.found) < MaxRepos
                /\ scope # None => "discover" \in Current[scope]
  IN /\ me.step = "walk"
     /\ me.todo # <<>>
     /\ IF ~within THEN Goes(p, [todo |-> Tail(me.todo)])
        ELSE Goes(p, [found |-> me.found \cup {ReadMetadata(r, git, Enriched(me.found)) : r \in here},
                      todo |-> IF here # {} THEN Tail(me.todo)
                               ELSE SetToSeq({[path |-> d, git |-> git] : d \in Beyond(next.path)})
                                      \o Tail(me.todo)])
     /\ NoTrouble
     /\ UNCHANGED <<policy, now, index, cache>>

\* The serving process remembers its scan under the key it computed before.
Scanned(p) ==
  LET me == op[p]
      row == Row(me.found, me.key, now, me.enrich, me.policies)
  IN /\ me.step = "walk"
     /\ me.todo = <<>>
     /\ To(p, "persist")
     /\ cache' = IF p = Serve THEN CacheWith(me.scope, me.key, row) ELSE cache
     /\ NoTrouble
     /\ UNCHANGED <<policy, now, index>>

-----------------------------------------------------------------------------
(* _persist_to_index and write_snapshot *)

\* What may be written is asked now; a handle that has seen damage starts the file afresh.
Persist(p) ==
  LET me == op[p]
  IN /\ me.step = "persist"
     /\ IF "index" \notin Rights(me.scope) THEN Answer(p, me.found) /\ UNCHANGED index
        ELSE /\ To(p, "write")
             /\ IF handle[p] = "corrupt" THEN Rebuild(p) ELSE UNCHANGED index
     /\ NoTrouble
     /\ UNCHANGED <<policy, now, cache>>

KeepsEnriched(me) == ~me.enrich /\ ActiveEnriched(me.scope, Current)

\* The policy that the row is bound to is the one now.  An enriched row under it stays, when the look
\* at it succeeds; what is written meanwhile is replaced by the commit all the same.  A newer schema is
\* refused when this process knows of it.
Write(p) ==
  LET me == op[p]
      row == Row(me.found, Current, now, me.enrich, me.policies)
      committing == [step |-> "commit", row |-> row]
  IN /\ me.step = "write"
     /\ \/ handle[p] = "newer" /\ Answer(p, me.found) /\ NoTrouble
        \/ handle[p] # "newer" /\ KeepsEnriched(me) /\ Answer(p, me.found) /\ NoTrouble
        \/ handle[p] # "newer" /\ ~KeepsEnriched(me) /\ Goes(p, committing) /\ NoTrouble
        \/ handle[p] # "newer" /\ ~me.enrich /\ Goes(p, committing) /\ Trouble
     /\ UNCHANGED <<policy, now, index, cache>>

\* A lock that does not come free costs the row.  A write that finds damage raises.
Store(p) ==
  LET me == op[p]
  IN /\ me.step = "commit"
     /\ \/ Commit(p, me.scope, me.row) /\ NoTrouble
           /\ IF file = "damaged" THEN Raise(p) ELSE Answer(p, me.found)
        \/ UNCHANGED index /\ Answer(p, me.found) /\ Trouble
     /\ UNCHANGED <<policy, now, cache>>

-----------------------------------------------------------------------------
(* cli.py index: a process that indexes one scope and ends *)

\* Its handle is new.  It holds refresh-<scope>.lock: a second one is skipped.
StartWorker(scope, enrich) ==
  /\ op[scope].step = "idle"
  /\ handle' = [handle EXCEPT ![scope] = Opened]
  /\ scope \in DOMAIN Current => "index" \in Current[scope]
  /\ op' = [op EXCEPT ![scope] = [Idle EXCEPT !.step = "discover", !.scope = scope, !.enrich = enrich,
                                              !.key = Current]]
  /\ NoTrouble
  /\ UNCHANGED <<policy, now, db, file, cache>>

\* The kernel releases the lock of a process that is killed.
KillWorker(scope) ==
  /\ op[scope].step # "idle"
  /\ Trouble
  /\ op' = [op EXCEPT ![scope] = Idle]
  /\ UNCHANGED <<policy, now, index, cache>>

-----------------------------------------------------------------------------
(* Others (external) *)

\* The serving process is started again: what it remembered is gone.
RestartServe ==
  /\ Trouble
  /\ op' = [op EXCEPT ![Serve] = Idle]
  /\ cache' = {}
  /\ handle' = [handle EXCEPT ![Serve] = Opened]
  /\ UNCHANGED <<policy, now, db, file>>

EditPolicy(new) ==
  /\ policy # new
  /\ Trouble
  /\ policy' = new
  /\ op' = [p \in Process |-> IF op[p].policies = {} THEN op[p]
                              ELSE [op[p] EXCEPT !.policies = @ \cup {Loaded(new)}]]
  /\ UNCHANGED <<now, index, cache>>

\* A newer release migrates the file, or it is damaged.
ChangeFile(state) ==
  /\ file = "ours"
  /\ Trouble
  /\ file' = state
  /\ UNCHANGED <<policy, now, db, handle, op, cache>>

Tick ==
  /\ now < MaxTime
  /\ now' = now + 1
  /\ UNCHANGED <<policy, index, discovery>>

=============================================================================
