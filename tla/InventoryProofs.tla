---------------------------- MODULE InventoryProofs ----------------------------
(***************************************************************************)
(* Theorems about Inventory, for any scopes, repositories, policies and    *)
(* bounds.                                                                 *)
(*                                                                         *)
(* The argument: every inventory that is kept or under way lists known     *)
(* repositories, so a name leads to a path; and the policy in force is     *)
(* among those of the request, so what each step of an admission decides   *)
(* by is too, whatever policy the step before it decided by.               *)
(*                                                                         *)
(* What is kept: the policy in force is among those that an operation has  *)
(* met, so every directory that a scan has reached was let in by one of    *)
(* them, and they only grow until the list is kept.                        *)
(***************************************************************************)
EXTENDS Inventory, ScopesProofs

\* Rows, what the process remembers, and what is being done keep their shape.
IndexShape ==
  /\ policy \in Policies
  /\ file \in {"ours", "newer", "damaged"}
  /\ DOMAIN db = Scope
  /\ \A s \in Scope : db[s] # None => db[s].found \in Found
  /\ \A e \in cache : e.row.found \in Found

OpOK(o) ==
  /\ DOMAIN o = DOMAIN Idle
  /\ o.found \in Found
  /\ o.step \notin {"idle", "done", "raised"} => o.scope \in Scope
  /\ o.step = "commit" => o.row.found \in Found

OpInv == DOMAIN op = Process /\ \A p \in Process : OpOK(op[p])

RequestShape ==
  /\ DOMAIN request = DOMAIN NoRequest
  /\ \A n \in request.names : n.repo \in Repo
  /\ request.left \subseteq Scope
  /\ request.step \in {"admit", "locate", "nested", "verify", "resolved"} => request.path \in Seq(Name)

\* One policy puts all that is beneath a path under the authority of the path.
IsWhole(policies, path) ==
  \E P \in policies : \A r \in Repo :
    IsPrefix(path, RepoAt[r]) => Authority(P, RepoAt[r]) = Authority(P, path)

\* What the steps of an admission have established.
Admitting(r) ==
  /\ r.step = "locate" =>
       "content_read" \in r.effective /\ \E P \in r.policies : r.effective = Authority(P, r.path)
  /\ r.step \in {"nested", "verify", "resolved"} =>
       \E P \in r.policies : Admission(r.kind) \subseteq Authority(P, r.path)
  /\ r.step \in {"verify", "resolved"} /\ r.kind = "filesystem-directory" => IsWhole(r.policies, r.path)
  /\ r.step = "resolved" =>
       \E P \in r.policies :
         {"content_read"} \cup {g \in {"git_observe"} : r.git} \subseteq Authority(P, r.path)

RequestInv ==
  /\ request.step # "idle" => Current \in request.policies
  /\ Admitting(request)

Inv == IndexShape /\ OpInv /\ RequestShape /\ RequestInv

-----------------------------------------------------------------------------
(* One process goes on.                                                    *)

LEMMA ServeIsProcess == Serve \in Process /\ Scope \subseteq Process
  BY DEF Process

LEMMA OneOp ==
  ASSUME OpInv, NEW p \in Process, NEW o, OpOK(o), op' = [op EXCEPT ![p] = o]
  PROVE  OpInv'
  BY DEF OpInv, OpOK

LEMMA IdleOK ==
  /\ OpOK(Idle)
  /\ \A found \in Found : OpOK([Idle EXCEPT !.step = "done", !.found = found])
  /\ OpOK([Idle EXCEPT !.step = "raised"])
  BY DEF OpOK, Idle, Found

LEMMA AnswerOK ==
  ASSUME OpInv, NEW p \in Process, NEW found \in Found, Answer(p, found)
  PROVE  OpInv'
  BY IdleOK, OneOp DEF Answer, OpInv

LEMMA RaiseOK ==
  ASSUME OpInv, NEW p \in Process, Raise(p)
  PROVE  OpInv'
  BY IdleOK, OneOp DEF Raise, OpInv

LEMMA GoesOK ==
  ASSUME OpInv, NEW p \in Process, NEW changes, Goes(p, changes), OpOK(With(changes, op[p]))
  PROVE  OpInv'
  BY OneOp DEF Goes, OpInv

\* A step that neither writes a row nor finds a repository.
LEMMA ToOK ==
  ASSUME OpInv, NEW p \in Process, NEW next \in Step \ {"commit"}, To(p, next),
         op[p].step \notin {"idle", "done", "raised"}
  PROVE  OpInv'
<1>1. OpOK(With([step |-> next], op[p]))
  BY DEF OpOK, OpInv, With, Idle, Step
<1> QED
  BY <1>1, GoesOK DEF To

LEMMA ReadSnapshotOK ==
  ASSUME Inv, ReadSnapshot PROVE OpInv' /\ IndexShape'
<1>1. Serve \in Process
  BY ServeIsProcess
<1>2. op[Serve].scope \in Scope
  BY <1>1 DEF Inv, OpInv, OpOK, ReadSnapshot
<1> DEFINE row == FreshSnapshot(Serve, op[Serve].scope, op[Serve].asked)
<1>3. row # None => row.found \in Found
  BY <1>2 DEF FreshSnapshot, Snapshot, Inv, IndexShape
<1>4. ASSUME Enough(row, op[Serve].enrich), Answer(Serve, row.found) PROVE OpInv'
  BY <1>1, <1>3, <1>4, AnswerOK DEF Enough, Inv
<1>5. ASSUME To(Serve, "memory") PROVE OpInv'
  BY <1>1, <1>5, ToOK DEF ReadSnapshot, Step, Inv
<1>6. OpInv'
  BY <1>4, <1>5 DEF ReadSnapshot
<1>7. IndexShape'
  BY DEF ReadSnapshot, Inv, IndexShape
<1> QED
  BY <1>6, <1>7

LEMMA ReadMemoryOK ==
  ASSUME Inv, ReadMemory PROVE OpInv' /\ IndexShape'
<1>1. Serve \in Process
  BY ServeIsProcess
<1>2. op[Serve].scope \in Scope /\ DOMAIN op[Serve] = DOMAIN Idle /\ op[Serve].found \in Found
  BY <1>1 DEF Inv, OpInv, OpOK, ReadMemory
<1> DEFINE kept == {e \in Entry(op[Serve].scope, Current) : now - e.row.at < MaxAge}
<1>3. \A e \in kept : e.row.found \in Found
  BY DEF Entry, Inv, IndexShape
<1>4. ASSUME NEW e \in kept, Answer(Serve, e.row.found) PROVE OpInv'
  BY <1>1, <1>3, <1>4, AnswerOK DEF Inv
<1>5. ASSUME NEW e \in kept, NEW todo,
             Goes(Serve, [step |-> "enrich", key |-> Current, found |-> e.row.found, row |-> e.row,
                          todo |-> todo])
      PROVE OpInv'
  <2>1. OpOK(With([step |-> "enrich", key |-> Current, found |-> e.row.found, row |-> e.row,
                   todo |-> todo], op[Serve]))
    BY <1>2, <1>3 DEF OpOK, With, Idle
  <2> QED
    BY <1>1, <1>5, <2>1, GoesOK DEF Inv
<1>6. ASSUME NEW next \in {"discover", "probe"}, Goes(Serve, [step |-> next, key |-> Current])
      PROVE OpInv'
  <2>1. OpOK(With([step |-> next, key |-> Current], op[Serve]))
    BY <1>2 DEF OpOK, With, Idle
  <2> QED
    BY <1>1, <1>6, <2>1, GoesOK DEF Inv
<1>7. OpInv'
  BY <1>4, <1>5, <1>6 DEF ReadMemory
<1>8. IndexShape'
  BY DEF ReadMemory, Inv, IndexShape, index
<1> QED
  BY <1>7, <1>8

LEMMA EnrichNextOK ==
  ASSUME Inv, EnrichNext PROVE OpInv' /\ IndexShape'
<1>1. Serve \in Process
  BY ServeIsProcess
<1> DEFINE me == op[Serve]
           f == Head(me.todo)
           found == {IF e = f THEN [e EXCEPT !.git = MayObserveGit(f.repo)] ELSE e : e \in me.found}
           changes == [todo |-> Tail(me.todo), found |-> found]
<1>2. me.scope \in Scope /\ DOMAIN me = DOMAIN Idle /\ me.found \in Found /\ me.step = "enrich"
  BY <1>1 DEF Inv, OpInv, OpOK, EnrichNext
<1>3. MayObserveGit(f.repo) \in BOOLEAN
  BY DEF MayObserveGit
<1>4. found \in Found
  BY <1>2, <1>3 DEF Found
<1>5. OpOK(With(changes, me))
  BY <1>2, <1>4 DEF OpOK, With, Idle
<1>6. Goes(Serve, changes)
  BY DEF EnrichNext
<1>7. OpInv'
  BY <1>1, <1>5, <1>6, GoesOK DEF Inv
<1>8. IndexShape'
  BY DEF EnrichNext, Inv, IndexShape, index
<1> QED
  BY <1>7, <1>8

\* What is remembered is what was found.
LEMMA CacheOK ==
  ASSUME IndexShape, NEW scope, NEW generation, NEW row, row.found \in Found,
         cache' = CacheWith(scope, generation, row), UNCHANGED <<policy, db, file>>
  PROVE  IndexShape'
<1>1. \A e \in cache' : e \in cache \/ e = [scope |-> scope, generation |-> generation, row |-> row]
  BY DEF CacheWith
<1>2. \A e \in cache' : e.row.found \in Found
  BY <1>1 DEF IndexShape
<1> QED
  BY <1>2 DEF IndexShape

LEMMA EnrichDoneOK ==
  ASSUME Inv, EnrichDone PROVE OpInv' /\ IndexShape'
<1>1. Serve \in Process
  BY ServeIsProcess
<1> DEFINE me == op[Serve]
           row == Row(me.found, me.key, now, TRUE, me.row.met \cup me.policies)
<1>2. me.found \in Found
  BY <1>1 DEF Inv, OpInv, OpOK
<1>3. row.found = me.found
  BY DEF Row
<1>4. cache' = CacheWith(me.scope, me.key, row) /\ Answer(Serve, me.found) /\ UNCHANGED <<policy, db, file>>
  BY DEF EnrichDone, index
<1>5. OpInv'
  BY <1>1, <1>2, <1>4, AnswerOK DEF Inv
<1>6. IndexShape'
  BY <1>2, <1>3, <1>4, CacheOK DEF Inv
<1> QED
  BY <1>5, <1>6

LEMMA ProbeOK ==
  ASSUME Inv, Probe PROVE OpInv' /\ IndexShape'
<1>1. Serve \in Process
  BY ServeIsProcess
<1> DEFINE me == op[Serve]
           changes == [step |-> "discover", enrich |-> ActiveEnriched(me.scope, me.asked)]
<1>2. me.scope \in Scope /\ DOMAIN me = DOMAIN Idle /\ me.found \in Found /\ me.step = "probe"
  BY <1>1 DEF Inv, OpInv, OpOK, Probe
<1>3. OpOK(With(changes, me))
  BY <1>2 DEF OpOK, With, Idle
<1>4. Goes(Serve, changes) \/ To(Serve, "discover")
  BY DEF Probe
<1>5. OpInv'
  BY <1>1, <1>2, <1>3, <1>4, GoesOK, ToOK DEF Inv, Step
<1>6. IndexShape'
  BY DEF Probe, Inv, IndexShape, index
<1> QED
  BY <1>5, <1>6

LEMMA DiscoverOK ==
  ASSUME Inv, NEW p \in Process, Discover(p) PROVE OpInv' /\ IndexShape'
<1> DEFINE me == op[p]
           changes(todo) == [step |-> "walk", found |-> {}, policies |-> {Current}, todo |-> todo]
<1>1. me.scope \in Scope /\ DOMAIN me = DOMAIN Idle
  BY DEF Inv, OpInv, OpOK, Discover
<1>2. {} \in Found
  BY DEF Found
<1>3. ASSUME NEW todo, Goes(p, changes(todo)) PROVE OpInv'
  <2>1. OpOK(With(changes(todo), me))
    BY <1>1, <1>2 DEF OpOK, With, Idle
  <2> QED
    BY <1>3, <2>1, GoesOK DEF Inv
<1>4. ASSUME Fail(p) PROVE OpInv'
  BY <1>2, <1>4, AnswerOK DEF Fail, Inv
<1>5. OpInv'
  BY <1>3, <1>4 DEF Discover
<1>6. IndexShape'
  BY DEF Discover, Inv, IndexShape, index
<1> QED
  BY <1>5, <1>6

LEMMA WalkOK ==
  ASSUME Inv, NEW p \in Process, Walk(p) PROVE OpInv' /\ IndexShape'
<1> DEFINE me == op[p]
           here == {r \in Repo : RepoAt[r] = Head(me.todo).path}
           more(git) == {ReadMetadata(r, git, Enriched(me.found)) : r \in here}
<1>1. me.scope \in Scope /\ DOMAIN me = DOMAIN Idle /\ me.found \in Found /\ me.step = "walk"
  BY DEF Inv, OpInv, OpOK, Walk
<1>2. \A git : more(git) \in Found
  <2> TAKE git
  <2>1. \A r \in Repo : ReadMetadata(r, git, Enriched(me.found)) \in [repo : Repo, git : BOOLEAN]
    <3> TAKE r \in Repo
    <3> DEFINE observed == git /\ Enriched(me.found) < GitBudget /\ MayObserveGit(r)
    <3>1. observed \in BOOLEAN
      BY Zenon
    <3> HIDE DEF observed
    <3>2. [repo |-> r, git |-> observed] \in [repo : Repo, git : BOOLEAN]
      BY <3>1
    <3> QED
      BY <3>2 DEF ReadMetadata, observed
  <2> QED
    BY <2>1 DEF Found
<1>3. ASSUME NEW todo, Goes(p, [todo |-> todo]) PROVE OpInv'
  <2>1. OpOK(With([todo |-> todo], me))
    BY <1>1 DEF OpOK, With, Idle
  <2> QED
    BY <1>3, <2>1, GoesOK DEF Inv
<1>4. ASSUME NEW git, NEW todo, Goes(p, [found |-> me.found \cup more(git), todo |-> todo]) PROVE OpInv'
  <2>1. me.found \cup more(git) \in Found
    BY <1>1, <1>2 DEF Found
  <2>2. OpOK(With([found |-> me.found \cup more(git), todo |-> todo], me))
    BY <1>1, <2>1 DEF OpOK, With, Idle
  <2> QED
    BY <1>4, <2>2, GoesOK DEF Inv
<1>5. OpInv'
  <2> DEFINE next == Head(me.todo)
             scope == Walked(me.scope, next.path)
             git == IF scope # None /\ me.enrich THEN "git_observe" \in Current[scope] ELSE next.git
             within == /\ Len(next.path) <= Len(ScopeRoot[me.scope]) + MaxDepth
                       /\ Cardinality(me.found) < MaxRepos
                       /\ scope # None => "discover" \in Current[scope]
             rest == IF here # {} THEN Tail(me.todo)
                     ELSE SetToSeq({[path |-> d, git |-> git] : d \in Beyond(next.path)}) \o Tail(me.todo)
  <2>1. IF ~within THEN Goes(p, [todo |-> Tail(me.todo)])
        ELSE Goes(p, [found |-> me.found \cup more(git), todo |-> rest])
    BY Zenon DEF Walk
  <2> HIDE DEF within, rest, git, more
  <2> QED
    BY <2>1, <1>3, <1>4
<1>6. IndexShape'
  BY DEF Walk, Inv, IndexShape, index
<1> QED
  BY <1>5, <1>6

LEMMA ScannedOK ==
  ASSUME Inv, NEW p \in Process, Scanned(p) PROVE OpInv' /\ IndexShape'
<1> DEFINE me == op[p]
           row == Row(me.found, me.key, now, me.enrich, me.policies)
<1>1. me.found \in Found /\ me.step = "walk"
  BY DEF Inv, OpInv, OpOK, Scanned
<1>2. row.found = me.found
  BY DEF Row
<1>3. UNCHANGED <<policy, db, file>> /\ To(p, "persist")
      /\ (cache' = CacheWith(me.scope, me.key, row) \/ UNCHANGED cache)
  BY DEF Scanned, index
<1>4. IndexShape'
  BY <1>1, <1>2, <1>3, CacheOK DEF Inv, IndexShape
<1>5. OpInv'
  BY <1>1, <1>3, ToOK DEF Inv, Step
<1> QED
  BY <1>4, <1>5

LEMMA PersistOK ==
  ASSUME Inv, NEW p \in Process, Persist(p) PROVE OpInv' /\ IndexShape'
<1>1. op[p].found \in Found /\ op[p].step = "persist"
  BY DEF Inv, OpInv, OpOK, Persist
<1>2. OpInv'
  BY <1>1, ToOK, AnswerOK DEF Persist, Inv, Step
<1>3. IndexShape'
  BY DEF Persist, Rebuild, Inv, IndexShape, index
<1> QED
  BY <1>2, <1>3

LEMMA WriteOK ==
  ASSUME Inv, NEW p \in Process, Write(p) PROVE OpInv' /\ IndexShape'
<1> DEFINE me == op[p]
           row == Row(me.found, Current, now, me.enrich, me.policies)
           committing == [step |-> "commit", row |-> row]
<1>1. me.scope \in Scope /\ DOMAIN me = DOMAIN Idle /\ me.found \in Found /\ me.step = "write"
  BY DEF Inv, OpInv, OpOK, Write
<1>2. row.found = me.found
  BY DEF Row
<1>3. OpOK(With(committing, me))
  BY <1>1, <1>2 DEF OpOK, With, Idle
<1>4. Goes(p, committing) \/ Answer(p, me.found)
  BY DEF Write
<1>5. OpInv'
  BY <1>1, <1>3, <1>4, GoesOK, AnswerOK DEF Inv
<1>6. IndexShape'
  BY DEF Write, Inv, IndexShape, index
<1> QED
  BY <1>5, <1>6

LEMMA StoreOK ==
  ASSUME Inv, NEW p \in Process, Store(p) PROVE OpInv' /\ IndexShape'
<1>1. op[p].found \in Found /\ op[p].row.found \in Found
  BY DEF Inv, OpInv, OpOK, Store
<1>2. OpInv'
  BY <1>1, AnswerOK, RaiseOK DEF Store, Inv
<1>3. IndexShape'
  BY <1>1 DEF Store, Commit, Inv, IndexShape, index
<1> QED
  BY <1>2, <1>3

LEMMA AskInventoryOK ==
  ASSUME Inv, NEW scope \in Scope, NEW enrich, NEW for, AskInventory(scope, enrich, for)
  PROVE  OpInv'
<1> DEFINE changes == [step |-> "snapshot", for |-> for, scope |-> scope, enrich |-> enrich,
                       asked |-> Current, policies |-> {Current}]
<1>1. Serve \in Process
  BY ServeIsProcess
<1>2. DOMAIN op[Serve] = DOMAIN Idle /\ op[Serve].found \in Found
  BY <1>1 DEF Inv, OpInv, OpOK
<1>3. OpOK(With(changes, op[Serve]))
  BY <1>2 DEF OpOK, With, Idle
<1> QED
  BY <1>1, <1>3, GoesOK DEF AskInventory, Inv

LEMMA StartWorkerOK ==
  ASSUME Inv, NEW scope \in Scope, NEW enrich, StartWorker(scope, enrich)
  PROVE  OpInv' /\ IndexShape'
<1> DEFINE o == [Idle EXCEPT !.step = "discover", !.scope = scope, !.enrich = enrich, !.key = Current]
<1>1. scope \in Process
  BY ServeIsProcess
<1>2. OpOK(o)
  BY DEF OpOK, Idle, Found
<1>3. OpInv'
  BY <1>1, <1>2, OneOp DEF StartWorker, Inv
<1>4. IndexShape'
  BY DEF StartWorker, Inv, IndexShape
<1> QED
  BY <1>3, <1>4

\* The steps of others: nothing that is written changes its shape.
LEMMA OthersOK ==
  ASSUME Inv, Others PROVE OpInv' /\ IndexShape'
<1>1. ASSUME NEW s \in Scope, KillWorker(s) PROVE OpInv' /\ IndexShape'
  <2>1. OpInv'
    BY <1>1, ServeIsProcess, IdleOK, OneOp DEF KillWorker, Inv
  <2> QED
    BY <1>1, <2>1 DEF KillWorker, Inv, IndexShape, index
<1>2. ASSUME NEW state \in {"newer", "damaged"}, ChangeFile(state) PROVE OpInv' /\ IndexShape'
  BY <1>2 DEF ChangeFile, Inv, IndexShape, OpInv, OpOK
<1>3. ASSUME Tick PROVE OpInv' /\ IndexShape'
  BY <1>3 DEF Tick, Inv, IndexShape, OpInv, OpOK, index, discovery
<1>4. ASSUME RestartServe PROVE OpInv' /\ IndexShape'
  <2>1. OpInv'
    BY <1>4, ServeIsProcess, IdleOK, OneOp DEF RestartServe, Inv
  <2> QED
    BY <1>4, <2>1 DEF RestartServe, Inv, IndexShape
<1>5. ASSUME NEW new \in Policies, EditPolicy(new) PROVE OpInv' /\ IndexShape'
  <2>1. \A p \in Process : OpOK([op[p] EXCEPT !.policies = @ \cup {Loaded(new)}])
    BY DEF Inv, OpInv, OpOK, Idle
  <2>2. OpInv'
    BY <1>5, <2>1 DEF EditPolicy, Inv, OpInv
  <2>3. IndexShape'
    BY <1>5 DEF EditPolicy, Inv, IndexShape, index
  <2> QED
    BY <2>2, <2>3
<1> QED
  BY <1>1, <1>2, <1>3, <1>4, <1>5 DEF Others

-----------------------------------------------------------------------------
(* Resolutions.                                                            *)

RequestOK == RequestShape /\ RequestInv

\* A step that touches neither the request nor the policy.
LEMMA RequestRests ==
  ASSUME RequestOK, UNCHANGED <<policy, request>> PROVE RequestOK'
  BY DEF RequestOK, RequestShape, RequestInv, Current

LEMMA RefusedOK == ASSUME Refused PROVE RequestOK'
  BY DEF Refused, RequestOK, RequestShape, RequestInv, Admitting, NoRequest

\* A request goes on to a step that neither has a path nor needs one.
LEMMA ProceedsOK ==
  ASSUME RequestOK, UNCHANGED policy, request.step # "idle", NEW changes, Proceeds(changes),
         DOMAIN changes \subseteq {"step", "names", "left", "scope"},
         "step" \in DOMAIN changes, changes.step \in {"lookup", "scopes", "inventory", "scan", "choose"},
         "names" \in DOMAIN changes => \A n \in changes.names : n.repo \in Repo,
         "left" \in DOMAIN changes => changes.left \subseteq Scope
  PROVE  RequestOK'
<1> DEFINE r == With(changes, request)
<1>1. DOMAIN request = DOMAIN NoRequest
  BY DEF RequestOK, RequestShape
<1>2. DOMAIN r = DOMAIN NoRequest
  BY <1>1 DEF With, NoRequest
<1>3. r.step = changes.step /\ r.policies = request.policies
  BY <1>1 DEF With, NoRequest
<1>4. \A n \in r.names : n.repo \in Repo
  BY <1>1 DEF With, NoRequest, RequestOK, RequestShape
<1>5. r.left \subseteq Scope
  BY <1>1 DEF With, NoRequest, RequestOK, RequestShape
<1>6. request' = r
  BY DEF Proceeds
<1> HIDE DEF r
<1>7. RequestShape'
  BY <1>2, <1>3, <1>4, <1>5, <1>6 DEF RequestShape
<1>8. Current' = Current
  BY DEF Current
<1>9. RequestInv'
  BY <1>3, <1>6, <1>8 DEF RequestInv, Admitting, RequestOK
<1> QED
  BY <1>7, <1>9 DEF RequestOK

LEMMA AskNameOK ==
  ASSUME NEW alias, NEW git, AskName(alias, git) PROVE RequestOK'
  BY DEF AskName, RequestOK, RequestShape, RequestInv, Admitting, NoRequest, Current

LEMMA AskPathOK ==
  ASSUME NEW w \in Wanted, AskPath(w.path, w.git) PROVE RequestOK'
  BY WantedAssumption DEF AskPath, RequestOK, RequestShape, RequestInv, Admitting, NoRequest, Current

LEMMA PolicyScopes ==
  ASSUME policy \in Policies PROVE DOMAIN Current \subseteq Scope
  BY IndexAssumption DEF Current, Loaded, NoPolicy, IsPolicy

LEMMA LookupOK ==
  ASSUME Inv, Lookup PROVE RequestOK'
<1> DEFINE rows == {c \in ByAlias(Serve, request.alias, request.asked) : AdmitsNames(c.scope)}
           left == {s \in DOMAIN Current : {"auto_admit", "discover"} \subseteq Current[s]}
<1>1. \A c \in rows : c.repo \in Repo
  BY DEF ByAlias
<1>2. left \subseteq Scope
  BY PolicyScopes DEF Inv, IndexShape
<1>3. RequestOK /\ UNCHANGED policy /\ request.step # "idle"
  BY DEF Lookup, Inv, RequestOK
<1>4. ASSUME Proceeds([step |-> "choose", names |-> rows]) PROVE RequestOK'
  <2> HIDE DEF rows
  <2> QED
    BY <1>1, <1>3, <1>4, ProceedsOK
<1>5. ASSUME Proceeds([step |-> "scopes", left |-> left]) PROVE RequestOK'
  <2> HIDE DEF left
  <2> QED
    BY <1>2, <1>3, <1>5, ProceedsOK
<1> QED
  BY <1>4, <1>5 DEF Lookup

LEMMA NextScopeOK ==
  ASSUME Inv, NextScope PROVE RequestOK' /\ OpInv'
<1>1. RequestOK /\ UNCHANGED policy /\ request.step # "idle"
  BY DEF NextScope, Inv, RequestOK
<1>2. request.left \subseteq Scope
  BY DEF Inv, RequestShape
<1>3. ASSUME Proceeds([step |-> "choose"]), UNCHANGED op PROVE RequestOK' /\ OpInv'
  <2>1. RequestOK'
    BY <1>1, <1>3, ProceedsOK
  <2> QED
    BY <1>3, <2>1 DEF Inv, OpInv, OpOK
<1>4. ASSUME NEW scope \in request.left, AskInventory(scope, FALSE, "name"),
             Proceeds([step |-> "inventory", scope |-> scope, left |-> request.left \ {scope}])
      PROVE RequestOK' /\ OpInv'
  <2>1. RequestOK'
    BY <1>1, <1>2, <1>4, ProceedsOK
  <2> QED
    BY <1>2, <1>4, <2>1, AskInventoryOK
<1> QED
  BY <1>3, <1>4 DEF NextScope

LEMMA TakeInventoryOK ==
  ASSUME Inv, TakeInventory PROVE RequestOK' /\ OpInv'
<1> DEFINE me == op[Serve]
           named == {[scope |-> request.scope, repo |-> f.repo] :
                     f \in {e \in me.found : ProjectId(e) = request.alias}}
           next == IF me.step = "done" /\ named = {} THEN "scan" ELSE "scopes"
           names == request.names \cup named
<1>1. RequestOK /\ UNCHANGED policy /\ request.step # "idle"
  BY DEF TakeInventory, Inv, RequestOK
<1>2. me.found \in Found
  BY ServeIsProcess DEF Inv, OpInv, OpOK
<1>3. \A n \in names : n.repo \in Repo
  BY <1>2 DEF Found, Inv, RequestShape
<1>4. Proceeds([step |-> next, names |-> names]) /\ op' = [op EXCEPT ![Serve] = Idle]
  BY DEF TakeInventory
<1>5. next \in {"scan", "scopes"}
  OBVIOUS
<1>6. OpInv'
  BY <1>4, ServeIsProcess, IdleOK, OneOp DEF Inv
<1> HIDE DEF next, names
<1>7. RequestOK'
  BY <1>1, <1>3, <1>4, <1>5, ProceedsOK
<1> QED
  BY <1>6, <1>7

LEMMA ScanNamesOK ==
  ASSUME Inv, ScanNames PROVE RequestOK'
<1>1. RequestOK /\ UNCHANGED policy /\ request.step # "idle"
  BY DEF ScanNames, Inv, RequestOK
<1> DEFINE found == {r \in Repo : /\ IsPrefix(ScopeRoot[request.scope], RepoAt[r])
                                  /\ Basename[r] = request.alias
                                  /\ {"auto_admit", "content_read"} \subseteq Authority(Current, RepoAt[r])}
           names == request.names \cup {[scope |-> request.scope, repo |-> r] : r \in found}
<1>2. \A n \in names : n.repo \in Repo
  BY DEF Inv, RequestShape
<1>3. Proceeds([step |-> "scopes", names |-> names])
  BY DEF ScanNames
<1> HIDE DEF names
<1> QED
  BY <1>1, <1>2, <1>3, ProceedsOK

LEMMA ChooseOK ==
  ASSUME Inv, Choose PROVE RequestOK'
<1>1. ASSUME NEW c \in request.names, Proceeds([step |-> "admit", path |-> RepoAt[c.repo]])
      PROVE RequestOK'
  <2> DEFINE r == With([step |-> "admit", path |-> RepoAt[c.repo]], request)
  <2>1. DOMAIN request = DOMAIN NoRequest
    BY DEF Inv, RequestShape
  <2>2. DOMAIN r = DOMAIN NoRequest
    BY <2>1 DEF With, NoRequest
  <2>3. r.step = "admit" /\ r.path = RepoAt[c.repo] /\ r.policies = request.policies
        /\ r.names = request.names /\ r.left = request.left
    BY <2>1 DEF With, NoRequest
  <2>4. RepoAt[c.repo] \in Seq(Name)
    BY IndexAssumption DEF Inv, RequestShape
  <2>5. request' = r
    BY <1>1 DEF Proceeds
  <2> HIDE DEF r
  <2>6. RequestShape'
    BY <2>2, <2>3, <2>4, <2>5 DEF RequestShape, Inv
  <2>7. Current' = Current /\ request.step # "idle"
    BY DEF Current, Choose
  <2>8. RequestInv'
    BY <2>3, <2>5, <2>7 DEF RequestInv, Admitting, Inv
  <2> QED
    BY <2>6, <2>8 DEF RequestOK
<1> QED
  BY <1>1, RefusedOK DEF Choose, ResolveDerived

\* A request that has a path goes on, and what its next step rests on holds.
LEMMA AdvancesOK ==
  ASSUME RequestOK, UNCHANGED policy, request.step \in {"admit", "locate", "nested", "verify"},
         NEW changes, Proceeds(changes), DOMAIN changes \subseteq {"step", "kind", "effective"},
         With(changes, request).step # "idle", Admitting(With(changes, request))
  PROVE  RequestOK'
<1> DEFINE r == With(changes, request)
<1>1. DOMAIN request = DOMAIN NoRequest /\ request.path \in Seq(Name) /\ Current \in request.policies
  BY DEF RequestOK, RequestShape, RequestInv
<1>2. DOMAIN r = DOMAIN NoRequest
  BY <1>1 DEF With, NoRequest
<1>3. r.path = request.path /\ r.policies = request.policies /\ r.names = request.names
      /\ r.left = request.left
  BY <1>1 DEF With, NoRequest
<1>4. request' = r /\ r.step # "idle" /\ Admitting(r)
  BY DEF Proceeds
<1> HIDE DEF r
<1>5. RequestShape'
  BY <1>1, <1>2, <1>3, <1>4 DEF RequestShape, RequestOK
<1>6. RequestInv'
  <2>1. Current' = Current
    BY DEF Current
  <2>2. Admitting(request')
    BY <1>4
  <2>3. Admitting(request)'
    BY <2>2 DEF Admitting, IsWhole
  <2> QED
    BY <1>1, <1>3, <1>4, <2>1, <2>3 DEF RequestInv
<1> QED
  BY <1>5, <1>6 DEF RequestOK

\* What the engine takes for the authority of a path is that of a policy of the request.
LEMMA AdmitOK ==
  ASSUME Inv, Admit PROVE RequestOK'
<1> DEFINE effective == Effective(request.path)
           changes == [step |-> "locate", effective |-> effective]
           r == With(changes, request)
<1>1. DOMAIN request = DOMAIN NoRequest /\ Current \in request.policies /\ request.step = "admit"
      /\ UNCHANGED policy
  BY DEF Admit, Inv, RequestShape, RequestInv
<1>2. r.step = "locate" /\ r.effective = effective /\ r.path = request.path
      /\ r.policies = request.policies
  BY <1>1 DEF With, NoRequest
<1>3. effective = Authority(Current, request.path)
  BY DEF Effective
<1>4. ASSUME "content_read" \in effective, Proceeds(changes) PROVE RequestOK'
  <2>1. Admitting(r)
    <3> HIDE DEF r, effective
    <3> QED
      BY <1>1, <1>2, <1>3, <1>4 DEF Admitting
  <2>2. DOMAIN changes \subseteq {"step", "kind", "effective"} /\ RequestOK /\ r.step # "idle"
    BY <1>2 DEF Inv, RequestOK
  <2> HIDE DEF changes
  <2> QED
    BY <1>1, <1>4, <2>1, <2>2, AdvancesOK
<1>5. ("content_read" \in effective /\ Proceeds(changes)) \/ Refused
  BY DEF Admit
<1> QED
  BY <1>4, <1>5, RefusedOK

\* The kind is one that this authority admits.
LEMMA LocateOK ==
  ASSUME Inv, Locate PROVE RequestOK'
<1> DEFINE repository == Checkout(request.path) /\ "auto_admit" \in request.effective
           directory == /\ ~Checkout(request.path) /\ "directory_admit" \in request.effective
                        /\ ~Overlaps(request.path)
           asRepository == [step |-> "verify", kind |-> "git-repository"]
           asDirectory == [step |-> "nested", kind |-> "filesystem-directory"]
<1>1. /\ DOMAIN request = DOMAIN NoRequest /\ request.step = "locate" /\ UNCHANGED policy /\ RequestOK
      /\ "content_read" \in request.effective
      /\ \E P \in request.policies : request.effective = Authority(P, request.path)
  BY DEF Locate, Inv, RequestOK, RequestShape, RequestInv, Admitting
<1>2. ASSUME repository, Proceeds(asRepository) PROVE RequestOK'
  <2> DEFINE r == With(asRepository, request)
  <2>1. r.step = "verify" /\ r.kind = "git-repository" /\ r.path = request.path
        /\ r.policies = request.policies
    BY <1>1 DEF With, NoRequest
  <2>2. Admission(r.kind) \subseteq request.effective
    BY <1>1, <1>2, <2>1 DEF Admission
  <2>3. Admitting(r)
    <3> HIDE DEF r
    <3> QED
      BY <1>1, <2>1, <2>2 DEF Admitting
  <2>4. DOMAIN asRepository \subseteq {"step", "kind", "effective"} /\ r.step # "idle"
    BY <2>1
  <2> HIDE DEF asRepository
  <2> QED
    BY <1>1, <1>2, <2>3, <2>4, AdvancesOK
<1>3. ASSUME directory, Proceeds(asDirectory) PROVE RequestOK'
  <2> DEFINE r == With(asDirectory, request)
  <2>1. r.step = "nested" /\ r.kind = "filesystem-directory" /\ r.path = request.path
        /\ r.policies = request.policies
    BY <1>1 DEF With, NoRequest
  <2>2. Admission(r.kind) \subseteq request.effective
    BY <1>1, <1>3, <2>1 DEF Admission
  <2>3. Admitting(r)
    <3> HIDE DEF r
    <3> QED
      BY <1>1, <2>1, <2>2 DEF Admitting
  <2>4. DOMAIN asDirectory \subseteq {"step", "kind", "effective"} /\ r.step # "idle"
    BY <2>1
  <2> HIDE DEF asDirectory
  <2> QED
    BY <1>1, <1>3, <2>3, <2>4, AdvancesOK
<1>4. (repository /\ Proceeds(asRepository)) \/ (directory /\ Proceeds(asDirectory)) \/ Refused
  BY DEF Locate
<1> QED
  BY <1>2, <1>3, <1>4, RefusedOK

\* No scope begins beneath the directory under the policy now, so one authority governs all of it.
LEMMA AdmitDirectoryOK ==
  ASSUME Inv, AdmitDirectory PROVE RequestOK'
<1> DEFINE changes == [step |-> "verify"]
           r == With(changes, request)
<1>1. /\ DOMAIN request = DOMAIN NoRequest /\ request.step = "nested" /\ UNCHANGED policy /\ RequestOK
      /\ Current \in request.policies /\ request.path \in Seq(Name)
      /\ \E P \in request.policies : Admission(request.kind) \subseteq Authority(P, request.path)
  BY DEF AdmitDirectory, Inv, RequestOK, RequestShape, RequestInv, Admitting
<1>2. r.step = "verify" /\ r.kind = request.kind /\ r.path = request.path
      /\ r.policies = request.policies
  BY <1>1 DEF With, NoRequest
<1>3. ASSUME SpansNoScope(request.path), Proceeds(changes) PROVE RequestOK'
  <2>1. IsWhole(request.policies, request.path)
    <3>1. NestedScopes(Current, request.path) = {}
      BY <1>3 DEF SpansNoScope
    <3>2. DOMAIN Current \subseteq Scope
      BY PolicyScopes DEF Inv, IndexShape
    <3>3. \A q \in Repo : RepoAt[q] \in Seq(Name)
      BY IndexAssumption
    <3>4. \A q \in Repo : IsPrefix(request.path, RepoAt[q]) =>
            Authority(Current, RepoAt[q]) = Authority(Current, request.path)
      BY <1>1, <3>1, <3>2, <3>3, OneAuthority
    <3> QED
      BY <1>1, <3>4 DEF IsWhole
  <2>2. Admitting(r)
    <3> HIDE DEF r
    <3> QED
      BY <1>1, <1>2, <2>1 DEF Admitting
  <2>3. DOMAIN changes \subseteq {"step", "kind", "effective"} /\ r.step # "idle"
    BY <1>2
  <2> HIDE DEF changes
  <2> QED
    BY <1>1, <1>3, <2>2, <2>3, AdvancesOK
<1>4. (SpansNoScope(request.path) /\ Proceeds(changes)) \/ Refused
  BY DEF AdmitDirectory
<1> QED
  BY <1>3, <1>4, RefusedOK

LEMMA VerifyOK ==
  ASSUME Inv, Verify PROVE RequestOK'
<1> DEFINE capability == IF request.git THEN "git.observe" ELSE "filesystem.read"
           needed == {"content_read"} \cup {g \in {"git_observe"} : request.git}
           changes == [step |-> "resolved"]
           r == With(changes, request)
<1>1. /\ DOMAIN request = DOMAIN NoRequest /\ request.step = "verify" /\ UNCHANGED policy /\ RequestOK
      /\ Current \in request.policies /\ Admitting(request)
  BY DEF Verify, Inv, RequestOK, RequestShape, RequestInv
<1>2. r.step = "resolved" /\ r.kind = request.kind /\ r.path = request.path /\ r.git = request.git
      /\ r.policies = request.policies
  BY <1>1 DEF With, NoRequest
<1>3. ASSUME capability \in Capabilities(request.path, request.kind), Proceeds(changes)
      PROVE  RequestOK'
  <2>1. "content_read" \in Authority(Current, request.path)
    BY <1>3 DEF Capabilities, Effective
  <2>2. request.git => "git_observe" \in Authority(Current, request.path)
    BY <1>3 DEF Capabilities, Effective
  <2>3. needed \subseteq Authority(Current, request.path)
    BY <2>1, <2>2
  <2>4. Admitting(r)
    <3> HIDE DEF r
    <3> QED
      BY <1>1, <1>2, <2>3 DEF Admitting
  <2>5. DOMAIN changes \subseteq {"step", "kind", "effective"} /\ r.step # "idle"
    BY <1>2
  <2> HIDE DEF changes
  <2> QED
    BY <1>1, <1>3, <2>4, <2>5, AdvancesOK
<1>4. (capability \in Capabilities(request.path, request.kind) /\ Proceeds(changes)) \/ Refused
  BY DEF Verify
<1> QED
  BY <1>3, <1>4, RefusedOK

LEMMA EditRequestOK ==
  ASSUME Inv, NEW new \in Policies, EditPolicy(new),
         request' = IF Resting THEN request ELSE [request EXCEPT !.policies = @ \cup {Loaded(new)}]
  PROVE  RequestOK'
<1>1. Current' = Loaded(new)
  BY DEF EditPolicy, Current
<1>2. CASE Resting
  BY <1>2 DEF Resting, Inv, RequestOK, RequestShape, RequestInv, Admitting
<1>3. CASE ~Resting
  <2> DEFINE r == [request EXCEPT !.policies = @ \cup {Loaded(new)}]
  <2>1. /\ DOMAIN r = DOMAIN NoRequest /\ r.step = request.step /\ r.kind = request.kind
        /\ r.path = request.path /\ r.policies = request.policies \cup {Loaded(new)}
        /\ r.git = request.git /\ r.names = request.names /\ r.left = request.left
        /\ r.effective = request.effective
    BY DEF Inv, RequestShape, NoRequest
  <2>2. request' = r
    BY <1>3
  <2> HIDE DEF r
  <2>3. RequestShape'
    BY <2>1, <2>2 DEF RequestShape, Inv
  <2>4. RequestInv'
    BY <1>1, <2>1, <2>2 DEF RequestInv, Inv, Admitting, IsWhole
  <2> QED
    BY <2>3, <2>4 DEF RequestOK
<1> QED
  BY <1>2, <1>3

-----------------------------------------------------------------------------
(* The invariant.                                                          *)

LEMMA InitInv == Init => Inv
<1> SUFFICES ASSUME Init PROVE Inv
  OBVIOUS
<1>1. IndexShape
  BY DEF Init, IndexInit, DiscoveryInit, IndexShape
<1>2. OpInv
  BY IdleOK DEF Init, DiscoveryInit, OpInv
<1>3. RequestShape /\ RequestInv
  BY DEF Init, ResolverInit, NoRequest, RequestShape, RequestInv, Admitting
<1> QED
  BY <1>1, <1>2, <1>3 DEF Inv

LEMMA StepInv == Inv /\ [Next]_vars => Inv'
<1> SUFFICES ASSUME Inv, [Next]_vars PROVE OpInv' /\ IndexShape' /\ RequestOK'
  BY DEF Inv, RequestOK
<1>0. RequestOK
  BY DEF Inv, RequestOK
<1>1. CASE UNCHANGED vars
  BY <1>0, <1>1, RequestRests DEF vars, index, discovery, Inv, OpInv, OpOK, IndexShape
<1>2. ASSUME Ask PROVE OpInv' /\ IndexShape' /\ RequestOK'
  <2>1. ASSUME NEW s \in Scope, NEW enrich \in BOOLEAN, AskInventory(s, enrich, "client"),
               UNCHANGED <<policy, now, index, cache, request>>
        PROVE  OpInv' /\ IndexShape' /\ RequestOK'
    BY <1>0, <2>1, AskInventoryOK, RequestRests DEF Inv, IndexShape, index
  <2>2. ASSUME NEW a \in Alias, AskName(a, TRUE) PROVE OpInv' /\ IndexShape' /\ RequestOK'
    <3>1. RequestOK'
      BY <2>2, AskNameOK
    <3> QED
      BY <2>2, <3>1 DEF AskName, Inv, IndexShape, OpInv, OpOK, index
  <2>3. ASSUME NEW w \in Wanted, AskPath(w.path, w.git) PROVE OpInv' /\ IndexShape' /\ RequestOK'
    <3>1. RequestOK'
      BY <2>3, AskPathOK
    <3> QED
      BY <2>3, <3>1 DEF AskPath, Inv, IndexShape, OpInv, OpOK, index
  <2>4. ASSUME NEW s \in Scope, NEW enrich \in BOOLEAN, StartWorker(s, enrich), UNCHANGED request
        PROVE  OpInv' /\ IndexShape' /\ RequestOK'
    <3>1. UNCHANGED <<policy, request>>
      BY <2>4 DEF StartWorker
    <3> QED
      BY <1>0, <2>4, <3>1, StartWorkerOK, RequestRests
  <2> QED
    BY <1>2, <2>1, <2>2, <2>3, <2>4 DEF Ask
<1>3. ASSUME Inventory PROVE OpInv' /\ IndexShape' /\ RequestOK'
  <2>1. UNCHANGED <<policy, request>>
    BY <1>3 DEF Inventory, ReadSnapshot, ReadMemory, EnrichNext, EnrichDone, Probe, Discover, Walk,
                Scanned, Persist, Write, Store
  <2>2. RequestOK'
    BY <1>0, <2>1, RequestRests
  <2>3. OpInv' /\ IndexShape'
    BY <1>3, ReadSnapshotOK, ReadMemoryOK, EnrichNextOK, EnrichDoneOK, ProbeOK, DiscoverOK, WalkOK,
       ScannedOK, PersistOK, WriteOK, StoreOK DEF Inventory
  <2> QED
    BY <2>2, <2>3
<1>4. ASSUME Resolution PROVE OpInv' /\ IndexShape' /\ RequestOK'
  <2>1. IndexShape'
    BY <1>4 DEF Resolution, Lookup, NextScope, TakeInventory, ScanNames, Choose, Admit, Locate, AdmitDirectory,
                Verify, Deliver,
                Inv, IndexShape, index
  <2>2. ASSUME Deliver PROVE RequestOK'
    BY <2>2, RefusedOK DEF Deliver, Refused
  <2>3. RequestOK'
    BY <1>4, <2>2, LookupOK, NextScopeOK, TakeInventoryOK, ScanNamesOK, ChooseOK, AdmitOK, LocateOK,
       AdmitDirectoryOK, VerifyOK
    DEF Resolution
  <2>4. ASSUME UNCHANGED op PROVE OpInv'
    BY <2>4 DEF Inv, OpInv, OpOK
  <2>5. OpInv'
    BY <1>4, <2>4, NextScopeOK, TakeInventoryOK
    DEF Resolution, Lookup, ScanNames, Choose, Admit, Locate, AdmitDirectory,
                Verify, Deliver
  <2> QED
    BY <2>1, <2>3, <2>5
<1>5. ASSUME Others PROVE OpInv' /\ IndexShape' /\ RequestOK'
  <2>1. OpInv' /\ IndexShape'
    BY <1>5, OthersOK
  <2>2. ASSUME UNCHANGED request, UNCHANGED policy PROVE RequestOK'
    BY <1>0, <2>2, RequestRests
  <2>3. ASSUME request' = NoRequest PROVE RequestOK'
    BY <2>3, RefusedOK DEF Refused
  <2>4. RequestOK'
    BY <1>5, <2>2, <2>3, EditRequestOK DEF Others, KillWorker, ChangeFile, Tick
  <2> QED
    BY <2>1, <2>4
<1> QED
  BY <1>1, <1>2, <1>3, <1>4, <1>5 DEF Next

\* What is kept and under way keeps its shape, and the policy in force is among the request's.
THEOREM InventoryHolds == Spec => []Inv
  BY InitInv, StepInv, PTL DEF Spec

\* What a client gets was admitted by a policy that held during the request, and its capability granted
\* by one (resolver.py, admit and verify_capability, which each ask the file again).
THEOREM ResolvedWasGranted == Spec => []ResolvedIsGranted
<1>1. Inv => ResolvedIsGranted
  BY DEF Inv, RequestInv, Admitting, ResolvedIsGranted
<1> QED
  BY <1>1, InventoryHolds, PTL

\* A directory that a client gets was under one authority as a whole, under a policy that held during
\* the request (resolver.py, _admit_directory and nested_scopes).
THEOREM DirectoryWasWhole == Spec => []DirectoryIsWhole
<1>1. Inv => DirectoryIsWhole
  BY DEF Inv, RequestInv, Admitting, IsWhole, DirectoryIsWhole
<1> QED
  BY <1>1, InventoryHolds, PTL

\* What Doctor calls healthy a listing finds fresh (reality_index.py, gateway.py).
THEOREM HealthyWasServed == Spec => []HealthyIsServed
<1>1. ASSUME Inv, Health = "PASS", handle[Serve] = "ok", NEW s \in Required
      PROVE  ScopeStatus(s) = "fresh"
  <2>1. Integrity = "OK" /\ db[s] # None /\ db[s].bound = Current /\ ~Stale(db[s])
    BY <1>1 DEF Health, Current
  <2>2. file = "ours"
    BY <1>1, <2>1 DEF Inv, IndexShape, Integrity
  <2>3. Snapshot(Serve, s, Current) = db[s]
    BY <1>1, <2>1, <2>2 DEF Snapshot, Usable
  <2> QED
    BY <2>1, <2>3 DEF ScopeStatus
<1>2. Inv => HealthyIsServed
  BY <1>1 DEF HealthyIsServed
<1> QED
  BY <1>2, InventoryHolds, PTL

-----------------------------------------------------------------------------
(* What is kept for later readers.                                         *)

\* A scan of the scope that met these policies may list what was found.
Lawful(met, scope, found) == \A e \in found : MayList(met, scope, e)

Begun(met, scope) == \E P \in met : scope \in DOMAIN P /\ "discover" \in P[scope]

\* A scan of the scope may come to the directory, which it has not entered yet.
Reached(met, scope, path) ==
  /\ IsPrefix(ScopeRoot[scope], path)
  /\ \A n \in Len(ScopeRoot[scope])..(Len(path) - 1) : LetsIn(met, SubSeq(path, 1, n))

\* What is left to do of a scan: directories, and whether Git may be asked in them.
ToVisit == [path : Seq(Name), git : BOOLEAN]

\* The policy in force is one that the operation has met, and what it found and where it is are lawful
\* under those that it has met.
ScanInv(P, o) ==
  /\ o.step \in {"snapshot", "memory", "enrich", "walk", "persist", "write"} => P \in o.policies
  /\ o.step \in {"walk", "persist", "write"} => Lawful(o.policies, o.scope, o.found)
  /\ o.step = "walk" =>
       /\ o.todo \in Seq(ToVisit)
       /\ Begun(o.policies, o.scope)
       /\ \A i \in 1..Len(o.todo) : Reached(o.policies, o.scope, o.todo[i].path)
  /\ o.step = "enrich" => Lawful(o.row.met \cup o.policies, o.scope, o.found)
  /\ o.step = "commit" => o.row.bound \in o.row.met /\ Lawful(o.row.met, o.scope, o.row.found)

\* What is lawful stays so when one more policy is met.
LEMMA MetGrow ==
  ASSUME NEW met, NEW more, met \subseteq more, NEW scope
  PROVE  /\ \A found : Lawful(met, scope, found) => Lawful(more, scope, found)
         /\ \A path : Reached(met, scope, path) => Reached(more, scope, path)
         /\ Begun(met, scope) => Begun(more, scope)
<1>1. \A directory : LetsIn(met, directory) => LetsIn(more, directory)
  BY DEF LetsIn
<1>2. \A e : MayList(met, scope, e) => MayList(more, scope, e)
  BY <1>1 DEF MayList
<1> QED
  BY <1>1, <1>2 DEF Lawful, Reached, Begun

\* The directories beneath one on the way to repositories, and to where they lead.
LEMMA BeyondIsReached ==
  ASSUME NEW path \in Seq(Name), NEW git \in BOOLEAN
  PROVE  LET next == {[path |-> d, git |-> git] : d \in Beyond(path)}
         IN  /\ SetToSeq(next) \in Seq(next)
             /\ next \subseteq ToVisit
             /\ \A t \in next : /\ Len(t.path) = Len(path) + 1
                                /\ \A n \in 0..Len(path) : SubSeq(t.path, 1, n) = SubSeq(path, 1, n)
<1> DEFINE beneath == {r \in Repo : IsStrictPrefix(path, RepoAt[r])}
           first(r) == SubSeq(RepoAt[r], 1, Len(path) + 1)
           next == {[path |-> d, git |-> git] : d \in Beyond(path)}
<1>1. next = {[path |-> first(r), git |-> git] : r \in beneath}
  BY DEF Beyond
<1>2. ASSUME NEW r \in beneath
      PROVE  /\ first(r) \in Seq(Name) /\ Len(first(r)) = Len(path) + 1
             /\ \A n \in 0..Len(path) : SubSeq(first(r), 1, n) = SubSeq(path, 1, n)
  <2>1. RepoAt[r] \in Seq(Name) /\ path # RepoAt[r] /\ IsPrefix(path, RepoAt[r])
    BY IndexAssumption DEF IsStrictPrefix
  <2>2. Len(path) <= Len(RepoAt[r]) /\ \A i \in 1..Len(path) : path[i] = RepoAt[r][i]
    BY <2>1, PrefixElementwise
  <2>3. Len(path) # Len(RepoAt[r])
    BY <2>1, <2>2, SeqEqual
  <2>4. Len(path) + 1 \in 1..Len(RepoAt[r])
    BY <2>1, <2>2, <2>3
  <2>5. /\ first(r) \in Seq(Name) /\ Len(first(r)) = Len(path) + 1
        /\ \A i \in 1..(Len(path) + 1) : first(r)[i] = RepoAt[r][i]
    BY <2>1, <2>4
  <2>6. ASSUME NEW n \in 0..Len(path)
        PROVE  SubSeq(first(r), 1, n) = SubSeq(path, 1, n)
    <3> HIDE DEF first
    <3>1. /\ SubSeq(path, 1, n) \in Seq(Name) /\ Len(SubSeq(path, 1, n)) = n
          /\ \A i \in 1..n : SubSeq(path, 1, n)[i] = path[i]
      OBVIOUS
    <3>2. /\ SubSeq(first(r), 1, n) \in Seq(Name) /\ Len(SubSeq(first(r), 1, n)) = n
          /\ \A i \in 1..n : SubSeq(first(r), 1, n)[i] = first(r)[i]
      BY <2>5
    <3>3. \A i \in 1..n : path[i] = first(r)[i]
      BY <2>2, <2>5
    <3> QED
      BY <3>1, <3>2, <3>3, SeqEqual
  <2> QED
    BY <2>5, <2>6
<1>3. IsFiniteSet(next)
  <2>1. IsFiniteSet(beneath)
    BY IndexAssumption, FS_Subset
  <2> DEFINE f == [r \in beneath |-> [path |-> first(r), git |-> git]]
  <2>2. f \in Surjection(beneath, next)
    <3>1. f \in [beneath -> next] /\ \A t \in next : \E r \in beneath : f[r] = t
      BY <1>1
    <3> QED
      BY <3>1 DEF Surjection
  <2> QED
    BY <2>1, <2>2, FS_Surjection DEF ExistsSurjection
<1>4. next \subseteq ToVisit
  BY <1>1, <1>2 DEF ToVisit
<1>5. \A t \in next : /\ Len(t.path) = Len(path) + 1
                      /\ \A n \in 0..Len(path) : SubSeq(t.path, 1, n) = SubSeq(path, 1, n)
  BY <1>1, <1>2
<1>6. SetToSeq(next) \in Seq(next)
  BY <1>3, InSomeOrder
<1> HIDE DEF next
<1> QED
  BY <1>4, <1>5, <1>6 DEF next

\* A directory that was reached and may be entered: what is listed there is lawful, and what lies
\* beneath it is reached.
LEMMA EnteredDirectory ==
  ASSUME NEW met, NEW scope \in Scope, NEW path \in Seq(Name),
         Begun(met, scope), Reached(met, scope, path), LetsIn(met, path)
  PROVE  /\ \A e \in [repo : Repo, git : BOOLEAN] :
              /\ RepoAt[e.repo] = path
              /\ e.git => \E P \in met : "git_observe" \in Authority(P, path)
              => MayList(met, scope, e)
         /\ \A t \in Seq(Name) :
              /\ Len(t) = Len(path) + 1
              /\ \A n \in 0..Len(path) : SubSeq(t, 1, n) = SubSeq(path, 1, n)
              => Reached(met, scope, t)
<1> DEFINE root == ScopeRoot[scope]
<1>1. root \in Seq(Name) /\ Len(root) \in Nat /\ Len(path) \in Nat
  BY ScopeRootAssumption
<1>2. Len(root) <= Len(path) /\ SubSeq(root, 1, Len(root)) = SubSeq(path, 1, Len(root))
  BY DEF Reached, IsPrefix
<1>3. SubSeq(path, 1, Len(path)) = path
  BY SubSeqFull
<1>4. IsPrefix(root, path)
  BY DEF Reached
<1>5. \A n \in Len(root)..Len(path) : LetsIn(met, SubSeq(path, 1, n))
  <2> TAKE n \in Len(root)..Len(path)
  <2>1. CASE n = Len(path)
    BY <1>3, <2>1
  <2>2. CASE n # Len(path)
    <3>1. n \in Len(root)..(Len(path) - 1)
      BY <1>1, <2>2
    <3> QED
      BY <3>1 DEF Reached
  <2> QED
    BY <2>1, <2>2
<1>6. ASSUME NEW e \in [repo : Repo, git : BOOLEAN], RepoAt[e.repo] = path,
             e.git => \E P \in met : "git_observe" \in Authority(P, path)
      PROVE  MayList(met, scope, e)
  BY <1>4, <1>5, <1>6 DEF MayList, Begun
<1>7. ASSUME NEW t \in Seq(Name), Len(t) = Len(path) + 1,
             \A n \in 0..Len(path) : SubSeq(t, 1, n) = SubSeq(path, 1, n)
      PROVE  Reached(met, scope, t)
  <2>1. Len(root) \in 0..Len(path) /\ Len(root) <= Len(t)
    BY <1>1, <1>2, <1>7
  <2>2. IsPrefix(root, t)
    BY <1>2, <1>7, <2>1 DEF IsPrefix
  <2>3. \A n \in Len(root)..(Len(t) - 1) : n \in 0..Len(path) /\ n \in Len(root)..Len(path)
    BY <1>1, <1>7
  <2>4. \A n \in Len(root)..(Len(t) - 1) : LetsIn(met, SubSeq(t, 1, n))
    BY <1>5, <1>7, <2>3
  <2> QED
    BY <2>2, <2>4 DEF Reached
<1> QED
  BY <1>6, <1>7

\* A list that met no edit: the one policy that it met lets every directory on the way be discovered.
LEMMA MetNoEdit ==
  ASSUME NEW P, DOMAIN P \subseteq Scope, NEW scope, NEW entry \in [repo : Repo, git : BOOLEAN],
         MayList({P}, scope, entry)
  PROVE  \A n \in Len(ScopeRoot[scope])..Len(RepoAt[entry.repo]) :
           "discover" \in P[ResolveScope(P, SubSeq(RepoAt[entry.repo], 1, n))]
<1> DEFINE root == ScopeRoot[scope]
           at == RepoAt[entry.repo]
<1>1. scope \in DOMAIN P /\ IsPrefix(root, at)
      /\ \A n \in Len(root)..Len(at) : LetsIn({P}, SubSeq(at, 1, n))
  BY DEF MayList
<1>2. root \in Seq(Name) /\ at \in Seq(Name)
  BY <1>1, ScopeRootAssumption, IndexAssumption
<1> HIDE DEF root, at
<1>3. ASSUME NEW n \in Len(root)..Len(at)
      PROVE  ResolveScope(P, SubSeq(at, 1, n)) # None
  <2>1. Len(root) \in Nat /\ Len(at) \in Nat /\ n \in Nat /\ Len(root) <= n /\ n <= Len(at)
    BY <1>2
  <2>2. SubSeq(at, 1, n) \in Seq(Name) /\ Len(SubSeq(at, 1, n)) = n
        /\ \A i \in 1..n : SubSeq(at, 1, n)[i] = at[i]
    BY <1>2, <2>1
  <2>3. \A i \in 1..Len(root) : root[i] = at[i]
    BY <1>1, <1>2, PrefixElementwise
  <2>4. IsPrefix(root, SubSeq(at, 1, n))
    <3> DEFINE way == SubSeq(at, 1, n)
    <3>1. way \in Seq(Name) /\ Len(root) <= Len(way)
      BY <2>1, <2>2
    <3>2. \A i \in 1..Len(root) : root[i] = way[i]
      BY <2>1, <2>2, <2>3
    <3> HIDE DEF way
    <3>3. IsPrefix(root, way)
      BY <1>2, <3>1, <3>2, PrefixElementwise
    <3> QED
      BY <3>3 DEF way
  <2> QED
    BY <1>1, <2>2, <2>4, SomeScopeDecides DEF root
<1> QED
  BY <1>1, <1>3 DEF LetsIn, root, at

-----------------------------------------------------------------------------
(* What is kept, step by step.                                             *)

ScansInv == \A p \in Process : ScanInv(Current, op[p])
RowsInv == \A s \in Scope : db[s] # None =>
             db[s].bound \in db[s].met /\ Lawful(db[s].met, s, db[s].found)
MemoryInv == \A c \in cache : Lawful(c.row.met, c.scope, c.row.found)

LEMMA OneScan ==
  ASSUME Inv, ScansInv, UNCHANGED policy, NEW p \in Process, NEW o, ScanInv(Current, o),
         op' = [op EXCEPT ![p] = o]
  PROVE  ScansInv'
<1>1. Current' = Current
  BY DEF Current
<1>2. \A q \in Process : op'[q] = IF q = p THEN o ELSE op[q]
  BY DEF Inv, OpInv
<1> QED
  BY <1>1, <1>2 DEF ScansInv

LEMMA OtherScans ==
  ASSUME ScansInv, UNCHANGED <<policy, op>> PROVE ScansInv'
<1>1. Current' = Current /\ op' = op
  BY DEF Current
<1>2. \A p \in Process : ScanInv(Current', op'[p])
  BY <1>1 DEF ScansInv
<1> QED
  BY <1>2 DEF ScansInv

\* An operation that ends has nothing to answer for.
LEMMA EndedScan ==
  /\ \A P : ScanInv(P, Idle)
  /\ \A P, found : ScanInv(P, [Idle EXCEPT !.step = "done", !.found = found])
  /\ \A P : ScanInv(P, [Idle EXCEPT !.step = "raised"])
  BY DEF ScanInv, Idle

LEMMA AnsweredScan ==
  ASSUME Inv, ScansInv, UNCHANGED policy, NEW p \in Process, NEW found, Answer(p, found) \/ Raise(p)
  PROVE  ScansInv'
  BY EndedScan, OneScan DEF Answer, Raise

\* A step on the way to a scan.
LEMMA EarlyScan ==
  ASSUME Inv, ScansInv, UNCHANGED policy, NEW p \in Process, NEW changes, Goes(p, changes),
         "step" \in DOMAIN changes, changes.step \in {"memory", "probe", "discover"},
         "policies" \notin DOMAIN changes, changes.step = "memory" => op[p].step = "snapshot"
  PROVE  ScansInv'
<1> DEFINE o == With(changes, op[p])
<1>1. DOMAIN op[p] = DOMAIN Idle
  BY DEF Inv, OpInv, OpOK
<1>2. o.step = changes.step /\ o.policies = op[p].policies
  BY <1>1 DEF With, Idle
<1>3. op[p].step = "snapshot" => Current \in op[p].policies
  BY DEF ScansInv, ScanInv
<1> HIDE DEF o
<1>4. ScanInv(Current, o)
  BY <1>2, <1>3 DEF ScanInv
<1> QED
  BY <1>4, OneScan DEF Goes, o

LEMMA SnapshotScan == ASSUME Inv, ScansInv, ReadSnapshot PROVE ScansInv'
<1>1. UNCHANGED policy /\ Serve \in Process /\ op[Serve].step = "snapshot"
  BY ServeIsProcess DEF ReadSnapshot
<1>2. ASSUME To(Serve, "memory") PROVE ScansInv'
  BY <1>1, <1>2, EarlyScan DEF To
<1> QED
  BY <1>1, <1>2, AnsweredScan DEF ReadSnapshot

LEMMA MemoryScan == ASSUME Inv, ScansInv, MemoryInv, ReadMemory PROVE ScansInv'
<1> DEFINE me == op[Serve]
<1>1. UNCHANGED policy /\ Serve \in Process
  BY ServeIsProcess DEF ReadMemory
<1>2. DOMAIN me = DOMAIN Idle /\ Current \in me.policies
  BY <1>1 DEF Inv, OpInv, OpOK, ScansInv, ScanInv, ReadMemory
<1>3. ASSUME NEW e \in Entry(me.scope, Current), NEW todo,
             Goes(Serve, [step |-> "enrich", key |-> Current, found |-> e.row.found, row |-> e.row,
                          todo |-> todo])
      PROVE  ScansInv'
  <2> DEFINE o == With([step |-> "enrich", key |-> Current, found |-> e.row.found, row |-> e.row,
                        todo |-> todo], me)
  <2>1. /\ o.step = "enrich" /\ o.key = Current /\ o.found = e.row.found /\ o.row = e.row
        /\ o.scope = me.scope /\ o.policies = me.policies
    BY <1>2 DEF With, Idle
  <2>2. Lawful(e.row.met \cup me.policies, me.scope, e.row.found)
    BY MetGrow DEF Entry, MemoryInv
  <2> HIDE DEF o
  <2>3. ScanInv(Current, o)
    BY <1>2, <2>1, <2>2 DEF ScanInv
  <2> QED
    BY <1>1, <1>3, <2>3, OneScan DEF Goes, o
<1>4. ASSUME NEW next \in {"discover", "probe"}, Goes(Serve, [step |-> next, key |-> Current])
      PROVE  ScansInv'
  BY <1>1, <1>4, EarlyScan
<1>5. \/ \E found : Answer(Serve, found)
      \/ \E e \in Entry(me.scope, Current) : \E todo :
           Goes(Serve, [step |-> "enrich", key |-> Current, found |-> e.row.found, row |-> e.row,
                        todo |-> todo])
      \/ \E next \in {"discover", "probe"} : Goes(Serve, [step |-> next, key |-> Current])
  BY DEF ReadMemory
<1> QED
  BY <1>1, <1>3, <1>4, <1>5, AnsweredScan

\* Git is asked where the policy lets it be asked now, which is one that was met.
LEMMA EnrichScan == ASSUME Inv, ScansInv, EnrichNext PROVE ScansInv'
<1> DEFINE me == op[Serve]
           f == Head(me.todo)
           observed == MayObserveGit(f.repo)
           found == {IF e = f THEN [e EXCEPT !.git = observed] ELSE e : e \in me.found}
           changes == [todo |-> Tail(me.todo), found |-> found]
           o == With(changes, me)
<1>1. UNCHANGED policy /\ Serve \in Process /\ Goes(Serve, changes) /\ me.step = "enrich"
  BY ServeIsProcess DEF EnrichNext
<1>2. DOMAIN me = DOMAIN Idle /\ me.found \in Found /\ ScanInv(Current, me)
  BY <1>1 DEF Inv, OpInv, OpOK, ScansInv
<1>3. /\ o.step = "enrich" /\ o.key = me.key /\ o.found = found /\ o.row = me.row
      /\ o.scope = me.scope /\ o.policies = me.policies
  BY <1>1, <1>2 DEF With, Idle
<1> DEFINE met == me.row.met \cup me.policies
<1>4. ASSUME NEW e \in me.found PROVE MayList(met, me.scope, IF e = f THEN [e EXCEPT !.git = observed] ELSE e)
  <2>1. Current \in met /\ MayList(met, me.scope, e)
    BY <1>1, <1>2, <1>4 DEF ScanInv, Lawful
  <2>2. ASSUME e = f PROVE MayList(met, me.scope, [e EXCEPT !.git = observed])
    <3> DEFINE more == [e EXCEPT !.git = observed]
    <3>1. more.repo = e.repo /\ more.git = observed
      BY <1>2 DEF Found
    <3>2. observed => "git_observe" \in Authority(Current, RepoAt[e.repo])
      BY <2>2 DEF MayObserveGit
    <3> HIDE DEF more, observed, met
    <3> QED
      BY <2>1, <3>1, <3>2 DEF MayList, more
  <2> QED
    BY <2>1, <2>2
<1>5. Lawful(me.row.met \cup me.policies, me.scope, found)
  BY <1>4 DEF Lawful
<1> HIDE DEF o, found
<1>6. ScanInv(Current, o)
  BY <1>1, <1>2, <1>3, <1>5 DEF ScanInv
<1> QED
  BY <1>1, <1>6, OneScan DEF Goes, o

LEMMA DiscoverScan == ASSUME Inv, ScansInv, NEW p \in Process, Discover(p) PROVE ScansInv'
<1> DEFINE me == op[p]
           git == me.enrich /\ "git_observe" \in Rights(me.scope)
           first == [path |-> ScopeRoot[me.scope], git |-> git]
           changes == [step |-> "walk", found |-> {}, policies |-> {Current}, todo |-> <<first>>]
           o == With(changes, me)
<1>1. UNCHANGED policy
  BY DEF Discover
<1>2. me.scope \in Scope /\ DOMAIN me = DOMAIN Idle
  BY DEF Inv, OpInv, OpOK, Discover
<1>3. ASSUME "discover" \in Rights(me.scope), Goes(p, changes) PROVE ScansInv'
  <2>1. ScopeRoot[me.scope] \in Seq(Name)
    BY <1>2, ScopeRootAssumption
  <2>2. git \in BOOLEAN
    BY Zenon
  <2>3. first.path = ScopeRoot[me.scope] /\ first \in ToVisit
    <3> HIDE DEF git
    <3> QED
      BY <2>1, <2>2 DEF ToVisit
  <2>4. Begun({Current}, me.scope)
    BY <1>3 DEF Rights, Begun
  <2>5. Reached({Current}, me.scope, first.path)
    BY <2>1, <2>3 DEF Reached, IsPrefix
  <2> HIDE DEF first
  <2>6. /\ o.step = "walk" /\ o.found = {} /\ o.policies = {Current} /\ o.todo = <<first>>
        /\ o.scope = me.scope
    BY <1>2 DEF With, Idle
  <2>7. /\ <<first>> \in Seq(ToVisit) /\ Len(<<first>>) = 1 /\ <<first>>[1] = first
    BY <2>3
  <2> HIDE DEF o
  <2>8. ScanInv(Current, o)
    BY <2>4, <2>5, <2>6, <2>7 DEF ScanInv, Lawful
  <2> QED
    BY <1>1, <1>3, <2>8, OneScan DEF Goes, o
<1> QED
  BY <1>1, <1>3, AnsweredScan DEF Discover, Fail

\* A directory that may be entered gives its repositories, or what lies beneath it, to the scan; one
\* that may not gives nothing.
LEMMA WalkScan == ASSUME Inv, ScansInv, NEW p \in Process, Walk(p) PROVE ScansInv'
<1> DEFINE me == op[p]
           next == Head(me.todo)
           scope == Walked(me.scope, next.path)
           git == IF scope # None /\ me.enrich THEN "git_observe" \in Current[scope] ELSE next.git
           here == {r \in Repo : RepoAt[r] = next.path}
           within == /\ Len(next.path) <= Len(ScopeRoot[me.scope]) + MaxDepth
                     /\ Cardinality(me.found) < MaxRepos
                     /\ scope # None => "discover" \in Current[scope]
           found == me.found \cup {ReadMetadata(r, git, Enriched(me.found)) : r \in here}
           beneath == {[path |-> d, git |-> git] : d \in Beyond(next.path)}
           todo == IF here # {} THEN Tail(me.todo) ELSE SetToSeq(beneath) \o Tail(me.todo)
<1>1. UNCHANGED policy /\ me.step = "walk" /\ me.todo # <<>>
  BY DEF Walk
<1>2. /\ DOMAIN me = DOMAIN Idle /\ me.todo \in Seq(ToVisit)
      /\ me.scope \in Scope /\ Current \in me.policies
  BY <1>1 DEF Inv, OpInv, OpOK, ScansInv, ScanInv
<1>3. /\ next = me.todo[1] /\ next \in ToVisit /\ 1 \in 1..Len(me.todo)
      /\ Tail(me.todo) \in Seq(ToVisit)
      /\ \A i \in 1..Len(Tail(me.todo)) : /\ Tail(me.todo)[i] = me.todo[i + 1]
                                          /\ i + 1 \in 1..Len(me.todo)
  BY <1>1, <1>2
<1>4. next.path \in Seq(Name) /\ git \in BOOLEAN
  <2>1. next.path \in Seq(Name) /\ next.git \in BOOLEAN
    BY <1>3 DEF ToVisit
  <2>2. ("git_observe" \in Current[scope]) \in BOOLEAN
    OBVIOUS
  <2> HIDE DEF next, scope
  <2> QED
    BY <2>1, <2>2, Zenon
<1>5. IF ~within THEN Goes(p, [todo |-> Tail(me.todo)]) ELSE Goes(p, [found |-> found, todo |-> todo])
  BY Zenon DEF Walk
<1>6. /\ Begun(me.policies, me.scope)
      /\ Lawful(me.policies, me.scope, me.found)
      /\ \A i \in 1..Len(me.todo) : Reached(me.policies, me.scope, me.todo[i].path)
  BY <1>1 DEF ScansInv, ScanInv
<1>7. ASSUME Goes(p, [todo |-> Tail(me.todo)]) PROVE ScansInv'
  <2> DEFINE o == With([todo |-> Tail(me.todo)], me)
  <2>1. /\ o.step = "walk" /\ o.found = me.found /\ o.policies = me.policies /\ o.scope = me.scope
        /\ o.todo = Tail(me.todo)
    BY <1>1, <1>2 DEF With, Idle
  <2> HIDE DEF o
  <2>2. ScanInv(Current, o)
    BY <1>2, <1>3, <1>6, <2>1 DEF ScanInv
  <2> QED
    BY <1>1, <1>7, <2>2, OneScan DEF Goes, o
<1>8. ASSUME within, Goes(p, [found |-> found, todo |-> todo]) PROVE ScansInv'
  <2> DEFINE o == With([found |-> found, todo |-> todo], me)
  <2>1. /\ SetToSeq(beneath) \in Seq(beneath) /\ beneath \subseteq ToVisit
        /\ \A t \in beneath : /\ Len(t.path) = Len(next.path) + 1
                              /\ \A n \in 0..Len(next.path) : SubSeq(t.path, 1, n) = SubSeq(next.path, 1, n)
    <3> HIDE DEF next, git
    <3> QED
      BY <1>4, BeyondIsReached
  <2>2. todo \in Seq(ToVisit) /\ \A i \in 1..Len(todo) : \/ todo[i] \in beneath
                                                       \/ \E j \in 1..Len(me.todo) : todo[i] = me.todo[j]
    <3> HIDE DEF beneath, here
    <3>1. CASE here # {}
      BY <1>3, <3>1
    <3>2. CASE here = {}
      <4> DEFINE new == SetToSeq(beneath)
                 rest == Tail(me.todo)
      <4>1. new \in Seq(ToVisit) /\ rest \in Seq(ToVisit) /\ \A i \in 1..Len(new) : new[i] \in beneath
        BY <1>3, <2>1
      <4>2. \A i \in 1..Len(rest) : \E j \in 1..Len(me.todo) : rest[i] = me.todo[j]
        BY <1>3
      <4> HIDE DEF new, rest
      <4>3. /\ new \o rest \in Seq(ToVisit) /\ Len(new \o rest) = Len(new) + Len(rest)
            /\ \A i \in 1..Len(new \o rest) :
                 (new \o rest)[i] = IF i <= Len(new) THEN new[i] ELSE rest[i - Len(new)]
        BY <4>1
      <4>4. ASSUME NEW i \in 1..Len(new \o rest)
            PROVE  \/ (new \o rest)[i] \in beneath
                   \/ \E j \in 1..Len(me.todo) : (new \o rest)[i] = me.todo[j]
        <5>1. CASE i <= Len(new)
          BY <4>1, <4>3, <5>1
        <5>2. CASE ~(i <= Len(new))
          <6>1. i - Len(new) \in 1..Len(rest)
            BY <4>1, <4>3, <5>2
          <6> QED
            BY <4>2, <4>3, <5>2, <6>1
        <5> QED
          BY <5>1, <5>2
      <4> QED
        BY <3>2, <4>3, <4>4 DEF new, rest
    <3> QED
      BY <3>1, <3>2
  <2>3. /\ Lawful(me.policies, me.scope, found)
        /\ \A t \in beneath : Reached(me.policies, me.scope, t.path)
    <3>1. Reached(me.policies, me.scope, next.path)
      BY <1>3, <1>6
    <3>2. LetsIn(me.policies, next.path)
      BY <1>2, <1>8 DEF Walked, LetsIn
    <3>3. \A e \in [repo : Repo, git : BOOLEAN] :
            /\ RepoAt[e.repo] = next.path
            /\ e.git => \E P \in me.policies : "git_observe" \in Authority(P, next.path)
            => MayList(me.policies, me.scope, e)
      <4> HIDE DEF next
      <4> QED
        BY <1>2, <1>4, <1>6, <3>1, <3>2, EnteredDirectory
    <3>4. \A t \in beneath : Reached(me.policies, me.scope, t.path)
      <4>1. \A t \in beneath : t.path \in Seq(Name)
        BY <2>1 DEF ToVisit
      <4> HIDE DEF next, beneath
      <4> QED
        BY <1>2, <1>4, <1>6, <2>1, <3>1, <3>2, <4>1, EnteredDirectory
    <3>5. ASSUME NEW r \in here
          PROVE  MayList(me.policies, me.scope, ReadMetadata(r, git, Enriched(me.found)))
      <4> DEFINE spent == Enriched(me.found)
                 observed == git /\ spent < GitBudget /\ MayObserveGit(r)
                 e == ReadMetadata(r, git, spent)
      <4>1. observed \in BOOLEAN
        BY Zenon
      <4>2. observed => \E P \in me.policies : "git_observe" \in Authority(P, RepoAt[r])
        BY <1>2 DEF MayObserveGit
      <4> HIDE DEF observed
      <4>3. e = [repo |-> r, git |-> observed]
        BY DEF ReadMetadata, observed
      <4>4. e \in [repo : Repo, git : BOOLEAN] /\ e.repo = r /\ e.git = observed /\ RepoAt[r] = next.path
        BY <4>1, <4>3
      <4> HIDE DEF e, next
      <4> QED
        BY <3>3, <4>2, <4>4 DEF e
    <3>6. Lawful(me.policies, me.scope, found)
      <4> HIDE DEF git, here
      <4> QED
        BY <1>6, <3>5 DEF Lawful
    <3> QED
      BY <3>4, <3>6
  <2>4. \A i \in 1..Len(todo) : Reached(me.policies, me.scope, todo[i].path)
    <3> HIDE DEF found, beneath, todo
    <3> QED
      BY <1>6, <2>2, <2>3
  <2> HIDE DEF found, todo
  <2>5. /\ o.step = "walk" /\ o.found = found /\ o.policies = me.policies /\ o.scope = me.scope
        /\ o.todo = todo
    BY <1>1, <1>2 DEF With, Idle
  <2> HIDE DEF o
  <2>6. ScanInv(Current, o)
    BY <1>2, <1>6, <2>2, <2>3, <2>4, <2>5 DEF ScanInv
  <2> QED
    BY <1>1, <1>8, <2>6, OneScan DEF Goes, o
<1> HIDE DEF within, found, todo
<1> QED
  BY <1>5, <1>7, <1>8

LEMMA ScannedScan == ASSUME Inv, ScansInv, NEW p \in Process, Scanned(p) PROVE ScansInv'
<1> DEFINE o == With([step |-> "persist"], op[p])
<1>1. UNCHANGED policy /\ op[p].step = "walk" /\ Goes(p, [step |-> "persist"])
  BY DEF Scanned, To
<1>2. DOMAIN op[p] = DOMAIN Idle /\ ScanInv(Current, op[p])
  BY DEF Inv, OpInv, OpOK, ScansInv
<1>3. /\ o.step = "persist" /\ o.found = op[p].found /\ o.policies = op[p].policies
      /\ o.scope = op[p].scope
  BY <1>2 DEF With, Idle
<1> HIDE DEF o
<1>4. ScanInv(Current, o)
  BY <1>1, <1>2, <1>3 DEF ScanInv
<1> QED
  BY <1>1, <1>4, OneScan DEF Goes, o

LEMMA PersistScan == ASSUME Inv, ScansInv, NEW p \in Process, Persist(p) PROVE ScansInv'
<1> DEFINE o == With([step |-> "write"], op[p])
<1>1. UNCHANGED policy /\ op[p].step = "persist"
  BY DEF Persist
<1>2. DOMAIN op[p] = DOMAIN Idle /\ ScanInv(Current, op[p])
  BY DEF Inv, OpInv, OpOK, ScansInv
<1>3. ASSUME Goes(p, [step |-> "write"]) PROVE ScansInv'
  <2>1. /\ o.step = "write" /\ o.found = op[p].found /\ o.policies = op[p].policies
        /\ o.scope = op[p].scope
    BY <1>2 DEF With, Idle
  <2> HIDE DEF o
  <2>2. ScanInv(Current, o)
    BY <1>1, <1>2, <2>1 DEF ScanInv
  <2> QED
    BY <1>1, <1>3, <2>2, OneScan DEF Goes, o
<1> QED
  BY <1>1, <1>3, AnsweredScan DEF Persist, To

\* The row that a writer is about to commit is bound to the last policy that it met.
LEMMA WriteScan == ASSUME Inv, ScansInv, NEW p \in Process, Write(p) PROVE ScansInv'
<1> DEFINE me == op[p]
           row == Row(me.found, Current, now, me.enrich, me.policies)
           committing == [step |-> "commit", row |-> row]
           o == With(committing, me)
<1>1. UNCHANGED policy /\ me.step = "write"
  BY DEF Write
<1>2. DOMAIN me = DOMAIN Idle /\ ScanInv(Current, me)
  BY DEF Inv, OpInv, OpOK, ScansInv
<1>3. row.found = me.found /\ row.bound = Current /\ row.met = me.policies
  BY DEF Row
<1>4. row.bound \in row.met /\ Lawful(row.met, me.scope, row.found)
  BY <1>1, <1>2, <1>3 DEF ScanInv
<1> HIDE DEF row
<1>5. o.step = "commit" /\ o.row = row /\ o.scope = me.scope
  BY <1>2 DEF With, Idle
<1> HIDE DEF o
<1>6. ScanInv(Current, o)
  BY <1>4, <1>5 DEF ScanInv
<1>7. ASSUME Goes(p, committing) PROVE ScansInv'
  BY <1>1, <1>6, <1>7, OneScan DEF Goes, o
<1> HIDE DEF committing
<1>8. Answer(p, me.found) \/ Goes(p, committing)
  BY DEF Write, committing, row
<1> QED
  BY <1>1, <1>7, <1>8, AnsweredScan

LEMMA StoreScan == ASSUME Inv, ScansInv, RowsInv, NEW p \in Process, Store(p) PROVE ScansInv' /\ RowsInv'
<1> DEFINE me == op[p]
<1>1. UNCHANGED policy /\ me.step = "commit" /\ (Answer(p, me.found) \/ Raise(p))
  BY DEF Store
<1>2. ScanInv(Current, me) /\ me.scope \in Scope /\ DOMAIN db = Scope
  BY <1>1 DEF Inv, OpInv, OpOK, ScansInv, IndexShape
<1>3. me.row.bound \in me.row.met /\ Lawful(me.row.met, me.scope, me.row.found)
  BY <1>1, <1>2 DEF ScanInv
<1>4. db' = [db EXCEPT ![me.scope] = me.row] \/ UNCHANGED db
  BY DEF Store, Commit, index
<1>5. \A s \in Scope : db'[s] = db[s] \/ (s = me.scope /\ db'[s] = me.row)
  BY <1>2, <1>4
<1>6. RowsInv'
  BY <1>3, <1>5 DEF RowsInv, Lawful
<1> QED
  BY <1>1, <1>6, AnsweredScan

\* What is remembered beside the rest.
LEMMA Remembers ==
  ASSUME MemoryInv, NEW scope, NEW generation, NEW row, cache' = CacheWith(scope, generation, row),
         Lawful(row.met, scope, row.found)
  PROVE  MemoryInv'
<1> DEFINE new == [scope |-> scope, generation |-> generation, row |-> row]
<1>1. \A c \in cache' : c \in cache \/ c = new
  BY DEF CacheWith
<1>2. \A c \in cache' : Lawful(c.row.met, c.scope, c.row.found)
  BY <1>1 DEF MemoryInv
<1> QED
  BY <1>2 DEF MemoryInv, Lawful

LEMMA ScannedMemory == ASSUME Inv, ScansInv, MemoryInv, NEW p \in Process, Scanned(p) PROVE MemoryInv'
<1> DEFINE me == op[p]
           row == Row(me.found, me.key, now, me.enrich, me.policies)
<1>1. ScanInv(Current, me) /\ me.step = "walk"
  BY DEF ScansInv, Scanned
<1>2. row.found = me.found /\ row.met = me.policies
  BY DEF Row
<1>3. Lawful(row.met, me.scope, row.found)
  BY <1>1, <1>2 DEF ScanInv
<1>4. cache' = CacheWith(me.scope, me.key, row) \/ UNCHANGED cache
  BY DEF Scanned
<1> HIDE DEF row
<1>5. CASE UNCHANGED cache
  BY <1>5 DEF MemoryInv, Lawful
<1> QED
  BY <1>3, <1>4, <1>5, Remembers

LEMMA EnrichedMemory ==
  ASSUME Inv, ScansInv, MemoryInv, EnrichDone PROVE ScansInv' /\ MemoryInv'
<1> DEFINE me == op[Serve]
           row == Row(me.found, me.key, now, TRUE, me.row.met \cup me.policies)
<1>1. UNCHANGED policy /\ Serve \in Process /\ Answer(Serve, me.found)
  BY ServeIsProcess DEF EnrichDone
<1>2. ScanInv(Current, me) /\ me.step = "enrich"
  BY <1>1 DEF ScansInv, EnrichDone
<1>3. Lawful(me.row.met \cup me.policies, me.scope, me.found)
  BY <1>2 DEF ScanInv
<1>4. cache' = CacheWith(me.scope, me.key, row)
  BY DEF EnrichDone
<1>5. row.found = me.found /\ row.met = me.row.met \cup me.policies
  BY DEF Row
<1> HIDE DEF row
<1>6. MemoryInv'
  BY <1>3, <1>4, <1>5, Remembers
<1> QED
  BY <1>1, <1>6, AnsweredScan

\* An edit while an operation is under way is one more policy that it has met.
LEMMA EditScan ==
  ASSUME Inv, ScansInv, NEW new \in Policies, EditPolicy(new) PROVE ScansInv'
<1>1. Current' = Loaded(new)
  BY DEF EditPolicy, Current
<1>2. ASSUME NEW p \in Process PROVE ScanInv(Loaded(new), op'[p])
  <2>1. ScanInv(Current, op[p]) /\ DOMAIN op[p] = DOMAIN Idle
    BY DEF ScansInv, Inv, OpInv, OpOK
  <2>2. op'[p] = IF op[p].policies = {} THEN op[p]
                 ELSE [op[p] EXCEPT !.policies = @ \cup {Loaded(new)}]
    BY DEF EditPolicy
  <2>3. CASE op[p].policies = {}
    BY <2>1, <2>2, <2>3 DEF ScanInv
  <2>4. CASE op[p].policies # {}
    <3> DEFINE o == [op[p] EXCEPT !.policies = @ \cup {Loaded(new)}]
    <3>1. /\ o.policies = op[p].policies \cup {Loaded(new)}
          /\ o.step = op[p].step /\ o.scope = op[p].scope /\ o.found = op[p].found
          /\ o.todo = op[p].todo /\ o.key = op[p].key /\ o.row = op[p].row
      BY <2>1 DEF Idle
    <3> HIDE DEF o
    <3>2. /\ op[p].policies \subseteq o.policies /\ Loaded(new) \in o.policies
          /\ op[p].row.met \cup op[p].policies \subseteq o.row.met \cup o.policies
      BY <3>1
    <3>3. /\ Lawful(op[p].policies, o.scope, o.found) => Lawful(o.policies, o.scope, o.found)
          /\ Begun(op[p].policies, o.scope) => Begun(o.policies, o.scope)
          /\ \A path : Reached(op[p].policies, o.scope, path) => Reached(o.policies, o.scope, path)
      BY <3>2, MetGrow
    <3>4. Lawful(op[p].row.met \cup op[p].policies, o.scope, o.found) =>
            Lawful(o.row.met \cup o.policies, o.scope, o.found)
      BY <3>2, MetGrow
    <3>5. ScanInv(Loaded(new), o)
      BY <2>1, <3>1, <3>2, <3>3, <3>4 DEF ScanInv
    <3> QED
      BY <2>2, <2>4, <3>5 DEF o
  <2> QED
    BY <2>3, <2>4
<1> QED
  BY <1>1, <1>2 DEF ScansInv

KeptInv == ScansInv /\ RowsInv /\ MemoryInv

LEMMA RowsRest == ASSUME RowsInv, UNCHANGED db PROVE RowsInv'
  BY DEF RowsInv, Lawful

LEMMA MemoryRests == ASSUME MemoryInv, UNCHANGED cache PROVE MemoryInv'
  BY DEF MemoryInv, Lawful

LEMMA BeginScan ==
  ASSUME Inv, ScansInv, UNCHANGED policy, NEW scope, NEW enrich, NEW for,
         AskInventory(scope, enrich, for)
  PROVE  ScansInv'
<1> DEFINE changes == [step |-> "snapshot", for |-> for, scope |-> scope, enrich |-> enrich,
                       asked |-> Current, policies |-> {Current}]
           o == With(changes, op[Serve])
<1>1. Serve \in Process
  BY ServeIsProcess
<1>2. DOMAIN op[Serve] = DOMAIN Idle
  BY <1>1 DEF Inv, OpInv, OpOK
<1>3. o.step = "snapshot" /\ o.policies = {Current}
  BY <1>2 DEF With, Idle
<1> HIDE DEF o
<1>4. ScanInv(Current, o)
  BY <1>3 DEF ScanInv
<1> QED
  BY <1>1, <1>4, OneScan DEF AskInventory, Goes, o

LEMMA StartScan ==
  ASSUME Inv, ScansInv, NEW scope \in Scope, NEW enrich, StartWorker(scope, enrich) PROVE ScansInv'
<1> DEFINE o == [Idle EXCEPT !.step = "discover", !.scope = scope, !.enrich = enrich, !.key = Current]
<1>1. scope \in Process /\ UNCHANGED policy /\ op' = [op EXCEPT ![scope] = o]
  BY ServeIsProcess DEF StartWorker
<1>2. ScanInv(Current, o)
  BY DEF ScanInv, Idle
<1> QED
  BY <1>1, <1>2, OneScan

LEMMA ProbeScan == ASSUME Inv, ScansInv, Probe PROVE ScansInv'
<1>1. UNCHANGED policy /\ Serve \in Process
  BY ServeIsProcess DEF Probe
<1>2. ASSUME NEW enrich, Goes(Serve, [step |-> "discover", enrich |-> enrich]) PROVE ScansInv'
  BY <1>1, <1>2, EarlyScan
<1>3. ASSUME Goes(Serve, [step |-> "discover"]) PROVE ScansInv'
  BY <1>1, <1>3, EarlyScan
<1>4. \/ \E enrich : Goes(Serve, [step |-> "discover", enrich |-> enrich])
      \/ Goes(Serve, [step |-> "discover"])
  BY DEF Probe, To
<1> QED
  BY <1>2, <1>3, <1>4

LEMMA OthersScan == ASSUME Inv, KeptInv, Others PROVE KeptInv'
<1>1. ASSUME NEW s \in Scope, KillWorker(s) PROVE KeptInv'
  <2>1. ScansInv'
    BY <1>1, ServeIsProcess, EndedScan, OneScan DEF KillWorker, KeptInv
  <2> QED
    BY <1>1, <2>1, RowsRest, MemoryRests DEF KillWorker, KeptInv, index
<1>2. ASSUME UNCHANGED <<policy, op, db, cache>> PROVE KeptInv'
  BY <1>2, OtherScans, RowsRest, MemoryRests DEF KeptInv
<1>3. ASSUME RestartServe PROVE KeptInv'
  <2>1. ScansInv'
    BY <1>3, ServeIsProcess, EndedScan, OneScan DEF RestartServe, KeptInv
  <2>2. MemoryInv'
    BY <1>3 DEF RestartServe, MemoryInv
  <2> QED
    BY <1>3, <2>1, <2>2, RowsRest DEF RestartServe, KeptInv
<1>4. ASSUME NEW new \in Policies, EditPolicy(new) PROVE KeptInv'
  BY <1>4, EditScan, RowsRest, MemoryRests DEF EditPolicy, KeptInv, index
<1> QED
  BY <1>1, <1>2, <1>3, <1>4 DEF Others, ChangeFile, Tick, index, discovery

LEMMA InitKept == Init => KeptInv
<1> SUFFICES ASSUME Init PROVE KeptInv
  OBVIOUS
<1>1. ScansInv
  BY EndedScan DEF Init, DiscoveryInit, ScansInv
<1>2. RowsInv /\ MemoryInv
  BY DEF Init, IndexInit, DiscoveryInit, RowsInv, MemoryInv
<1> QED
  BY <1>1, <1>2 DEF KeptInv

LEMMA StepKept == Inv /\ KeptInv /\ [Next]_vars => KeptInv'
<1> SUFFICES ASSUME Inv, KeptInv, [Next]_vars PROVE KeptInv'
  OBVIOUS
<1>0. ScansInv /\ RowsInv /\ MemoryInv
  BY DEF KeptInv
<1>1. CASE UNCHANGED vars
  BY <1>0, <1>1, OtherScans, RowsRest, MemoryRests DEF vars, index, discovery, KeptInv
<1>2. ASSUME Ask PROVE KeptInv'
  <2>1. ASSUME NEW s, NEW enrich, AskInventory(s, enrich, "client"), UNCHANGED <<policy, index, cache>>
        PROVE  KeptInv'
    BY <1>0, <2>1, BeginScan, RowsRest, MemoryRests DEF KeptInv, index
  <2>2. ASSUME NEW s \in Scope, NEW enrich, StartWorker(s, enrich) PROVE KeptInv'
    BY <1>0, <2>2, StartScan, RowsRest, MemoryRests DEF KeptInv, StartWorker
  <2>3. ASSUME UNCHANGED <<policy, op, index, cache>> PROVE KeptInv'
    BY <1>0, <2>3, OtherScans, RowsRest, MemoryRests DEF KeptInv, index
  <2> QED
    BY <1>2, <2>1, <2>2, <2>3 DEF Ask, AskName, AskPath
<1>3. ASSUME Inventory PROVE KeptInv'
  <2>1. ASSUME ReadSnapshot \/ EnrichNext \/ Probe \/ \E p \in Process : Discover(p) \/ Walk(p) \/ Write(p)
        PROVE  KeptInv'
    <3>1. UNCHANGED <<db, cache>>
      BY <2>1 DEF ReadSnapshot, EnrichNext, Probe, Discover, Walk, Write, index
    <3>2. ScansInv'
      BY <1>0, <2>1, SnapshotScan, EnrichScan, ProbeScan, DiscoverScan, WalkScan, WriteScan
    <3> QED
      BY <1>0, <3>1, <3>2, RowsRest, MemoryRests DEF KeptInv
  <2>2. ASSUME ReadMemory PROVE KeptInv'
    BY <1>0, <2>2, MemoryScan, RowsRest, MemoryRests DEF ReadMemory, KeptInv, index
  <2>3. ASSUME EnrichDone PROVE KeptInv'
    BY <1>0, <2>3, EnrichedMemory, RowsRest DEF EnrichDone, KeptInv, index
  <2>4. ASSUME NEW p \in Process, Scanned(p) PROVE KeptInv'
    BY <1>0, <2>4, ScannedScan, ScannedMemory, RowsRest DEF Scanned, KeptInv, index
  <2>5. ASSUME NEW p \in Process, Persist(p) PROVE KeptInv'
    <3>1. db' = [s \in Scope |-> None] \/ UNCHANGED db
      BY <2>5 DEF Persist, Rebuild, index
    <3>2. RowsInv'
      BY <1>0, <3>1, RowsRest DEF RowsInv
    <3> QED
      BY <1>0, <2>5, <3>2, PersistScan, MemoryRests DEF Persist, KeptInv
  <2>6. ASSUME NEW p \in Process, Store(p) PROVE KeptInv'
    BY <1>0, <2>6, StoreScan, MemoryRests DEF Store, KeptInv
  <2> QED
    BY <1>3, <2>1, <2>2, <2>3, <2>4, <2>5, <2>6 DEF Inventory
<1>4. ASSUME Resolution PROVE KeptInv'
  <2>1. UNCHANGED <<policy, db, cache>>
    BY <1>4 DEF Resolution, Lookup, NextScope, TakeInventory, ScanNames, Choose, Admit, Locate, AdmitDirectory,
                Verify, Deliver,
                index
  <2>2. ASSUME NextScope PROVE ScansInv'
    <3>1. UNCHANGED op \/ \E scope : AskInventory(scope, FALSE, "name")
      BY <2>2 DEF NextScope
    <3> QED
      BY <1>0, <2>1, <3>1, BeginScan, OtherScans
  <2>3. ASSUME TakeInventory PROVE ScansInv'
    BY <1>0, <2>1, <2>3, ServeIsProcess, EndedScan, OneScan DEF TakeInventory
  <2>4. ScansInv'
    BY <1>0, <1>4, <2>1, <2>2, <2>3, OtherScans
    DEF Resolution, Lookup, ScanNames, Choose, Admit, Locate, AdmitDirectory,
                Verify, Deliver
  <2> QED
    BY <1>0, <2>1, <2>4, RowsRest, MemoryRests DEF KeptInv
<1>5. ASSUME Others PROVE KeptInv'
  BY <1>5, OthersScan
<1> QED
  BY <1>1, <1>2, <1>3, <1>4, <1>5 DEF Next

\* What is kept for later readers, in the file or in memory, lists only what policies allowed that were
\* in force while it was made, Git's answers included, however they change during scans and commits;
\* the row is bound to one of them (discovery.py, the scan, its memory and _persist_to_index).
THEOREM KeptIsLawful == Spec => []BoundToItsPolicy
<1>1. KeptInv => BoundToItsPolicy
  BY DEF KeptInv, RowsInv, MemoryInv, Lawful, BoundToItsPolicy
<1>2. Spec => []KeptInv
  BY InitInv, StepInv, InitKept, StepKept, PTL DEF Spec
<1> QED
  BY <1>1, <1>2, PTL

=============================================================================
