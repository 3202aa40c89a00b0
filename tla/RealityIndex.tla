----------------------------- MODULE RealityIndex -----------------------------
(***************************************************************************)
(* The reality index (reality_index.py): one SQLite file in which every    *)
(* process of UAM keeps, per scope, the inventory it last saw, so that the *)
(* next reader need not scan.  A row is bound to the policy it was written *)
(* under.  Reads are a shortcut: an index that is newer than this release, *)
(* busy or damaged is a miss.                                              *)
(*                                                                         *)
(* Only the active generation of a scope is ever read; the two generations *)
(* kept behind it, and the alias columns, which follow from the rows, are  *)
(* left out.  SQLite (external) makes a transaction one step.              *)
(***************************************************************************)
EXTENDS Scopes

CONSTANTS
  Repo,         \* Git repositories
  RepoAt,       \* the directory of each
  Basename,     \* its name
  Remote,       \* the last part of its remote, or None
  Policies,     \* what the RootScope file may hold
  Serve,        \* the process that answers clients; the others are named after the scope they index
  MaxAge,       \* DEFAULT_MAX_AGE_SEC: an inventory older than this is not served as fresh
  MaxTime       \* bound: the clock, from 0

ASSUME IndexAssumption ==
  /\ IsFiniteSet(Repo)
  /\ RepoAt \in [Repo -> Seq(Name)]
  /\ DOMAIN Basename = Repo /\ DOMAIN Remote = Repo
  /\ \A p \in Policies \ {None} : IsPolicy(p)
  /\ Serve \notin Scope
  /\ MaxAge \in Nat /\ MaxTime \in Nat

VARIABLES
  policy,   \* what the RootScope file holds
  now,
  db,       \* the active row of every scope
  file,     \* "ours", "newer" (another release migrated it) or "damaged"
  handle    \* what each process knows of the file: it never forgets by itself

index == <<db, file, handle>>

Process == Scope \cup {Serve}

Found == SUBSET [repo : Repo, git : BOOLEAN]

\* met is history: the policies in force from the first question of the scan to the write.
Row(found, bound, at, enriched, met) ==
  [found |-> found, bound |-> bound, at |-> at, enriched |-> enriched, met |-> met]

IndexTypeOK ==
  /\ policy \in Policies
  /\ now \in 0..MaxTime
  /\ \A s \in Scope : db[s] # None =>
       /\ db[s].found \in Found
       /\ db[s].enriched \in BOOLEAN
       /\ db[s].at <= now
  /\ file \in {"ours", "newer", "damaged"}
  /\ handle \in [Process -> {"ok", "newer", "corrupt"}]

\* _ensure_schema, _install_schema: a process opens the file, or makes it.
Opened == IF file = "ours" THEN "ok" ELSE IF file = "newer" THEN "newer" ELSE "corrupt"

\* UAM starts with a configuration; it may vanish later.
IndexInit ==
  /\ policy \in Policies \ {None}
  /\ now = 0
  /\ db = [s \in Scope |-> None]
  /\ file = "ours"
  /\ handle = [p \in Process |-> "ok"]

-----------------------------------------------------------------------------

\* A handle that has seen a newer schema, or damage, reads nothing any more.
Usable(p) == handle[p] = "ok" /\ file = "ours"

\* _validate_schema_version and _handle_db_error: what a read that reached the file leaves behind.
Learned(p) == IF handle[p] = "ok" THEN [handle EXCEPT ![p] = Opened] ELSE handle

\* get_active_snapshot without its age limit: the row, if this process may serve it under this policy.
Snapshot(p, scope, generation) ==
  IF Usable(p) /\ db[scope] # None /\ db[scope].bound = generation THEN db[scope] ELSE None

Stale(row) == now - row.at > MaxAge

FreshSnapshot(p, scope, generation) ==
  LET row == Snapshot(p, scope, generation)
  IN IF row # None /\ ~Stale(row) THEN row ELSE None

\* _is_active_enriched: whatever goes wrong is taken for "not enriched".  It asks neither
\* the handle nor the schema.
ActiveEnriched(scope, generation) ==
  /\ file # "damaged"
  /\ db[scope] # None
  /\ db[scope].enriched
  /\ db[scope].bound = generation

\* project_id: known from the remote once Git was asked, else from the directory.
ProjectId(entry) ==
  IF entry.git /\ Remote[entry.repo] # None THEN Remote[entry.repo] ELSE Basename[entry.repo]

\* lookup_by_alias: by directory, project or remote, in all scopes whose row is bound to this policy.
ByAlias(p, alias, generation) ==
  LET known == {d \in Scope \X [repo : Repo, git : BOOLEAN] :
                  /\ Snapshot(p, d[1], generation) # None
                  /\ d[2] \in db[d[1]].found
                  /\ alias \in {Basename[d[2].repo], ProjectId(d[2])}}
  IN {[scope |-> d[1], repo |-> d[2].repo] : d \in known}

-----------------------------------------------------------------------------

\* rebuild: everything is dropped, whatever release wrote it, and the file is this release's again.
Rebuild(p) ==
  /\ db' = [s \in Scope |-> None]
  /\ file' = "ours"
  /\ handle' = [handle EXCEPT ![p] = "ok"]

\* write_snapshot, its transaction.  The schema is not asked again: a newer one is written into.
Commit(p, scope, row) ==
  IF file = "damaged"
  THEN handle' = [handle EXCEPT ![p] = "corrupt"] /\ UNCHANGED <<db, file>>
  ELSE db' = [db EXCEPT ![scope] = row] /\ UNCHANGED <<file, handle>>

-----------------------------------------------------------------------------

\* _index_enabled_scopes and the Supervisor's _required_index_scopes.
Required == {s \in DOMAIN Loaded(policy) : {"discover", "index"} \subseteq Loaded(policy)[s]}

\* check_integrity, as a process finds it that has just opened the file.
Integrity ==
  CASE file = "newer" -> "INCOMPATIBLE" [] file = "damaged" -> "CORRUPT" [] OTHER -> "OK"

\* Mutant of Health: a required scope that was indexed under another policy counts as indexed.
HealthOfAnyPolicy ==
  IF Integrity = "INCOMPATIBLE" THEN "reality_index_schema_incompatible"
  ELSE IF Integrity # "OK" THEN "reality_index_integrity_failure"
  ELSE IF \E s \in Required : db[s] = None THEN "reality_index_missing"
  ELSE IF \E s \in Required : Stale(db[s]) THEN "reality_index_stale"
  ELSE IF \E s \in Required : ~db[s].enriched THEN "reality_index_not_enriched"
  ELSE "PASS"

\* health_report: only required scopes decide, and the first fault names the failure.
Health ==
  IF Integrity = "INCOMPATIBLE" THEN "reality_index_schema_incompatible"
  ELSE IF Integrity # "OK" THEN "reality_index_integrity_failure"
  ELSE IF \E s \in Required : db[s] = None THEN "reality_index_missing"
  ELSE IF \E s \in Required : db[s].bound # Loaded(policy) THEN "reality_index_policy_mismatch"
  ELSE IF \E s \in Required : Stale(db[s]) THEN "reality_index_stale"
  ELSE IF \E s \in Required : ~db[s].enriched THEN "reality_index_not_enriched"
  ELSE "PASS"

=============================================================================
