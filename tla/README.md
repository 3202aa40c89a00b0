# Formal models of universal-agent-middleware

TLA+ models of the parts of this repository that keep state, TLC runs that check
them on small instances, and TLAPS proofs for every value of their constants.
Paths below are relative to `src/universal_agent_middleware/`.

## 1. The system and its parts

UAM lets reasoning clients read registered workspaces, hands contracts of work
from one principal to another, and may run executors for such contracts.

| Part | State it keeps | Operations | What it depends on |
| --- | --- | --- | --- |
| Continuity control (`task_continuity_control.py`, rules in `task_continuity.py`, base class in `task_control.py`) | one JSON record per delivery, `by-contract/` claims, the result store | `deliver_continuity`, `cancel`, `start_attempt`, `submit_result`, `end_attempt`, `handover`, reads | state lock and atomic writes (`statefile.py`), contract and result stores, the authority's verifier, the audit ledger |
| Resident Consumer (`consumer.py`) | journal, job directories, target locks; threads in memory | `poll_once`, per delivery: start, adopt, finalise, submit | continuity control (calls), adapters (call and callback `on_started`) |
| Harness adapters (`harness_adapter.py`) | `job.json`, `outcome.json`, processes | `run`, `close_and_report`, read-back of processes | operating system; a command or the Codex App Server |
| Audit ledger (`audit.py`) | a JSONL hash chain | `append`, `verify`, migration | file system, advisory lock, the freeze latch |
| Supervisor, service, Doctor (`supervisor.py`, `service.py`, `doctor.py`) | freeze latch, restart budget, tunnel identity | one bounded recovery cycle; the tunnel wrapper's watch; the report | the install, launchd, the lock it shares with releases |
| Release pipeline (`release*.py`, `runtime.py`) | release directories, seal, `current` link, latch | stage, build, probe, pin, switch, judge, isolate | the Supervisor's lock and latch, launchd, the Doctor |
| Reality index (`reality_index.py`) | SQLite rows, one active per scope | snapshot, write, rebuild, health | discovery, several processes on one database |
| Root scopes, resolver, discovery (`root_scope.py`, `resolver.py`, `discovery.py`) | the loaded policy, the memory of the last scans | decisions; a scan; admission of a name or a path | the RootScope file, the index, the file tree |
| Path authority, descriptors, digests (`path_authority.py`, `descriptor_io.py`, `file_digest.py`) | none | check and open under a root, bounded digest | a file tree that others change |
| Workspaces, gateway, search (`workspace.py`, `gateway.py`, `scope_search.py`) | the loaded registry | sessions of reads, listings, searches | all of the above |
| Ignore rules, exploration, Git observation | none | match, compose, bounded `git` children | files, git |
| Contracts and results (`contracts.py`, `results*.py`) | content-addressed stores | put once, read, validate | file system |
| Installer, transports, command lines, profiles | none of their own | translate calls | everything above |

Three groups of parts interact, and each is one composed model: the
**delivery of work** (control, Consumer, adapters, ledger), the **host** (service,
Supervisor, Doctor, release runs over one install) and the **reading side**, in two
halves: what exists (index, discovery, resolver) and what is read (workspaces,
path authority, search).

What is hard, and what makes the parts correct:

* **Continuity control.** Several principals act on several deliveries of one
  task; leases run out while executors work; results and stop reports come late;
  an operation that writes twice may be cut apart. Correct means: one active
  attempt per task; no second executor beside one that has not been confirmed to
  have stopped, except where the owner's authority was shown it; results and
  closures are final; a cancel blocks claims; what an executor reports is recorded.
* **Consumer and adapters.** The Consumer may die anywhere while executors go
  on. Correct means: each attempt is found again and never made twice; what UAM
  is told of a stop is true; a target is never given to two executors; a
  submission is repeated byte for byte; nothing stays open for no reason.
* **Audit ledger.** Several processes append to one file and may die in a write.
  Correct means: one unforked chain, no torn record extended, acknowledged
  records survive, a writer never follows a replaced file.
* **Host.** Wrapper, cycle and release run are processes that share only files,
  each may end between any two steps, and launchd restarts what it likes. Correct
  means: a freeze ends the service and is never lifted by anything but an
  operator; restarts stay in their budget; `current` moves only while nothing
  serves, to the whole release that was checked; a release is accepted only on
  what was declared; what a sealed run took out stays out.
* **Index and resolution.** The RootScope file is edited, rows age, the file is
  damaged or migrated by a newer release, and workers die. Correct means: what is
  kept lists only what a policy in force while it was made allowed; what a client
  gets was granted, and a directory is served whole or not at all; a healthy index
  is one that serves.
* **Reads.** Names, links, files and policies change between the look and the
  open. Correct means: no content from where the policy forbids it; a digest of
  one content; a search that reports no limit missed nothing that was there.

## 2. Modules

### Delivery of work

| Module | What it is |
| --- | --- |
| `DeliveryRecord` | operators on one delivery record: attempts, how they close, stop evidence, the stop gate, unresolved effects |
| `TaskContinuity` | the continuity control: state variables are the fields of the records, the claims and the result store; one action per operation |
| `ExecutionRights` | the abstract promise: rights to execute, issued, returned, and linked |
| `Consumer` | the Consumer, its journal and files, both adapters, and executors |
| `AuditLog` | `HashChainedAuditLog.append`, one action per system call |
| `MCTaskContinuity`, `MCConsumer`, `MCAuditLog` | instances for TLC |

**TaskContinuity.** Every operation of `ContinuityControl` holds
`statefile.exclusive_lock` from its first decisive read to its save, so it is one
step. `deliver_continuity` writes the claim and then the record; `submit_result`
writes the result store and then the record: `ClaimCutOff` and `SubmitCutOff` are
the steps of a process that dies in between. The wall clock is free: whether a
lease "has run out" is a choice at each call. A refusal, a replay of a recorded
operation and a read change nothing and are no step. `working` is no state of the
code: it is the set of executors that really run, and the properties relate the
records to it. An executor is assumed to report a stop, or submit a result, only
after it stopped; `Consumer` shows where the Consumer keeps that promise and
where it does not.

| Action | Code |
| --- | --- |
| `Deliver`, `ClaimCutOff` | `deliver_continuity`, `_check_continuation`, `_claim_contract` |
| `Cancel` | `cancel` |
| `StartAttempt`, `StartClosesExpired` | `start_attempt`, `_attempt_gate`, `_require_free_task`, `_close_expired_attempt` |
| `SubmitResult`, `SubmitCutOff` | `submit_result`, `_ingest_result` |
| `EndAttempt`, `LateStopReport` | `end_attempt`, `_report_stop` |
| `HandoverRequester`, `HandoverRecipient` | `handover` |
| `ExecutorStops` | the executor's process (external) |

**ExecutionRights.** A right belongs to a delivery of a task. It may be issued
only while every other right of its task that is out is linked to it; it returns
when its stop is confirmed. `TaskContinuity` implements it with
`rights <- Unconfirmed` (attempts whose stop is not confirmed),
`links <- continues` and `closed <-` cancelled or settled: `Deliver` is
`Register`, `StartAttempt` is `Issue`, `EndAttempt` and `LateStopReport` are
`Return`, `Cancel` is `Close`, `SubmitResult` is `Settle`, and the other actions
stutter.

**Consumer.** `pc` is where the thread of a delivery is; `journal`, `intent`,
`jobFile`, `outcome` and `prepared` survive a `Crash`, as do `alive` (processes)
and UAM's own `attempt` and `stored`. Places between two writes are places of
`pc`, so a crash can fall between any two of them. Target locks are advisory locks
on descriptors that the executor inherits: `TargetLocked` holds while the thread
or the executor does. An Agent's server may start a process ("helper") in a group
of its own. `LateHelpers` says whether it may do so after its process tree was
listed; it is FALSE except in the run that shows what happens then. A file or
journal write that fails raises and is `Abandon`, at any place of a thread: what it
leaves is what a crash at the same place leaves. `lapsed` are the attempts that UAM
ended itself: of these it still takes a report, the same report again, and a result. Backoff and advisory records only decide when the
Consumer looks again and are left out.

**AuditLog.** The lock, the length and the identity belong to an inode, the name
to whatever is there. `OpenFile` and `Lock` are two steps, `Write` and `Sync` are
two, and the directory is a third (`SyncEntry`). `PowerLoss` keeps what was synced
and any beginning of the rest; it may take a file whose name was not synced.
`SyncFails` is an fsync that raises in a writer that lives on: its record stays, is
not acknowledged, and the writer still knows the file as it was before. A later fsync
that succeeds is taken to write what the earlier one did not.

### Host

| Module | What it is |
| --- | --- |
| `Acceptance` | `release_acceptance.py` as operators: declarations, the exact predicate, its codes |
| `ReleaseContent` | what lies in a release directory, and the checks that compare it with itself, the commit and a seal |
| `Install` | what the processes share: releases, `current`, latch, lock, configuration; what others do to it |
| `Tunnel` | the wrapper `run_tunnel`, the client it starts, and launchd's list of jobs |
| `Doctor` | `run_doctor`: the checks, the roll-up |
| `Supervisor` | one cycle: lock, checks, verdict, budget, latch, kickstart, deadline |
| `ReleaseRun` | one run of `release.py`, step by step, with its ends |
| `Host`, `MCHost` | the composition, its properties; the instance |

Each module extends the one before it, and `Host` takes any step of one process
and leaves the others' variables alone. A release directory is a record of what
is in it, and a digest is the content itself. `phase` and `step` are where a run
and a cycle are, one write of a shared file per step, so that a death
(`Die`, `CycleDies`, `Interrupt`, `Reboot`) can come between any two. launchd
lists a job until its wrapper is gone, and what the wrapper leaves may linger
(`ENDING`, `EXITING`). The Supervisor's clock counts from the first restart; a
restart is recorded with the time at which the budget allowed it. Of a run that is
over only the end of a sealed one that had stopped the service is remembered,
because a property speaks of it (`Remembered`). Its end is `UNLATCHED` where the
latch could not be written and only the run's report says so. In the initial state the old
release serves, and the new one is missing, complete, or as a run left it that
died before it pinned the manifest.

| Actions | Code |
| --- | --- |
| `AdmitInstall`, `StartClient`, `RecordIdentity`, `IdentityUnverified`, `WatchAlignment`, `ObeyLatch` | `service.py`, `run_tunnel` and its watch |
| `Unload`, `CarryOutKick`, `ClientEnds`, `ClientExits` | launchd and processes (external) |
| `BeginCycle` .. `RequestRestart`, `CycleDies` | `supervisor.py`, `run_cycle` |
| `BeginRun` .. `VerifyArtifacts` | `release.py` up to the lock |
| `HoldLock`, `CheckUnderLock`, `StopTunnel`, `TunnelStopped`, `SwitchCurrent`, `UpdateRuntime`, `StartTunnel`, `RefreshIndex`, `ExamineSwitched`, `Judge` | `_switch_and_judge`, `_verify_activation` and what they call |
| `Isolate`, `IsolationStop`, `LatchIsolation` | `_isolate`, `_write_freeze_latch` |

### What exists: index, discovery, resolution

| Module | What it is |
| --- | --- |
| `Scopes` | RootScopes and the authority of a path, as it is spelled and as it folds |
| `RealityIndex` | the SQLite file: rows, what each process knows of the file, write, rebuild, health |
| `Discovery` | the inventory of a scope, from the index, the memory or a scan; indexing workers |
| `Resolver` | from a name or a path to a workspace: index, inventories, directories, admission, capability |
| `Inventory`, `MCInventory` | the composition, its properties; the instance |

`op[p].step` is where process `p` is. A scan asks the RootScope file again at
every directory, and the write asks again what it may write; edits come between
any two of these. A SQLite transaction is one step (external). The serving
process runs one request at a time; one worker per scope is what the file
`refresh-<scope>.lock` allows. An admission is four steps, `Admit`, `Locate`,
`AdmitDirectory` (for a directory) and `Verify`, because each asks the file again.
`met` and `policies` are history: which policies were in force while a row was made,
and during a request or an operation.

### What is read

| Module | What it is |
| --- | --- |
| `FileTree` | directories, links, files and open objects, and what others do to them |
| `Workspaces` | a registered or derived workspace, the registry and its reload, what binds a root |
| `Reader` | `read_file`, `file_digest`, `tree` and `search_text`, name by name |
| `ScopeSearch` | `search_scope`: the walk, pockets, batches, the final filter |
| `Reads`, `MCReads` | the composition, its properties; the instance |

One call runs at a time, since calls share nothing but the files. An open is a
step, and between a look at a path and the open of its next name others may move
anything; a pocket's path, too, is opened one name per step. Listing a directory
together with opening it is one step, and so is the final filter of a hit. `text`
of a file is its content and modification time together. `during` is history: which policies held
during the call, and which files a complete answer is expected to have: those that
lie all through the call in the same directories, under as many names, and that can
be opened, are allowed and hold the text at every moment of it. A file system that
folds case keeps one entry for all spellings of a name (`OtherSpellings`).

### Proof modules

| Module | What it proves |
| --- | --- |
| `ExecutionRightsProofs`, `TaskContinuityProofs` | the continuity control, and that it implements its abstract promise |
| `ConsumerProofs` | the Consumer |
| `AuditLogProofs` | the ledger |
| `HostProofs` | the host |
| `ScopesProofs` | lemmas on paths and on the authority over them, for the next two |
| `InventoryProofs` | index, discovery and resolution |
| `ReadsProofs` | digests, what a call takes, and that it misses nothing |

## 3. Runs

| Run | What it asks | Bounds |
| --- | --- | --- |
| `continuity_task` | one active attempt per task, siblings settled, one delivery per contract, predecessors terminal, recorded results stored, unlinked executors, and the refinement of `ExecutionRights` | three deliveries of one task, three contracts, one attempt each: enough for a chain of continuations and for two successors of one delivery |
| `continuity_delivery` | one record through retries, both handover roles, cancel, late and repeated reports; closures, results and cancels are final; every stop that is told is recorded | one delivery, three principals, two attempts, two handovers |
| `consumer` | all safety properties of the Consumer | an Agent and a command on one path, two contents, so that a lock can be contended and a result can be made again differently |
| `consumer_live` | `CommandsSettle` | one command |
| `consumer_unannounced`, `consumer_late_helper`, `consumer_outcome` | three places where the code does not do what its comments say (section 6) | one delivery |
| `audit` | the ledger's safety | two writers, three records, one replacement of the file |
| `audit_durable` | durability of an acknowledged record (section 6) | as `audit` |
| `host` | what serves after a sealed run, the budget, the acceptance predicate, the quiet switch to a whole release, and that a freeze ends the service | two releases, one workspace with a canary, one disturbance of eight kinds (that the client ends by itself is one, a clock that is set back another), a run that may fail at five places, the write of its latch among them, one plain or sealed run, strict or with a declared gap, two starts of the client, one restart per two ticks |
| `index` | `BoundToItsPolicy`, `ResolvedIsGranted`, `DirectoryIsWhole`, `HealthyIsServed` | a scope inside another, a repository in each, a directory with the inner scope beneath it, three policies (the inner scope closed to discovery, not there, the file gone), two requests, one disturbance, an age of one tick in two |
| `reads` | `ContentIsAllowed`, `DigestIsOneContent`, `NothingStableIsMissed` | a denied directory with an allowed pocket inside, a link into it, a hard link, two changes of the tree or the files, three policies, two chunks per file |

Deadlock is not checked where a delivery may be finished for good, a bound on
records or disturbances is reached, or a process has nothing left to do.

**Bounds.** Attempts, handovers and records are bounded by the code's own limits
(`MAX_ATTEMPTS`, `MAX_HANDOVERS`) at small values, or by `MaxRecords`. Two
attempts are the least that can violate the stop gate, three deliveries the
least in which two successors of one delivery meet, and two writers with three
records the least in which a chain can fork behind a genesis. In `host` a single
disturbance together with a death of the run or the cycle at any step is what
every property needs to be broken by a mutant; two starts are the old client and
the new one. With two disturbances (2.4 million states) the safety properties hold
too, but the run with its liveness property is then no longer a matter of minutes.
With one run, a run that comes after another is left to the proofs. In `index` two
requests are the least in which one process reads what another has written; edits of
the policy are no disturbance and are not bounded. In `reads` one change can move what was looked at and a
second one hide the traces. The proofs lift the bounds for every safety property
(section 4).

**Symmetry** is used on writers, contents and deliveries where every constant
that tells them apart is given a symmetric value, and never for liveness.

**Type invariants.** Every composed module states one (`TypeOK`); those of
`TaskContinuity` and `AuditLog` are checked and proved, that of `Consumer` is
proved, and the others, which say little that the properties do not, are no part
of a run.

**Fairness.** `continuity_delivery`: an executor stops at some time and then goes
on reporting until the report is accepted; the control itself has no scheduler.
`consumer_live`: the poll loop (`Consumer.run`) goes on, a command's run has a
deadline (`CommandSpec.max_seconds`) so its adapter returns, its process ends,
and, since crashes and failing calls may come between, reading the outcome and
reporting are strongly fair: crashes do not come at exactly the wrong place for
ever. `CommandsSettle` stops where a delivery leaves the inbox: the Consumer only
handles what its inbox shows, so an attempt left over by a handover is reported
by nobody. That an executor "goes on reporting" is thus an assumption of
`EveryStopIsRecorded` that the Consumer does not meet after a handover.
`host`: the wrapper's loop goes on once it has started a client, and launchd
finishes an unload that it began; nobody has to start, interrupt, repeat or
restart anything. That is all `FrozenStopsService` needs: the wrapper itself looks
for the latch, so the service ends without the Supervisor.

## 4. Proofs

The constants are any sets, the bounds any naturals; the assumptions are the
named ones of the modules, and TLC evaluates them in the runs.

**Continuity.** `ExecutionRightsProofs!RightsStayLinked` proves the abstract
promise. `TaskContinuityProofs` proves `Inv` inductive, where `Inv` is the
conjunction of

1. `TypeOK`;
2. `StateMatchesRecord`: state, attempts, cancel intent and result agree;
3. `OnlyLatestUnconfirmed`: every attempt but the latest is confirmed to have
   stopped. Needed because `stop_blockers` looks at the latest attempt only;
4. `RecordedResultIsStored`;
5. `WorkingIsUnconfirmed`: a running executor is never shown as stopped. This
   is where honest executors enter;
6. `OneDeliveryPerContract`;
7. `PredecessorsTerminal`: what a delivery continues can no longer start, which
   makes a link safe for ever.

None is inductive alone: 5 needs 3 (a start must not make an unconfirmed attempt
an earlier one), 3 needs 2, and 7 needs that a terminal state is final.
The properties of several deliveries and the refinement follow step by step from
`Inv`: `OneActiveAttemptPerTask`, `ActiveWhileSiblingsSettled`,
`UnlinkedExecutorsNeverOverlap` and `ImplementsRights`. The initial state maps to
the abstract one, and each step maps to a step or a stutter. `CancelBlocksClaims`
and `ClosureIsKept` are proved from `Inv` and the fact that no record has an
attempt beyond its latest fence.

**Consumer.** `ConsumerProofs` proves `Inv` inductive for any deliveries, paths,
contents and threads. It is `TypeOK` and four parts:

1. `PlaceInv`: what journal, files and UAM's record show at each place of a
   thread. Until the adapter is back nothing has been reported or journalled as
   ended, and an attempt that UAM knows has its intent or its start on disk; this
   is what lets a later life find it;
2. `EffectInv`: a worker that worked had been announced or had its job file
   written, so "no handle and no job file" means that nothing worked; and the
   outcome a thread has read is the one that is there;
3. `StopInv`: a list of processes that was complete when the end was journalled
   is complete for ever, and an end that says "stopped" is followed by no process;
4. `LockInv`: whoever holds a target's lock, or inherited it, is alone with it.

`EveryAttemptIsJournalled`, `BeforeEffectIsTrue`, `ReplayIsIdentical`,
`TargetsNotShared` and `NeverRedone` follow. Part 3 holds for a command always and
for an Agent only where no helper starts late: `CommandStopsAreReal` has no
assumption, and `StopReportsHold` and `ConfirmedStopHolds` have `~LateHelpers`.
So late helpers are all that stands behind `consumer_late_helper`.

**Ledger.** `AuditLogProofs` proves `Inv` inductive for any writers, files and
number of records. It says that a writer behind the lock of its open file holds
that lock, that what it read of the tail is still the tail when it writes, that
the file is the one it knows and not shorter, and that every chain is numbered
with hashes that were made. The lock carries the argument: `OthersKept` shows that
what one writer does in its file cannot disturb another, because both cannot be
inside. `TornIsKept` says both that nobody writes after a torn record and that no
writer takes it away; only a loss of power does, since it was never synced. `ChainsAreValid`, `WriterKeepsItsFile` and `TornIsKept` follow. For
`AckedIsSynced`, `SyncInv` adds that an append returns only when all of its file
is synced, and that the synced part then loses nothing but what an outsider
takes, or all of it with a name that was never synced. What is lost so is no
longer counted as acknowledged here; that it can be lost is what `audit_durable`
shows.

**Host.** `HostProofs!Inv` says who may be where: a run past its guards and a cycle
past its start hold the one lock; a job that is not loaded has no wrapper, and
without a wrapper that has started a client nothing serves; a run switches only
while the job is not loaded, and only after the process it found serving is gone.
`SwitchIsQuiet` follows. For `ReplacedStaysOut` the
invariant adds that, once a sealed run has stopped the service, whatever serves or
is about to be started is the sealed release, and that `current` names it, or the
job is not loaded, or, after the run, a latch holds; no wrapper, cycle or restart
of the host can leave these three, and a run that comes later starts over. The
theorem is conditional, as the code is: a run that ends by a signal that no handler
takes, or whose latch could not be written, promises nothing, and the replaced
release may then serve again (section 6).

* `SwitchedIsWhole`: what a check of a run found stays true until the next
  disturbance, because nothing else changes a release once it is built. A
  candidate keeps its shape while it is built, its two manifests agree once it is
  verified, and a seal is made only of a release whose build is its commit's.
* `AcceptedIsJustified` rests on `NoViolationIsExact`: an empty list of violations
  means that the gaps of the report are, as maps, the declared ones, that exactly
  the declared canaries fail for exactly these reasons, and that no check of the
  report, a latch among them, is without a PASS. `AcceptInv` carries that through
  the steps of a run.
* `RestartsWithinBudget` counts: no window holds more requested restarts than
  entries of the budget, where a restart that is allowed and not yet requested has
  its entry already, and no window holds more entries than the policy allows,
  because an entry is made only while no other is later than the clock.

**Index and resolution.** `InventoryProofs!Inv`: every inventory that is kept or
under way lists known repositories, so a name leads to a path; the policy in force
is among those that the request has met; and `Admitting` says what each step of an
admission has established under one of these. So for what a client gets, one policy
granted the admission and one the capability (`ResolvedIsGranted`): there need not
be one policy that granted both, as the file may be edited in between. For a
directory the lemma `OneAuthority` of `ScopesProofs` shows that without a scope
beneath it the scopes that cover a path inside are those that cover the directory,
in both views, which gives `DirectoryIsWhole` for the policy that `AdmitDirectory`
asked.

`BoundToItsPolicy` is about edits: it judges what is kept by the set of policies
that were in force while it was made (`met`), whether that is one or several. It
needs `KeptInv`: each directory a scan has reached was entered under one of the
policies it has met (`EnteredDirectory`), so was each one on the way, and so was all
that it found; and an edit only adds to the sets, which allows no less (`MetGrow`).
Where the set has one member the property says that a row lists only what its own
policy allows, at every directory on the way (`MetNoEdit`). Where it has several a row may list
what its policy denies (section 6), but never what all denied. Repositories and the
scopes of a policy are assumed finite, which files are. `HealthyIsServed` compares
two rules that are written apart from each other, the health report's and the
listing's, in any state.

**Reads.** `DigestIsOneContent`: content and time of writing only grow; what is
known of a file when it is opened is not above what is hashed, and that is not
above what the file has now. A digest is complete only if the file has what was
known of it at first, so all three are one.

`ContentIsAllowed`: `AllowedInv` says of every directory a call holds, or still has
to visit, that it lies where the names say by which it was reached, in the spelling
of the client or of the tree; of a file, that it lies under the name by which it was
opened, or has several names and is taken only where nothing is denied; and of the
call's view, that it is of a policy in force during the call. So what the view
allows for names it allows for places. Theorem `TakenWasAllowed` has two
hypotheses, defined in `Reads`. `Settled`: a directory is not moved to another
place, though it may go and come back and files and links may be put anywhere; a
directory that is moved while it is open lies elsewhere than where it was allowed,
and the code does not claim to notice. `SpelledAlike`: on a file system that folds
case, the policy spells its scopes as the tree does; if it does not, the view that
folds is stricter, but what is covered as spelled is another place. TLC evaluates
them for the instance of `reads` (`HomeAssumption`).

`NothingStableIsMissed`: `StableInv` says where a call is on its way to each expected
file. The walk to the base holds the file's own directories so far, with the rest of
the path before it; the base of a listing is one of them; and while no limit and no
error is noted, the file is among what was taken (`Reported`), in the batch
(`Batched`), or something that is still to be visited leads to it (`LeadsTo`): a
directory on its way, the file itself, or the rest of the way to a pocket above it.
Each action that takes a frame off the list puts one on it that leads further, because
the directories on the way are still what the frame's names say; the lemma
`AllowedFromSomewhere` finds for an allowed file the place on its way from where on
nothing is denied, a pocket if it is not the root; `VisitsFind` and `ListSearchFinds`
that a listing has the next name. The filter at the end lets the hit pass because the
policy has allowed it all along. Theorem `NothingMissed` needs `Settled` and
`ScopesSpelled`: a walk looks for allowed scopes inside of a denied directory as they
are spelled (section 6). It speaks of files at most three levels deep (section 5). It
rests on two assumptions that any host meets, that ".." is no name and that the depth
of a listing is a natural number (`PathsAssumption`, `DepthAssumption`), and on
`OtherSpellings`.

**Only model-checked.** `EveryStopIsRecorded`, `CommandsSettle` and
`FrozenStopsService`: liveness under fairness is out of the prover's reach.

## 5. Left out of the models

**Delivery of work**

* Version-1 deliveries in the same store, `MAX_CONTINUES`, and workspace
  observation: refusals that change nothing, or data.
* The audit append after a save may fail: the caller sees an error of an
  operation that took place, as after a crash, and its retry is a replay.
* `claims` is never released, as in the code; a contract cut off at its claim
  can only be delivered by the same delivery id.
* Rules of the Consumer, preflight, baselines, verification receipts: they decide
  whether it starts or what a result says.
* Process identifiers given away again: they make the Consumer wait.
* A helper that leaves its parent (a double fork). The adapter lists processes by
  parent (`harness_adapter.py:294`), and while the server lives the model's list has
  every helper. `StopReportsAreReal` and `ConfirmedStopHolds` assume it.

**Host**

* One release run at a time, and `installer.py`, which lays out an empty host.
* Incident bundles, receipts and the evidence of steps; of the restart policies,
  one; the index workers of a cycle, which `Discovery` starts at any time.
* A system that loses power keeps what was written: `atomic_json` syncs, and the
  one place that does not is named in section 6.
* What a failing call leaves where a death at the same place leaves the same: the
  Supervisor's write of its latch. `AdmitInstall` reads the install in one step
  (`service.py:61-66` loads, validates and hashes), and `Examine` reads the index and
  the tunnel in the other order (`doctor.py:230-234`).

**Index, discovery, resolution**

* The two generations kept behind an active one, the alias columns and the project
  listings, which follow from the rows; `schedule_background_refresh`, which
  nothing under `src/` reaches.
* Worktrees, protected names inside a scan, skip rules and the memory of denied
  directories; languages and other metadata. Repositories do not come and go.
* A reload of the policy by two threads at once, and the moment between a lookup
  of candidates and the reload, in which the code decides by the policy it had
  (`resolver.py:425`); the admission asks again in any case.
* A lock on the database in the health report, which has a status of its own, and the
  project identity of an inventory that was enriched in memory (`discovery.py:662`
  keeps the old one).

**Reads**

* Names that are hidden or ignored are not in the modelled tree, and limits on
  sizes and times are a choice. Nothing that is written later holds the text that
  is searched for. `.git` as part of a root's identity is left out.
* A tree is looked at three levels deep: `Placed` gives the places of an object under
  the root, under a directory of the root, and under one of those. So the files that
  are expected of an answer, and with them the theorems of `ReadsProofs` that speak of
  places, are about objects no deeper than that, for any sets of names and objects.
  The limit of a scope search's walk, `MAX_DEPTH` (`scope_search.py:482`), is
  beyond this and not modelled; an answer of the code names the limit, and what lies
  below it is among the things it says it does not cover.
* The search compares the listed object with the opened one
  (`scope_search.py:498`, `:554`) and counts a difference as changed; the model goes
  on into what it opened, so it takes what the code would not.
* Git answers and exploration, which compose the modelled operations with bounded
  children of `git`.

**Not modelled at all.** Ignore rules match strings, and the string is what the
models abstract. Git observation, transports, command lines and profiles translate
calls and keep no state. The installer runs once. Contents of contracts and
results are checked field by field, without a state; `TaskContinuity` takes the
stores as put once.

## 6. Where the code and its comments part

Shown by a run:

1. `consumer_unannounced`: the Consumer dies after an Agent's server was started
   and before it was announced. No handle is in the journal and an Agent has no
   `job.json`, so the next life reports `NO_EXECUTOR_WAS_STARTED` while the server
   runs. It has no turn to work on (`BeforeEffectIsTrue` holds) but is not gone.
2. `consumer_late_helper`: what the server starts between the listing of its
   processes and its close is not read back, and the stop is confirmed.
3. `consumer_outcome`: `_finalize` reads the outcome before it looks at the
   process group, so a command that finishes in between is reported as stopped
   without an outcome.
4. `audit_durable`: if the writer of the first record dies between its two
   fsyncs, the next one acknowledges its record without syncing the directory.

Met while modelling; the models follow the code, and no run is spent on them:

* *Release.* `release.py:446` says that an interruption must not leave a sealed
  install serving, and `KeyboardInterrupt` is taken only in the guarded part:
  during the wait of `_stop_tunnel`, and during `_isolate` itself, it ends the run
  (`Interrupt` outside `Guarded`), as SIGTERM does anywhere. `ReplacedStaysOut`
  therefore speaks of runs that returned or caught the interruption.
  `_isolate` calls the isolation durable (`release.py:487`), and where the latch
  cannot be made (`release.py:523`, `:535`) the run reports that and ends: nothing is
  latched, and the next cycle of the Supervisor may start the release that was
  replaced. The property leaves these runs out (`UNLATCHED`).
  `_write_freeze_latch` (`release.py:519`) is called durable and does not sync the
  directory.
* *Supervisor.* `atomic_json` of the latch replaces one that is there, with its
  class, while `_write_freeze_latch` keeps it. Index workers are spawned before
  their state file is written (`supervisor.py:346`); `_record_cycle_timeout` looks
  and publishes without the lock (`supervisor.py:418`).
* *Inventory.* `adapters/mcp_sdk.py:179` and `CHANGELOG.md:186` promise an inventory
  "no older than max_age_ms"; asking Git about one makes it count as observed now
  (`discovery.py:501`). `discovery.py:599` says that a read never fails over its
  cache; a file found damaged raises. `write_snapshot` keeps an enriched row and
  reports success. `reality_index.py:529` promises that a snapshot without Git's
  answers does not replace one with them; the look (`:541`) is outside of the
  transaction that writes (`:553`), so one that is committed in between is replaced,
  and a look that fails counts as one that found none. A scan asks the policy at each
  directory and binds the row to the policy at its end (`discovery.py:570`), so one
  that met an edit may be kept with what its policy denies. An admission asks the
  file three times (`resolver.py:190`, `:209`, `:289`); with edits in between it may
  let in a directory that no single policy admits. A rebuild drops the schema of a newer release, and a write
  does not look at the schema again (`reality_index.py:433`). `lookup_by_alias` has
  no limit of age.
* *Reads.* `descends` (`path_authority.py:193`) promises that an allowed scope
  inside of a denied directory stays reachable, and looks for it as it is spelled,
  while files are judged in both views: on a file system that folds case, `tree` and
  `search_text` pass by a scope that the policy spells in another way than the tree.
  A search may say `safe_to_conclude_absent` although it skipped a directory that
  could not be read (`workspace.py:861`; `skipped` in `Reader`). A policy that is
  edited and edited back during a call goes unnoticed. A registered root that could
  not be examined when the registry was loaded stays unavailable until the file is
  written again (`workspace.py:413`).

## 7. What could come next

1. `TaskControl`: version 1, whose authority is asked before the lock.
2. The composition of `Consumer` with `TaskContinuity`: the Consumer's attempts
   implement the honest executors that the control assumes, with the exceptions
   of section 6 as guards.
3. `IgnoreRules` as an operator over bounded patterns with a reference definition.
