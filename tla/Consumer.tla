------------------------------ MODULE Consumer ------------------------------
(***************************************************************************)
(* The resident Consumer (consumer.py) and the two adapters that run an    *)
(* executor for it (harness_adapter.py).  One Consumer lives at a time in  *)
(* a work directory (SingleInstance); it handles each delivery of its      *)
(* inbox in a thread of its own, and it may die between any two writes.    *)
(* What survives is UAM's record, the journal, the files of a job, and the *)
(* executors themselves: they are started in a session of their own.       *)
(*                                                                         *)
(* An executor is a local command, which is its process group ("root"), or *)
(* an Agent, whose server ("root") may start a process in a group of its   *)
(* own ("helper").  UAM (ContinuityControl, module TaskContinuity) is the  *)
(* attempt of the delivery and whether the inbox shows it.  Here only the  *)
(* Consumer makes attempts.                                                *)
(*                                                                         *)
(* A file or journal write that fails raises; what that leaves is what a   *)
(* crash at the same place leaves (Abandon).  Advisory journal records and *)
(* the backoff decide when the Consumer looks again, never what it does.   *)
(***************************************************************************)
EXTENDS Naturals, FiniteSets

CONSTANTS
  Delivery,
  Agent,           \* deliveries that a rule gives to an Agent adapter; the others run a command
  Path,            \* target paths: a workspace and a path in it
  targets,         \* allowed_change_paths of each delivery
  Content,         \* contents of a result, as far as its digest tells them apart
  MaxConcurrency,  \* max_concurrency
  LateHelpers,     \* a server may start a process after its adapter listed what it runs
  None

ASSUME AgentAssumption == Agent \subseteq Delivery
ASSUME TargetsAssumption == targets \in [Delivery -> SUBSET Path]
ASSUME MaxConcurrencyAssumption == MaxConcurrency \in Nat \ {0}
ASSUME LateHelpersAssumption == LateHelpers \in BOOLEAN
ASSUME NoneAssumption == None \notin Content \cup {"DONE", "FAILED", "BEFORE_EFFECT"}

VARIABLES
  inbox,    \* UAM: deliveries that are open and addressed to this principal
  attempt,  \* UAM: the attempt of a delivery, and how it was reported
  lapsed,   \* UAM: the deliveries whose attempt it ended itself (lease, handover)
  stored,   \* UAM: the content that the result id of the attempt holds
  intent,   \* journal: ATTEMPT_INTENT without INTENT_CLEARED or ATTEMPT_STARTED after it
  journal,  \* journal: what else it says of a delivery
  stop,     \* what EXECUTOR_ENDED says of the stop (known before it is journalled)
  jobFile,  \* job.json exists
  outcome,  \* outcome.json
  prepared, \* result.json
  alive,    \* processes of the executor that exist
  worked,   \* the executor may have had an effect
  pc,       \* where the thread of a delivery is
  held,     \* the thread holds the locks on its targets
  read      \* outcome.json as _finalize read it

control == <<inbox, attempt, lapsed, stored>>
logged == <<intent, journal, stop>>
files == <<jobFile, outcome, prepared>>
world == <<alive, worked>>
threads == <<pc, held, read>>
vars == <<control, logged, files, world, threads>>

Process == {"root", "helper"}
Outcome == {"DONE", "FAILED", "BEFORE_EFFECT"}
Reported == {"FAILED_BEFORE_EFFECT", "FAILED", "STOPPED", "RESULT"}
\* CLOSED: UAM ended the attempt itself, and nobody has told it how the attempt went.
AttemptState == {"NONE", "ACTIVE", "CLOSED"} \cup Reported
Phase == {"ATTEMPT_STARTED", "EXECUTOR_STARTED", "EXECUTOR_ENDED", "SETTLED"}
\* complete: the processes in seen are known to be all that the executor had.
StopReport == [stopped : BOOLEAN, complete : BOOLEAN, seen : SUBSET Process]
Place == {"IDLE", "INTENDED", "CLAIMED", "LIVE", "JOB", "SPAWNED", "RUNNING", "CLOSING",
          "RETURNED", "FINALIZE", "READ", "SUBMIT", "STORED", "REPORTED"}

TypeOK ==
  /\ inbox \subseteq Delivery
  /\ attempt \in [Delivery -> AttemptState]
  /\ lapsed \in SUBSET Delivery
  /\ stored \in [Delivery -> Content \cup {None}]
  /\ intent \in [Delivery -> BOOLEAN]
  /\ journal \in [Delivery -> SUBSET Phase]
  /\ stop \in [Delivery -> StopReport]
  /\ jobFile \in [Delivery -> BOOLEAN]
  /\ outcome \in [Delivery -> Outcome \cup {None}]
  /\ prepared \in [Delivery -> Content \cup {None}]
  /\ alive \in [Delivery -> SUBSET Process]
  /\ worked \in [Delivery -> BOOLEAN]
  /\ pc \in [Delivery -> Place]
  /\ held \in [Delivery -> BOOLEAN]
  /\ read \in [Delivery -> Outcome \cup {None}]

Init ==
  /\ inbox = Delivery
  /\ attempt = [d \in Delivery |-> "NONE"]
  /\ lapsed = {}
  /\ stored = [d \in Delivery |-> None]
  /\ intent = [d \in Delivery |-> FALSE]
  /\ journal = [d \in Delivery |-> {}]
  /\ stop = [d \in Delivery |-> [stopped |-> FALSE, complete |-> FALSE, seen |-> {}]]
  /\ jobFile = [d \in Delivery |-> FALSE]
  /\ outcome = [d \in Delivery |-> None]
  /\ prepared = [d \in Delivery |-> None]
  /\ alive = [d \in Delivery |-> {}]
  /\ worked = [d \in Delivery |-> FALSE]
  /\ pc = [d \in Delivery |-> "IDLE"]
  /\ held = [d \in Delivery |-> FALSE]
  /\ read = [d \in Delivery |-> None]

-----------------------------------------------------------------------------
(* What the Consumer reads from its journal, the processes and the locks.  *)

Live(d) == "ATTEMPT_STARTED" \in journal[d] /\ "SETTLED" \notin journal[d]

Announced(d) == "EXECUTOR_STARTED" \in journal[d]

Ended(d) == "EXECUTOR_ENDED" \in journal[d]

\* Mutant of TargetLocked: the release unlocks, also the copy that the executor inherited.
TargetLockedByThread(p) == \E d \in Delivery : p \in targets[d] /\ held[d]

\* A lock is held by the thread, and by the executor that inherited its descriptor.
TargetLocked(p) == \E d \in Delivery : p \in targets[d] /\ (held[d] \/ "root" \in alive[d])

\* group_alive of the journalled process group
GroupAlive(d) == Announced(d) /\ "root" \in alive[d]

\* Mutant of NothingDeniesStop: the end record is wanted of a command too.
NothingDeniesStopOnceEnded(d) == Ended(d) /\ stop[d].stopped

\* _stop_state answers None: the adapter confirmed the stop, or died with its Consumer and
\* had announced no Agent.
NothingDeniesStop(d) ==
  IF Ended(d) THEN stop[d].stopped ELSE d \notin Agent \/ ~Announced(d)

\* Mutant of ProvenGone: a list of processes that may lack some is read back all the same.
ProvenGoneAsListed(d) ==
  /\ Ended(d)
  /\ stop[d].seen \cap alive[d] = {}
  /\ ~GroupAlive(d)

\* _stop_state answers GONE: everything the executor is known to have had is gone, and what is
\* known is all of it.  A process table that cannot be read now does not show that (Waits).
ProvenGone(d) ==
  /\ Ended(d)
  /\ stop[d].complete
  /\ stop[d].seen \cap alive[d] = {}
  /\ ~GroupAlive(d)
  /\ stop[d].seen # {} \/ (d \notin Agent /\ Announced(d))

\* _finalize may tell UAM how the attempt went.
MaySettle(d) == ~GroupAlive(d) /\ (NothingDeniesStop(d) \/ ProvenGone(d))

Capacity == Cardinality({d \in Delivery : pc[d] # "IDLE"}) < MaxConcurrency

\* The thread of d goes to a place; Leave ends it, which closes its copies of the locks.
Go(d, from, to) == pc[d] = from /\ pc' = [pc EXCEPT ![d] = to] /\ UNCHANGED <<held, read>>

Leave(d) ==
  /\ pc' = [pc EXCEPT ![d] = "IDLE"]
  /\ held' = [held EXCEPT ![d] = FALSE]
  /\ read' = [read EXCEPT ![d] = None]

Log(d, phase) == journal' = [journal EXCEPT ![d] = @ \cup {phase}]

-----------------------------------------------------------------------------
(* A start: intent, UAM's attempt, its journal record.                     *)

\* Mutant of Admissible: an attempt that ended is made again.
AdmissibleAgain(d) ==
  /\ d \in inbox /\ ~Live(d) /\ ~intent[d]
  /\ attempt[d] # "ACTIVE"
  /\ \A p \in targets[d] : ~TargetLocked(p)

\* _handle and _admit: no attempt of anyone (PRIOR_ATTEMPT_NO_AUTOMATIC_REDO), every target free.
\* What the rule, the contract and the preflight refuse changes nothing.
Admissible(d) ==
  /\ d \in inbox /\ ~Live(d) /\ ~intent[d]
  /\ attempt[d] = "NONE"
  /\ \A p \in targets[d] : ~TargetLocked(p)

\* Mutant of JournalIntent: the intent is written down once the attempt exists.
JournalIntentLater(d) == UNCHANGED intent

JournalIntent(d) == intent' = [intent EXCEPT ![d] = TRUE]

\* _start up to ATTEMPT_INTENT, under the locks.
Intend(d) ==
  /\ pc[d] = "IDLE" /\ Capacity
  /\ Admissible(d)
  /\ JournalIntent(d)
  /\ held' = [held EXCEPT ![d] = TRUE]
  /\ pc' = [pc EXCEPT ![d] = "INTENDED"]
  /\ UNCHANGED <<control, journal, stop, files, world, read>>

\* control.start_attempt: UAM's gates are its own (module TaskContinuity).
StartAttempt(d) ==
  /\ Go(d, "INTENDED", "CLAIMED")
  /\ d \in inbox
  /\ attempt[d] \notin {"ACTIVE", "CLOSED", "RESULT"}
  /\ attempt' = [attempt EXCEPT ![d] = "ACTIVE"]
  /\ lapsed' = lapsed \ {d}
  /\ UNCHANGED <<inbox, stored, logged, files, world>>

\* UAM refuses the start: INTENT_CLEARED.
StartRefused(d) ==
  /\ pc[d] = "INTENDED"
  /\ intent' = [intent EXCEPT ![d] = FALSE]
  /\ Leave(d)
  /\ UNCHANGED <<control, journal, stop, files, world>>

\* _run_attempt: ATTEMPT_STARTED.
JournalStarted(d) ==
  /\ Go(d, "CLAIMED", "LIVE")
  /\ Log(d, "ATTEMPT_STARTED")
  /\ intent' = [intent EXCEPT ![d] = FALSE]
  /\ UNCHANGED <<control, stop, files, world>>

\* _adopt_or_clear: an intent whose start the journal never saw.  An attempt that UAM has closed
\* in the meantime is left open.
ClearIntent(d) ==
  /\ pc[d] = "IDLE" /\ Capacity
  /\ d \in inbox /\ intent[d] /\ attempt[d] = "NONE"
  /\ intent' = [intent EXCEPT ![d] = FALSE]
  /\ UNCHANGED <<control, journal, stop, files, world, threads>>

Adopt(d) ==
  /\ Go(d, "IDLE", "FINALIZE") /\ Capacity
  /\ d \in inbox /\ intent[d] /\ attempt[d] = "ACTIVE"
  /\ Log(d, "ATTEMPT_STARTED")
  /\ intent' = [intent EXCEPT ![d] = FALSE]
  /\ UNCHANGED <<control, stop, files, world>>

-----------------------------------------------------------------------------
(* The adapter's run, and EXECUTOR_ENDED with what it answered.            *)

JournalEnded(d, report) ==
  /\ Log(d, "EXECUTOR_ENDED")
  /\ stop' = [stop EXCEPT ![d] = report]
  /\ UNCHANGED intent

\* A command's adapter writes job.json first.
WriteJob(d) ==
  /\ Go(d, "LIVE", "JOB") /\ d \notin Agent
  /\ jobFile' = [jobFile EXCEPT ![d] = TRUE]
  /\ UNCHANGED <<control, logged, outcome, prepared, world>>

\* Popen.  A command runs; a server has no turn to work on yet.
Spawn(d) ==
  /\ Go(d, IF d \in Agent THEN "LIVE" ELSE "JOB", "SPAWNED")
  /\ alive' = [alive EXCEPT ![d] = {"root"}]
  /\ worked' = [worked EXCEPT ![d] = d \notin Agent]
  /\ UNCHANGED <<control, logged, files>>

\* The adapter would not start the job, or could not: nothing ran.
JobRefused(d) ==
  /\ \/ Go(d, "LIVE", "RETURNED")
     \/ Go(d, "JOB", "RETURNED")
  /\ JournalEnded(d, [stopped |-> TRUE, complete |-> TRUE, seen |-> {}])
  /\ UNCHANGED <<control, files, world>>

\* The adapter raised; what it started is unknown.
AdapterRaises(d) ==
  /\ \E from \in {"LIVE", "JOB", "SPAWNED", "RUNNING"} : Go(d, from, "RETURNED")
  /\ JournalEnded(d, [stopped |-> FALSE, complete |-> TRUE, seen |-> {}])
  /\ UNCHANGED <<control, files, world>>

\* on_started
Announce(d) ==
  /\ Go(d, "SPAWNED", "RUNNING")
  /\ Log(d, "EXECUTOR_STARTED")
  /\ UNCHANGED <<control, intent, stop, files, world>>

\* _converse sends the turn.
SendTurn(d) ==
  /\ pc[d] = "RUNNING" /\ d \in Agent /\ "root" \in alive[d]
  /\ worked' = [worked EXCEPT ![d] = TRUE]
  /\ UNCHANGED <<control, logged, files, alive, threads>>

\* LocalCommandAdapter: the command ended or ran out of time, and its group was signalled.
CommandReturns(d) ==
  /\ Go(d, "RUNNING", "RETURNED") /\ d \notin Agent
  /\ \/ alive' = [alive EXCEPT ![d] = {}]
     \/ UNCHANGED alive
  /\ JournalEnded(d, [stopped |-> alive'[d] = {}, complete |-> TRUE, seen |-> {}])
  /\ UNCHANGED <<control, files, worked>>

\* observe_tree, has_exited: a list of what the server runs, made while it ran; otherwise (the
\* table could not be read, or the server had exited) it does not count.
Listing(d) ==
  {[stopped |-> FALSE, complete |-> FALSE, seen |-> {}]} \cup
  {[stopped |-> FALSE, complete |-> TRUE, seen |-> alive[d]] : x \in alive[d] \cap {"root"}}

AgentListed(d) ==
  /\ Go(d, "RUNNING", "CLOSING") /\ d \in Agent
  /\ \E report \in Listing(d) : stop' = [stop EXCEPT ![d] = report]
  /\ UNCHANGED <<control, intent, journal, files, world>>

\* close_and_report: the server is closed, and what was listed is read back.
AgentReturns(d) ==
  /\ Go(d, "CLOSING", "RETURNED")
  /\ \/ alive' = [alive EXCEPT ![d] = @ \ {"root"}]
     \/ UNCHANGED alive
  /\ \E shown \in BOOLEAN :
       /\ shown => stop[d].complete /\ alive'[d] \cap (stop[d].seen \cup {"root"}) = {}
       /\ JournalEnded(d, [stop[d] EXCEPT !.stopped = shown])
  /\ UNCHANGED <<control, files, worked>>

\* What the adapter's answer makes of outcome.json, if the adapter confirmed the stop: DONE of a
\* command needs its own word for it, and nothing that ran is "before effect".
Answers(d) ==
  IF ~worked[d] THEN {"BEFORE_EFFECT", "FAILED"}
  ELSE IF d \in Agent \/ outcome[d] = "DONE" THEN {"DONE", "FAILED"} ELSE {"FAILED"}

\* _persist_outcome
Persist(d) ==
  /\ Go(d, "RETURNED", "FINALIZE")
  /\ IF stop[d].stopped
       THEN \E answer \in Answers(d) : outcome' = [outcome EXCEPT ![d] = answer]
       ELSE UNCHANGED outcome
  /\ UNCHANGED <<control, logged, jobFile, prepared, world>>

-----------------------------------------------------------------------------
(* Settlement, from files and processes only: the same after a crash.      *)

\* A poll finds an attempt of this journal.  No lock is taken for it.
Resume(d) ==
  /\ Go(d, "IDLE", "FINALIZE") /\ Capacity
  /\ d \in inbox /\ Live(d)
  /\ UNCHANGED <<control, logged, files, world>>

\* _finalize reads the outcome before it looks at the processes.
ReadOutcome(d) ==
  /\ pc[d] = "FINALIZE"
  /\ pc' = [pc EXCEPT ![d] = "READ"]
  /\ read' = [read EXCEPT ![d] = outcome[d]]
  /\ UNCHANGED <<control, logged, files, world, held>>

\* WAITING_OLD_EXECUTOR, ATTEMPT_LEFT_OPEN: also when the process table cannot be read now.
Waits(d) ==
  /\ pc[d] = "READ"
  /\ GroupAlive(d) \/ ~NothingDeniesStop(d)
  /\ Leave(d)
  /\ UNCHANGED <<control, logged, files, world>>

\* Mutant of ExecutorUnknown: the job file is not looked at.
ExecutorUnknownNever(d) == FALSE

\* A job was written, and neither its executor nor its outcome is known.
ExecutorUnknown(d) == read[d] = None /\ ~Announced(d) /\ jobFile[d]

LeaveOpen(d) ==
  /\ pc[d] = "READ" /\ MaySettle(d)
  /\ ExecutorUnknown(d)
  /\ Leave(d)
  /\ UNCHANGED <<control, logged, files, world>>

\* How _finalize reports an attempt that has no DONE outcome.
ReportedOutcome(d) ==
  CASE read[d] = None -> IF Announced(d) THEN "STOPPED" ELSE "FAILED_BEFORE_EFFECT"
    [] read[d] = "BEFORE_EFFECT" -> "FAILED_BEFORE_EFFECT"
    [] OTHER -> "FAILED"

\* control.end_attempt; after a closure by UAM a report is taken late, and again if it is the same.
End(d, how) ==
  /\ attempt[d] \in {"ACTIVE", "CLOSED"} \/ (d \in lapsed /\ attempt[d] = how)
  /\ attempt' = [attempt EXCEPT ![d] = how]
  /\ UNCHANGED <<inbox, lapsed, stored>>

\* control.submit_result takes a result of the attempt: also late, and after a late report.
TakesResult(d) == attempt[d] \in {"ACTIVE", "CLOSED"} \/ (d \in lapsed /\ attempt[d] # "RESULT")

\* _end
ReportEnd(d) ==
  /\ Go(d, "READ", "REPORTED") /\ MaySettle(d)
  /\ read[d] # "DONE" /\ ~ExecutorUnknown(d)
  /\ End(d, ReportedOutcome(d))
  /\ UNCHANGED <<logged, files, world>>

\* _submit: no allowed path changed, or a read-only task changed one.
ReportUnusable(d) ==
  /\ Go(d, "READ", "REPORTED") /\ MaySettle(d)
  /\ read[d] = "DONE" /\ prepared[d] = None
  /\ End(d, "FAILED")
  /\ UNCHANGED <<logged, files, world>>

\* Mutant of Payload: the result is made again from what is there now.
PayloadOfNow(d) == Content

\* The prepared result, if there is one: a replay sends exactly its bytes.
Payload(d) == IF prepared[d] = None THEN Content ELSE {prepared[d]}

\* _submit up to RESULT_PREPARED
Prepare(d) ==
  /\ Go(d, "READ", "SUBMIT") /\ MaySettle(d)
  /\ read[d] = "DONE"
  /\ \E payload \in Payload(d) : prepared' = [prepared EXCEPT ![d] = payload]
  /\ UNCHANGED <<control, logged, jobFile, outcome, world>>

\* control.submit_result, first write: the result store, whose id belongs to this attempt.
StoreResult(d) ==
  /\ Go(d, "SUBMIT", "STORED")
  /\ TakesResult(d)
  /\ stored[d] \in {None, prepared[d]}
  /\ stored' = [stored EXCEPT ![d] = prepared[d]]
  /\ UNCHANGED <<inbox, attempt, lapsed, logged, files, world>>

\* Second write: the delivery, which is terminal from here and leaves the inbox.
RecordResult(d) ==
  /\ Go(d, "STORED", "REPORTED")
  /\ TakesResult(d)
  /\ attempt' = [attempt EXCEPT ![d] = "RESULT"]
  /\ inbox' = inbox \ {d}
  /\ UNCHANGED <<lapsed, stored, logged, files, world>>

\* ATTEMPT_ENDED or RESULT_SUBMITTED
JournalSettled(d) ==
  /\ pc[d] = "REPORTED"
  /\ Log(d, "SETTLED")
  /\ Leave(d)
  /\ UNCHANGED <<control, intent, stop, files, world>>

-----------------------------------------------------------------------------
(* What may happen at any time.                                            *)

\* A thread gives up: UAM refuses (the authority, an attempt that is reported already), a read-back
\* fails, or a call raises (_guarded), also the append of EXECUTOR_ENDED.
Abandon(d) ==
  /\ pc[d] # "IDLE"
  /\ Leave(d)
  /\ UNCHANGED <<control, logged, files, world>>

\* The Consumer dies, and another life begins: descriptors are closed, executors go on.
Crash ==
  /\ \E d \in Delivery : pc[d] # "IDLE"
  /\ pc' = [d \in Delivery |-> "IDLE"]
  /\ held' = [d \in Delivery |-> FALSE]
  /\ read' = [d \in Delivery |-> None]
  /\ UNCHANGED <<control, logged, files, world>>

\* The command's last word (write_outcome).
WorkerReports(d) ==
  /\ d \notin Agent /\ "root" \in alive[d] /\ outcome[d] = None
  /\ \E status \in {"DONE", "FAILED"} : outcome' = [outcome EXCEPT ![d] = status]
  /\ UNCHANGED <<control, logged, jobFile, prepared, world, threads>>

\* A server starts a process in a group of its own.
StartHelper(d) ==
  /\ d \in Agent /\ "root" \in alive[d]
  /\ (pc[d] # "CLOSING" /\ ~Ended(d)) \/ LateHelpers
  /\ alive' = [alive EXCEPT ![d] = Process]
  /\ UNCHANGED <<control, logged, files, worked, threads>>

ProcessEnds(d, p) ==
  /\ p \in alive[d]
  /\ alive' = [alive EXCEPT ![d] = @ \ {p}]
  /\ UNCHANGED <<control, logged, files, worked, threads>>

\* A handover or a cancel takes the delivery out of the inbox and closes its attempt; a handover
\* back shows it again.
LeavesInbox(d) ==
  /\ d \in inbox /\ pc[d] # "STORED"  \* both writes of a result hold the state lock
  /\ inbox' = inbox \ {d}
  /\ attempt' = [attempt EXCEPT ![d] = IF @ = "ACTIVE" THEN "CLOSED" ELSE @]
  /\ lapsed' = lapsed \cup {e \in {d} : attempt[e] = "ACTIVE"}
  /\ UNCHANGED <<stored, logged, files, world, threads>>

ReturnsToInbox(d) ==
  /\ d \notin inbox /\ attempt[d] # "RESULT"
  /\ inbox' = inbox \cup {d}
  /\ UNCHANGED <<attempt, lapsed, stored, logged, files, world, threads>>

-----------------------------------------------------------------------------

Start(d) ==
  \/ Intend(d) \/ StartAttempt(d) \/ StartRefused(d) \/ JournalStarted(d)
  \/ ClearIntent(d) \/ Adopt(d)

Run(d) ==
  \/ WriteJob(d) \/ Spawn(d) \/ JobRefused(d) \/ AdapterRaises(d) \/ Announce(d) \/ SendTurn(d)
  \/ CommandReturns(d) \/ AgentListed(d) \/ AgentReturns(d) \/ Persist(d)

Settle(d) ==
  \/ Resume(d) \/ ReadOutcome(d) \/ Waits(d) \/ LeaveOpen(d) \/ ReportEnd(d) \/ ReportUnusable(d)
  \/ Prepare(d) \/ StoreResult(d) \/ RecordResult(d) \/ JournalSettled(d)

Environment(d) ==
  \/ WorkerReports(d) \/ StartHelper(d) \/ LeavesInbox(d) \/ ReturnsToInbox(d)
  \/ \E p \in Process : ProcessEnds(d, p)

Next ==
  \/ Crash
  \/ \E d \in Delivery : Start(d) \/ Run(d) \/ Settle(d) \/ Abandon(d) \/ Environment(d)

Spec == Init /\ [][Next]_vars

\* Polls go on, an adapter's run comes to an end (it has a deadline), and so does a command.
\* Neither crashes nor failing calls keep a thread from getting on for ever.
FairSpec ==
  /\ Spec
  /\ \A d \in Delivery :
       /\ WF_vars(CommandReturns(d) \/ Persist(d))
       /\ WF_vars(Resume(d))
       /\ SF_vars(ReadOutcome(d))
       /\ SF_vars(ReportEnd(d))
       /\ WF_vars(ProcessEnds(d, "root"))

-----------------------------------------------------------------------------
(* Properties.                                                             *)

Settled(d) == attempt[d] \in Reported

\* What UAM is told is true: once an executor was announced, its attempt is reported only after
\* everything the executor had is gone, whatever crashed in between.  This is the honesty that
\* TaskContinuity assumes of executors.
StopReportsAreReal == \A d \in Delivery : Settled(d) /\ Announced(d) => alive[d] = {}

\* Executors whose targets overlap never run at the same time: a lock outlives its Consumer with
\* the executor that inherited it, and the next life cannot take it.
TargetsNotShared ==
  \A d, e \in Delivery :
    d # e /\ "root" \in alive[d] /\ "root" \in alive[e] => targets[d] \cap targets[e] = {}

\* "Failed before effect" is reported only of an executor that never had anything to work on.
BeforeEffectIsTrue == \A d \in Delivery : attempt[d] = "FAILED_BEFORE_EFFECT" => ~worked[d]

\* The journal knows every attempt that was started, wherever the Consumer died: the next life
\* finds it by its intent or by its start.
EveryAttemptIsJournalled ==
  \A d \in Delivery : attempt[d] # "NONE" => intent[d] \/ "ATTEMPT_STARTED" \in journal[d]

\* A submission that was cut off after the result store is repeated with the same content, so the
\* store never refuses the repetition (RESULT_ID_CONFLICT).
ReplayIsIdentical == \A d \in Delivery : stored[d] # None => stored[d] = prepared[d]

\* An attempt that was closed or reported is never followed by another one of this Consumer.
NeverRedone ==
  [][\A d \in Delivery : attempt[d] \notin {"NONE", "ACTIVE"} => attempt'[d] # "ACTIVE"]_vars

\* An announced command whose outcome is not DONE is reported to UAM at some time, unless the
\* delivery leaves the inbox: no crash leaves its attempt open for ever.
CommandsSettle ==
  \A d \in Delivery \ Agent :
    Announced(d) ~> (Settled(d) \/ d \notin inbox \/ outcome[d] = "DONE")

\* The header of consumer.py of an Agent whose Consumer died before the end record: until everything
\* is shown gone the attempt stays open.  Not so between the start of the server and its announcement.
AgentStaysOpen == \A d \in Agent : Settled(d) => alive[d] = {}

\* HarnessOutcome.stopped: "the adapter KNOWS no member of the executor is left".  Not so of what the
\* server started after it was listed.
ConfirmedStopIsReal == \A d \in Delivery : Ended(d) /\ stop[d].stopped => alive[d] = {}

\* An executor that outlives its Consumer is picked up by its outcome file (harness_adapter.py).
\* Not so if it writes that file and ends between the two looks of _finalize.
OutcomeIsPickedUp == \A d \in Delivery : attempt[d] = "STOPPED" => outcome[d] = None

=============================================================================
