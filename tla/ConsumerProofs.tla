---------------------------- MODULE ConsumerProofs ----------------------------
(***************************************************************************)
(* Theorems about Consumer, for any deliveries, paths, contents and number *)
(* of threads.                                                             *)
(*                                                                         *)
(* The argument: a delivery is run at most once, by the thread that made   *)
(* its intent, and while that thread is not back from the adapter nothing  *)
(* of it has been reported, or journalled as ended.  So what is on disk    *)
(* and in the journal when somebody settles the attempt, this thread or    *)
(* one of a later life, tells how far the run came: no job file and no     *)
(* announcement means that nothing worked, and a list of processes that    *)
(* was complete when the end was journalled is complete for ever, unless a *)
(* server may start one late.                                              *)
(***************************************************************************)
EXTENDS Consumer, TLAPS

\* The thread that made the intent has not come back from the adapter.
Starting == {"INTENDED", "CLAIMED", "LIVE", "JOB"}
Running == Starting \cup {"SPAWNED", "RUNNING", "CLOSING"}

\* Nothing of the delivery was written down and nothing of it was run.
Untouched(d) ==
  /\ stored[d] = None /\ outcome[d] = None /\ prepared[d] = None
  /\ ~jobFile[d] /\ alive[d] = {} /\ ~worked[d]

\* What a thread has behind it when it is in one of the places.
PlaceInv(d) ==
  /\ attempt[d] = "NONE" => pc[d] \in {"IDLE", "INTENDED"} /\ journal[d] = {} /\ Untouched(d)
  /\ pc[d] \in Starting => held[d]
  /\ pc[d] \in {"INTENDED", "CLAIMED"} => intent[d]
  /\ pc[d] = "INTENDED" => attempt[d] = "NONE"
  /\ pc[d] \in Running => attempt[d] \notin Reported /\ ~Ended(d)
  /\ pc[d] = "CLAIMED" => journal[d] = {} /\ Untouched(d)
  /\ pc[d] = "LIVE" => journal[d] = {"ATTEMPT_STARTED"} /\ Untouched(d)
  /\ pc[d] = "JOB" => /\ d \notin Agent /\ jobFile[d] /\ ~Announced(d) /\ alive[d] = {} /\ ~worked[d]
                      /\ outcome[d] = None
  /\ pc[d] \in {"RUNNING", "CLOSING"} => Announced(d)
  /\ pc[d] = "RETURNED" => Ended(d)
  /\ attempt[d] # "NONE" => intent[d] \/ "ATTEMPT_STARTED" \in journal[d]

\* What was read of the outcome is the outcome, and what an outcome, the files and the journal say of
\* the work that was done.
EffectInv(d) ==
  /\ read[d] # None => read[d] = outcome[d] /\ pc[d] \in {"READ", "SUBMIT", "STORED", "REPORTED"}
  /\ worked[d] => IF d \in Agent THEN Announced(d) ELSE jobFile[d]
  /\ outcome[d] = "BEFORE_EFFECT" => ~worked[d] /\ Ended(d)
  /\ attempt[d] = "FAILED_BEFORE_EFFECT" => ~worked[d]
  /\ stored[d] # None => stored[d] = prepared[d]

\* What a list of processes and the end record say of the processes that exist, and that the thread
\* which is about to submit a result, or UAM that was told, is right about them.
StopInv(d) ==
  /\ d \notin Agent => alive[d] \subseteq {"root"}
  /\ pc[d] = "CLOSING" /\ stop[d].complete => stop[d].seen # {}
  /\ (pc[d] = "CLOSING" \/ Ended(d)) /\ stop[d].complete /\ stop[d].seen # {} =>
       alive[d] \subseteq stop[d].seen
  /\ Ended(d) /\ stop[d].stopped => alive[d] = {}
  /\ pc[d] \in {"SUBMIT", "STORED"} \/ Settled(d) => (Announced(d) => alive[d] = {})

\* A server may start a process after its adapter has listed what it runs (LateHelpers): then a list
\* of its processes proves nothing.  A command has only its group.
Provable(d) == ~LateHelpers \/ d \notin Agent

\* Whoever runs an executor on a target, or may, because it holds the lock or because the executor has
\* inherited it, is alone with it.
Occupies(d) == held[d] \/ "root" \in alive[d]

LockInv ==
  \A d, e \in Delivery :
    d # e /\ Occupies(d) /\ Occupies(e) => targets[d] \cap targets[e] = {}

Inv ==
  /\ TypeOK
  /\ LockInv
  /\ \A d \in Delivery : /\ PlaceInv(d) /\ EffectInv(d)
                         /\ Provable(d) => StopInv(d)

-----------------------------------------------------------------------------
(* Types                                                                   *)

LEMMA InitType == Init => TypeOK
  BY DEF Init, TypeOK, AttemptState, StopReport, Place

LEMMA StartType ==
  ASSUME TypeOK, NEW d \in Delivery, Start(d) PROVE TypeOK'
<1> USE DEF TypeOK, control, logged, files, world, threads, Go, Leave, Log, AttemptState, Phase, Place
<1>1. ASSUME Intend(d) PROVE TypeOK'
  BY <1>1 DEF Intend, JournalIntent
<1>2. ASSUME StartAttempt(d) PROVE TypeOK'
  BY <1>2 DEF StartAttempt
<1>3. ASSUME StartRefused(d) PROVE TypeOK'
  BY <1>3 DEF StartRefused
<1>4. ASSUME JournalStarted(d) PROVE TypeOK'
  BY <1>4 DEF JournalStarted
<1>5. ASSUME ClearIntent(d) PROVE TypeOK'
  BY <1>5 DEF ClearIntent
<1>6. ASSUME Adopt(d) PROVE TypeOK'
  BY <1>6 DEF Adopt
<1> QED
  BY <1>1, <1>2, <1>3, <1>4, <1>5, <1>6 DEF Start

LEMMA ListingType ==
  ASSUME TypeOK, NEW d \in Delivery PROVE Listing(d) \subseteq StopReport
<1>1. alive[d] \in SUBSET Process
  BY DEF TypeOK
<1>2. \A seen \in SUBSET Process, complete \in BOOLEAN :
        [stopped |-> FALSE, complete |-> complete, seen |-> seen] \in StopReport
  BY DEF StopReport
<1>3. ASSUME NEW report \in Listing(d) PROVE report \in StopReport
  <2>1. \E seen \in SUBSET Process, complete \in BOOLEAN :
          report = [stopped |-> FALSE, complete |-> complete, seen |-> seen]
    BY <1>1, <1>3 DEF Listing
  <2> QED
    BY <1>2, <2>1
<1> QED
  BY <1>3

LEMMA RunType ==
  ASSUME TypeOK, NEW d \in Delivery, Run(d) PROVE TypeOK'
<1> USE DEF TypeOK, control, logged, files, world, threads, Go, Log, JournalEnded, Phase, Place, StopReport,
            Process, Outcome
<1>1. ASSUME WriteJob(d) PROVE TypeOK'
  BY <1>1 DEF WriteJob
<1>2. ASSUME Spawn(d) PROVE TypeOK'
  BY <1>2 DEF Spawn
<1>3. ASSUME JobRefused(d) PROVE TypeOK'
  BY <1>3 DEF JobRefused
<1>4. ASSUME AdapterRaises(d) PROVE TypeOK'
  BY <1>4 DEF AdapterRaises
<1>5. ASSUME Announce(d) PROVE TypeOK'
  BY <1>5 DEF Announce
<1>6. ASSUME SendTurn(d) PROVE TypeOK'
  BY <1>6 DEF SendTurn
<1>7. ASSUME CommandReturns(d) PROVE TypeOK'
  BY <1>7 DEF CommandReturns
<1>8. ASSUME AgentListed(d) PROVE TypeOK'
  <2>2. PICK report \in StopReport : stop' = [stop EXCEPT ![d] = report]
    BY <1>8, ListingType DEF AgentListed
  <2> QED
    BY <1>8, <2>2 DEF AgentListed
<1>9. ASSUME AgentReturns(d) PROVE TypeOK'
  <2>1. PICK shown \in BOOLEAN : JournalEnded(d, [stop[d] EXCEPT !.stopped = shown])
    BY <1>9 DEF AgentReturns
  <2>2. [stop[d] EXCEPT !.stopped = shown] \in StopReport
    <3>1. \A report \in StopReport : [report EXCEPT !.stopped = shown] \in StopReport
      BY DEF StopReport
    <3> QED
      BY <3>1
  <2>3. alive' \in [Delivery -> SUBSET Process]
    BY <1>9 DEF AgentReturns
  <2> QED
    BY <1>9, <2>1, <2>2, <2>3 DEF AgentReturns
<1>10. ASSUME Persist(d) PROVE TypeOK'
  BY <1>10 DEF Persist, Answers
<1> QED
  BY <1>1, <1>2, <1>3, <1>4, <1>5, <1>6, <1>7, <1>8, <1>9, <1>10 DEF Run

LEMMA SettleType ==
  ASSUME TypeOK, NEW d \in Delivery, Settle(d) PROVE TypeOK'
<1> USE DEF TypeOK, control, logged, files, world, threads, Go, Leave, Log, AttemptState, Reported, Phase,
            Place
<1>1. ASSUME Resume(d) \/ ReadOutcome(d) \/ Waits(d) \/ LeaveOpen(d) PROVE TypeOK'
  BY <1>1 DEF Resume, ReadOutcome, Waits, LeaveOpen
<1>2. ASSUME ReportEnd(d) PROVE TypeOK'
  <2>1. ReportedOutcome(d) \in Reported
    BY DEF ReportedOutcome
  <2> QED
    BY <1>2, <2>1 DEF ReportEnd, End
<1>3. ASSUME ReportUnusable(d) PROVE TypeOK'
  BY <1>3 DEF ReportUnusable, End
<1>4. ASSUME Prepare(d) PROVE TypeOK'
  BY <1>4 DEF Prepare, Payload
<1>5. ASSUME StoreResult(d) PROVE TypeOK'
  BY <1>5 DEF StoreResult
<1>6. ASSUME RecordResult(d) PROVE TypeOK'
  BY <1>6 DEF RecordResult
<1>7. ASSUME JournalSettled(d) PROVE TypeOK'
  BY <1>7 DEF JournalSettled
<1> QED
  BY <1>1, <1>2, <1>3, <1>4, <1>5, <1>6, <1>7 DEF Settle

LEMMA EnvironmentType ==
  ASSUME TypeOK, NEW d \in Delivery, Abandon(d) \/ Environment(d) PROVE TypeOK'
<1> USE DEF TypeOK, control, logged, files, world, threads, Leave, AttemptState, Place, Outcome, Process
<1>1. ASSUME Abandon(d) PROVE TypeOK'
  BY <1>1 DEF Abandon
<1>2. ASSUME WorkerReports(d) PROVE TypeOK'
  BY <1>2 DEF WorkerReports
<1>3. ASSUME StartHelper(d) \/ \E p \in Process : ProcessEnds(d, p) PROVE TypeOK'
  BY <1>3 DEF StartHelper, ProcessEnds
<1>4. ASSUME LeavesInbox(d) \/ ReturnsToInbox(d) PROVE TypeOK'
  BY <1>4 DEF LeavesInbox, ReturnsToInbox
<1> QED
  BY <1>1, <1>2, <1>3, <1>4 DEF Environment

LEMMA NextType == TypeOK /\ [Next]_vars => TypeOK'
<1> SUFFICES ASSUME TypeOK, [Next]_vars PROVE TypeOK'
  OBVIOUS
<1>1. ASSUME Crash PROVE TypeOK'
  BY <1>1 DEF TypeOK, Crash, Place, control, logged, files, world
<1>2. ASSUME UNCHANGED vars PROVE TypeOK'
  BY <1>2 DEF TypeOK, vars, control, logged, files, world, threads
<1> QED
  BY <1>1, <1>2, StartType, RunType, SettleType, EnvironmentType DEF Next

-----------------------------------------------------------------------------
(* What the places mean                                                    *)

\* Nothing of the delivery e changed, its inbox aside.
Same(e) ==
  /\ attempt'[e] = attempt[e] /\ stored'[e] = stored[e]
  /\ intent'[e] = intent[e] /\ journal'[e] = journal[e] /\ stop'[e] = stop[e]
  /\ jobFile'[e] = jobFile[e] /\ outcome'[e] = outcome[e] /\ prepared'[e] = prepared[e]
  /\ alive'[e] = alive[e] /\ worked'[e] = worked[e]
  /\ pc'[e] = pc[e] /\ held'[e] = held[e] /\ read'[e] = read[e]

\* A step of one delivery leaves the others alone.
LEMMA OthersAreSame ==
  ASSUME TypeOK, NEW d \in Delivery, NEW e \in Delivery, d # e,
         Start(d) \/ Run(d) \/ Settle(d) \/ Abandon(d) \/ Environment(d)
  PROVE  Same(e)
<1> USE DEF TypeOK, Same, control, logged, files, world, threads, Go, Leave, Log, JournalEnded, End
<1>1. ASSUME Start(d) PROVE Same(e)
  BY <1>1 DEF Start, Intend, JournalIntent, StartAttempt, StartRefused, JournalStarted, ClearIntent, Adopt
<1>2. ASSUME Run(d) PROVE Same(e)
  BY <1>2 DEF Run, WriteJob, Spawn, JobRefused, AdapterRaises, Announce, SendTurn, CommandReturns,
              AgentListed, AgentReturns, Persist
<1>3. ASSUME Settle(d) PROVE Same(e)
  BY <1>3 DEF Settle, Resume, ReadOutcome, Waits, LeaveOpen, ReportEnd, ReportUnusable, Prepare,
              StoreResult, RecordResult, JournalSettled
<1>4. ASSUME Abandon(d) \/ Environment(d) PROVE Same(e)
  BY <1>4 DEF Abandon, Environment, WorkerReports, StartHelper, ProcessEnds, LeavesInbox, ReturnsToInbox
<1> QED
  BY <1>1, <1>2, <1>3, <1>4

\* What is known of a delivery is known of it as long as it is the same.
LEMMA SameIsEnough ==
  ASSUME NEW e \in Delivery, Same(e)
  PROVE  /\ PlaceInv(e) => PlaceInv(e)'
         /\ EffectInv(e) => EffectInv(e)'
         /\ StopInv(e) => StopInv(e)'
<1>1. PlaceInv(e) => PlaceInv(e)'
  BY DEF Same, PlaceInv, Untouched, Ended, Announced
<1>2. EffectInv(e) => EffectInv(e)'
  BY DEF Same, EffectInv, Ended, Announced
<1>3. StopInv(e) => StopInv(e)'
  BY DEF Same, StopInv, Ended, Announced, Settled
<1> QED
  BY <1>1, <1>2, <1>3

LEMMA StartPlace ==
  ASSUME TypeOK, NEW d \in Delivery, Start(d), PlaceInv(d), EffectInv(d)
  PROVE  PlaceInv(d)' /\ EffectInv(d)'
<1> USE DEF TypeOK, PlaceInv, EffectInv, Untouched, Starting, Running, Ended, Announced, Reported, control,
            logged, files, world, threads, Go, Leave, Log, JournalEnded, End
<1>1. ASSUME Intend(d) PROVE PlaceInv(d)' /\ EffectInv(d)'
  BY <1>1 DEF Intend, Admissible, JournalIntent, Live
<1>2. ASSUME StartAttempt(d) PROVE PlaceInv(d)' /\ EffectInv(d)'
  BY <1>2 DEF StartAttempt
<1>3. ASSUME StartRefused(d) PROVE PlaceInv(d)' /\ EffectInv(d)'
  BY <1>3 DEF StartRefused
<1>4. ASSUME JournalStarted(d) PROVE PlaceInv(d)' /\ EffectInv(d)'
  BY <1>4 DEF JournalStarted
<1>5. ASSUME ClearIntent(d) PROVE PlaceInv(d)' /\ EffectInv(d)'
  BY <1>5 DEF ClearIntent
<1>6. ASSUME Adopt(d) PROVE PlaceInv(d)' /\ EffectInv(d)'
  BY <1>6 DEF Adopt
<1> QED
  BY <1>1, <1>2, <1>3, <1>4, <1>5, <1>6 DEF Start

LEMMA RunPlace ==
  ASSUME TypeOK, NEW d \in Delivery, Run(d), PlaceInv(d), EffectInv(d)
  PROVE  PlaceInv(d)' /\ EffectInv(d)'
<1> USE DEF TypeOK, PlaceInv, EffectInv, Untouched, Starting, Running, Ended, Announced, Reported, control,
            logged, files, world, threads, Go, Leave, Log, JournalEnded, End
<1>1. ASSUME WriteJob(d) PROVE PlaceInv(d)' /\ EffectInv(d)'
  BY <1>1 DEF WriteJob
<1>2. ASSUME Spawn(d) PROVE PlaceInv(d)' /\ EffectInv(d)'
  BY <1>2 DEF Spawn
<1>3. ASSUME JobRefused(d) PROVE PlaceInv(d)' /\ EffectInv(d)'
  BY <1>3 DEF JobRefused
<1>4. ASSUME AdapterRaises(d) PROVE PlaceInv(d)' /\ EffectInv(d)'
  BY <1>4 DEF AdapterRaises
<1>5. ASSUME Announce(d) PROVE PlaceInv(d)' /\ EffectInv(d)'
  BY <1>5 DEF Announce
<1>6. ASSUME SendTurn(d) PROVE PlaceInv(d)' /\ EffectInv(d)'
  BY <1>6 DEF SendTurn
<1>7. ASSUME CommandReturns(d) PROVE PlaceInv(d)' /\ EffectInv(d)'
  BY <1>7 DEF CommandReturns
<1>8. ASSUME AgentListed(d) PROVE PlaceInv(d)' /\ EffectInv(d)'
  BY <1>8 DEF AgentListed
<1>9. ASSUME AgentReturns(d) PROVE PlaceInv(d)' /\ EffectInv(d)'
  BY <1>9 DEF AgentReturns
<1>10. ASSUME Persist(d) PROVE PlaceInv(d)' /\ EffectInv(d)'
  BY <1>10 DEF Persist, Answers
<1> QED
  BY <1>1, <1>2, <1>3, <1>4, <1>5, <1>6, <1>7, <1>8, <1>9, <1>10 DEF Run

\* How _finalize reports an attempt: as one of the ends, and as one that failed before it had an effect
\* only when nothing was announced, or the outcome says so.
LEMMA OutcomeIsReported ==
  ASSUME NEW d \in Delivery
  PROVE  ReportedOutcome(d) \in {"FAILED_BEFORE_EFFECT", "FAILED", "STOPPED"}
  BY DEF ReportedOutcome

LEMMA BeforeEffectIsReported ==
  ASSUME NEW d \in Delivery, ReportedOutcome(d) = "FAILED_BEFORE_EFFECT"
  PROVE  (read[d] = None /\ ~Announced(d)) \/ read[d] = "BEFORE_EFFECT"
  BY NoneAssumption DEF ReportedOutcome

LEMMA SettlePlace ==
  ASSUME TypeOK, NEW d \in Delivery, Settle(d), PlaceInv(d), EffectInv(d)
  PROVE  PlaceInv(d)' /\ EffectInv(d)'
<1> USE DEF TypeOK, PlaceInv, EffectInv, Untouched, Starting, Running, Ended, Announced, Reported, control,
            logged, files, world, threads, Go, Leave, Log, JournalEnded, End
<1>1. ASSUME Resume(d) PROVE PlaceInv(d)' /\ EffectInv(d)'
  BY <1>1 DEF Resume, Live
<1>2. ASSUME ReadOutcome(d) PROVE PlaceInv(d)' /\ EffectInv(d)'
  BY <1>2 DEF ReadOutcome
<1>3. ASSUME Waits(d) PROVE PlaceInv(d)' /\ EffectInv(d)'
  BY <1>3 DEF Waits
<1>4. ASSUME LeaveOpen(d) PROVE PlaceInv(d)' /\ EffectInv(d)'
  BY <1>4 DEF LeaveOpen
<1>5. ASSUME ReportEnd(d) PROVE PlaceInv(d)' /\ EffectInv(d)'
  <2>1. /\ attempt' = [attempt EXCEPT ![d] = ReportedOutcome(d)]
        /\ ~ExecutorUnknown(d) /\ attempt[d] # "NONE"
        /\ pc[d] = "READ" /\ pc' = [pc EXCEPT ![d] = "REPORTED"]
        /\ UNCHANGED <<stored, logged, files, world, held, read>>
    BY <1>5, OutcomeIsReported DEF ReportEnd
  <2>2. ReportedOutcome(d) = "FAILED_BEFORE_EFFECT" => ~worked[d]
    BY <2>1, BeforeEffectIsReported, NoneAssumption DEF ExecutorUnknown
  <2> QED
    BY <2>1, <2>2, OutcomeIsReported
<1>6. ASSUME ReportUnusable(d) PROVE PlaceInv(d)' /\ EffectInv(d)'
  BY <1>6 DEF ReportUnusable
<1>7. ASSUME Prepare(d) PROVE PlaceInv(d)' /\ EffectInv(d)'
  BY <1>7 DEF Prepare, Payload
<1>8. ASSUME StoreResult(d) PROVE PlaceInv(d)' /\ EffectInv(d)'
  BY <1>8 DEF StoreResult
<1>9. ASSUME RecordResult(d) PROVE PlaceInv(d)' /\ EffectInv(d)'
  BY <1>9 DEF RecordResult
<1>10. ASSUME JournalSettled(d) PROVE PlaceInv(d)' /\ EffectInv(d)'
  BY <1>10 DEF JournalSettled
<1> QED
  BY <1>1, <1>2, <1>3, <1>4, <1>5, <1>6, <1>7, <1>8, <1>9, <1>10 DEF Settle

LEMMA EnvironmentPlace ==
  ASSUME TypeOK, NEW d \in Delivery, Abandon(d) \/ Environment(d), PlaceInv(d), EffectInv(d)
  PROVE  PlaceInv(d)' /\ EffectInv(d)'
<1> USE DEF TypeOK, PlaceInv, EffectInv, Untouched, Starting, Running, Ended, Announced, Reported, control,
            logged, files, world, threads, Go, Leave, Log, JournalEnded, End
<1>1. ASSUME Abandon(d) PROVE PlaceInv(d)' /\ EffectInv(d)'
  BY <1>1 DEF Abandon
<1>2. ASSUME WorkerReports(d) PROVE PlaceInv(d)' /\ EffectInv(d)'
  BY <1>2 DEF WorkerReports
<1>3. ASSUME StartHelper(d) PROVE PlaceInv(d)' /\ EffectInv(d)'
  BY <1>3 DEF StartHelper
<1>4. ASSUME LeavesInbox(d) PROVE PlaceInv(d)' /\ EffectInv(d)'
  BY <1>4 DEF LeavesInbox
<1>5. ASSUME ReturnsToInbox(d) PROVE PlaceInv(d)' /\ EffectInv(d)'
  BY <1>5 DEF ReturnsToInbox
<1>6. ASSUME NEW p \in Process, ProcessEnds(d, p) PROVE PlaceInv(d)' /\ EffectInv(d)'
  BY <1>6 DEF ProcessEnds
<1> QED
  BY <1>1, <1>2, <1>3, <1>4, <1>5, <1>6 DEF Environment

-----------------------------------------------------------------------------
(* Stops                                                                   *)

LEMMA ListingIsAlive ==
  ASSUME NEW d \in Delivery, NEW report \in Listing(d), report.complete
  PROVE  report.seen = alive[d] /\ report.seen # {}
  BY DEF Listing

LEMMA StartStop ==
  ASSUME TypeOK, NEW d \in Delivery, Provable(d), Start(d), PlaceInv(d), EffectInv(d), StopInv(d)
  PROVE  StopInv(d)'
<1> USE DEF TypeOK, StopInv, PlaceInv, Starting, Running, Ended, Announced, Settled, Reported, Process,
           Provable,
            control, logged, files, world, threads, Go, Leave, Log, JournalEnded, End
<1>1. ASSUME Intend(d) PROVE StopInv(d)'
  BY <1>1 DEF Intend, Admissible, JournalIntent, Live
<1>2. ASSUME StartAttempt(d) PROVE StopInv(d)'
  BY <1>2 DEF StartAttempt
<1>3. ASSUME StartRefused(d) PROVE StopInv(d)'
  BY <1>3 DEF StartRefused
<1>4. ASSUME JournalStarted(d) PROVE StopInv(d)'
  BY <1>4 DEF JournalStarted
<1>5. ASSUME ClearIntent(d) PROVE StopInv(d)'
  BY <1>5 DEF ClearIntent
<1>6. ASSUME Adopt(d) PROVE StopInv(d)'
  BY <1>6 DEF Adopt
<1> QED
  BY <1>1, <1>2, <1>3, <1>4, <1>5, <1>6 DEF Start

LEMMA RunStop ==
  ASSUME TypeOK, NEW d \in Delivery, Provable(d), Run(d), PlaceInv(d), EffectInv(d), StopInv(d)
  PROVE  StopInv(d)'
<1> USE DEF TypeOK, StopInv, PlaceInv, Starting, Running, Ended, Announced, Settled, Reported, Process,
           Provable,
            control, logged, files, world, threads, Go, Leave, Log, JournalEnded, End
<1>1. ASSUME WriteJob(d) PROVE StopInv(d)'
  BY <1>1 DEF WriteJob
<1>2. ASSUME Spawn(d) PROVE StopInv(d)'
  BY <1>2 DEF Spawn, Untouched
<1>3. ASSUME JobRefused(d) PROVE StopInv(d)'
  BY <1>3 DEF JobRefused, Untouched
<1>4. ASSUME AdapterRaises(d) PROVE StopInv(d)'
  BY <1>4 DEF AdapterRaises
<1>5. ASSUME Announce(d) PROVE StopInv(d)'
  BY <1>5 DEF Announce
<1>6. ASSUME SendTurn(d) PROVE StopInv(d)'
  BY <1>6 DEF SendTurn
<1>7. ASSUME CommandReturns(d) PROVE StopInv(d)'
  BY <1>7 DEF CommandReturns
<1>8. ASSUME AgentListed(d) PROVE StopInv(d)'
  <2>1. PICK report \in Listing(d) : stop' = [stop EXCEPT ![d] = report]
    BY <1>8 DEF AgentListed
  <2>2. report.complete => report.seen = alive[d] /\ report.seen # {}
    BY ListingIsAlive
  <2> QED
    BY <1>8, <2>1, <2>2 DEF AgentListed
<1>9. ASSUME AgentReturns(d) PROVE StopInv(d)'
  BY <1>9 DEF AgentReturns
<1>10. ASSUME Persist(d) PROVE StopInv(d)'
  BY <1>10 DEF Persist, Answers
<1> QED
  BY <1>1, <1>2, <1>3, <1>4, <1>5, <1>6, <1>7, <1>8, <1>9, <1>10 DEF Run

LEMMA SettleStop ==
  ASSUME TypeOK, NEW d \in Delivery, Provable(d), Settle(d), PlaceInv(d), EffectInv(d), StopInv(d)
  PROVE  StopInv(d)'
<1> USE DEF TypeOK, StopInv, PlaceInv, Starting, Running, Ended, Announced, Settled, Reported, Process,
           Provable,
            control, logged, files, world, threads, Go, Leave, Log, JournalEnded, End
<1>1. ASSUME Resume(d) PROVE StopInv(d)'
  BY <1>1 DEF Resume
<1>2. ASSUME ReadOutcome(d) PROVE StopInv(d)'
  BY <1>2 DEF ReadOutcome
<1>3. ASSUME Waits(d) PROVE StopInv(d)'
  BY <1>3 DEF Waits
<1>4. ASSUME LeaveOpen(d) PROVE StopInv(d)'
  BY <1>4 DEF LeaveOpen
<1>5. ASSUME ReportEnd(d) PROVE StopInv(d)'
  BY <1>5 DEF ReportEnd, MaySettle, GroupAlive, NothingDeniesStop, ProvenGone
<1>6. ASSUME ReportUnusable(d) PROVE StopInv(d)'
  BY <1>6 DEF ReportUnusable, MaySettle, GroupAlive, NothingDeniesStop, ProvenGone
<1>7. ASSUME Prepare(d) PROVE StopInv(d)'
  BY <1>7 DEF Prepare, MaySettle, GroupAlive, NothingDeniesStop, ProvenGone
<1>8. ASSUME StoreResult(d) PROVE StopInv(d)'
  BY <1>8 DEF StoreResult
<1>9. ASSUME RecordResult(d) PROVE StopInv(d)'
  BY <1>9 DEF RecordResult
<1>10. ASSUME JournalSettled(d) PROVE StopInv(d)'
  BY <1>10 DEF JournalSettled
<1> QED
  BY <1>1, <1>2, <1>3, <1>4, <1>5, <1>6, <1>7, <1>8, <1>9, <1>10 DEF Settle

LEMMA EnvironmentStop ==
  ASSUME TypeOK, NEW d \in Delivery, Provable(d), Abandon(d) \/ Environment(d),
         PlaceInv(d), EffectInv(d), StopInv(d)
  PROVE  StopInv(d)'
<1> USE DEF TypeOK, StopInv, PlaceInv, Starting, Running, Ended, Announced, Settled, Reported, Process,
           Provable,
            control, logged, files, world, threads, Go, Leave, Log, JournalEnded, End
<1>1. ASSUME Abandon(d) PROVE StopInv(d)'
  BY <1>1 DEF Abandon
<1>2. ASSUME WorkerReports(d) PROVE StopInv(d)'
  BY <1>2 DEF WorkerReports
<1>3. ASSUME StartHelper(d) PROVE StopInv(d)'
  BY <1>3 DEF StartHelper
<1>4. ASSUME LeavesInbox(d) PROVE StopInv(d)'
  BY <1>4 DEF LeavesInbox
<1>5. ASSUME ReturnsToInbox(d) PROVE StopInv(d)'
  BY <1>5 DEF ReturnsToInbox
<1>6. ASSUME NEW p \in Process, ProcessEnds(d, p) PROVE StopInv(d)'
  BY <1>6 DEF ProcessEnds
<1> QED
  BY <1>1, <1>2, <1>3, <1>4, <1>5, <1>6 DEF Environment

-----------------------------------------------------------------------------
(* Locks                                                                   *)

\* An executor is started under the lock, so no step but the taking of locks makes an occupant.
LEMMA OccupantWas ==
  ASSUME TypeOK, NEW d \in Delivery, PlaceInv(d), Occupies(d)', ~Intend(d),
         Start(d) \/ Run(d) \/ Settle(d) \/ Abandon(d) \/ Environment(d)
  PROVE  Occupies(d)
<1> USE DEF TypeOK, Occupies, control, logged, files, world, threads, Go, Leave, Log, JournalEnded, End
<1>1. ASSUME Start(d) PROVE Occupies(d)
  BY <1>1 DEF Start, StartAttempt, StartRefused, JournalStarted, ClearIntent, Adopt
<1>2. ASSUME Run(d) PROVE Occupies(d)
  BY <1>2 DEF Run, WriteJob, Spawn, JobRefused, AdapterRaises, Announce, SendTurn, CommandReturns,
              AgentListed, AgentReturns, Persist, PlaceInv, Starting
<1>3. ASSUME Settle(d) PROVE Occupies(d)
  BY <1>3 DEF Settle, Resume, ReadOutcome, Waits, LeaveOpen, ReportEnd, ReportUnusable, Prepare,
              StoreResult, RecordResult, JournalSettled
<1>4. ASSUME Abandon(d) \/ Environment(d) PROVE Occupies(d)
  BY <1>4 DEF Abandon, Environment, WorkerReports, StartHelper, ProcessEnds, LeavesInbox, ReturnsToInbox
<1> QED
  BY <1>1, <1>2, <1>3, <1>4

LEMMA StepLock ==
  ASSUME TypeOK, LockInv, NEW d \in Delivery, PlaceInv(d),
         Start(d) \/ Run(d) \/ Settle(d) \/ Abandon(d) \/ Environment(d)
  PROVE  LockInv'
<1>1. \A e \in Delivery \ {d} : Occupies(e)' <=> Occupies(e)
  BY OthersAreSame DEF Same, Occupies
<1>2. CASE Intend(d)
  <2>1. \A e \in Delivery : Occupies(e) => targets[d] \cap targets[e] = {}
    BY <1>2 DEF Intend, Admissible, TargetLocked, Occupies
  <2> QED
    BY <1>1, <2>1 DEF LockInv
<1>3. CASE ~Intend(d)
  <2>1. Occupies(d)' => Occupies(d)
    BY <1>3, OccupantWas
  <2> QED
    BY <1>1, <2>1 DEF LockInv
<1> QED
  BY <1>2, <1>3

-----------------------------------------------------------------------------
(* The invariant                                                           *)

LEMMA InitInv == Init => Inv
<1> SUFFICES ASSUME Init PROVE Inv
  OBVIOUS
<1>1. TypeOK
  BY InitType
<1>2. LockInv
  BY DEF Init, LockInv, Occupies
<1>3. ASSUME NEW d \in Delivery
      PROVE  PlaceInv(d) /\ EffectInv(d) /\ StopInv(d)
  <2>1. PlaceInv(d)
    BY DEF Init, PlaceInv, Untouched, Starting, Running
  <2>2. EffectInv(d)
    BY NoneAssumption DEF Init, EffectInv
  <2>3. StopInv(d)
    BY DEF Init, StopInv, Ended, Announced, Settled, Reported
  <2> QED
    BY <2>1, <2>2, <2>3
<1> QED
  BY <1>1, <1>2, <1>3 DEF Inv

\* The processes, the journal and the files outlive the Consumer, and no thread is anywhere.
LEMMA CrashInv == ASSUME Inv, Crash PROVE Inv'
<1> USE DEF Inv, Crash, control, logged, files, world
<1>1. LockInv'
  BY DEF LockInv, Occupies
<1>2. ASSUME NEW d \in Delivery PROVE PlaceInv(d)' /\ EffectInv(d)' /\ (Provable(d) => StopInv(d)')
  <2>1. PlaceInv(d)'
    BY DEF PlaceInv, Untouched, Starting, Running, Ended, Announced
  <2>2. EffectInv(d)'
    BY DEF EffectInv, Ended, Announced
  <2>3. Provable(d) => StopInv(d)'
    BY DEF StopInv, Ended, Announced, Settled
  <2> QED
    BY <2>1, <2>2, <2>3
<1>3. TypeOK'
  BY NextType DEF Next
<1> QED
  BY <1>1, <1>2, <1>3 DEF Provable

LEMMA StepInv ==
  ASSUME Inv, NEW d \in Delivery, Start(d) \/ Run(d) \/ Settle(d) \/ Abandon(d) \/ Environment(d)
  PROVE  Inv'
<1>1. TypeOK'
  BY StartType, RunType, SettleType, EnvironmentType DEF Inv
<1>2. LockInv'
  BY StepLock DEF Inv
<1>3. PlaceInv(d)' /\ EffectInv(d)'
  BY StartPlace, RunPlace, SettlePlace, EnvironmentPlace DEF Inv
<1>4. Provable(d) => StopInv(d)'
  BY StartStop, RunStop, SettleStop, EnvironmentStop DEF Inv
<1>5. ASSUME NEW e \in Delivery, e # d
      PROVE  PlaceInv(e)' /\ EffectInv(e)' /\ (Provable(e) => StopInv(e)')
  BY <1>5, OthersAreSame, SameIsEnough DEF Inv
<1> QED
  BY <1>1, <1>2, <1>3, <1>4, <1>5 DEF Inv, Provable

LEMMA NextInv == Inv /\ [Next]_vars => Inv'
<1> SUFFICES ASSUME Inv, [Next]_vars PROVE Inv'
  OBVIOUS
<1>1. ASSUME UNCHANGED vars PROVE Inv'
  <2>1. \A d \in Delivery : Same(d)
    BY <1>1 DEF vars, Same, control, logged, files, world, threads
  <2>2. TypeOK' /\ LockInv'
    BY <1>1, NextType DEF Inv, LockInv, Occupies, vars, world, threads
  <2> QED
    BY <2>1, <2>2, SameIsEnough DEF Inv, Provable
<1> QED
  BY <1>1, CrashInv, StepInv DEF Next

-----------------------------------------------------------------------------
(* Theorems                                                                *)

\* In every state, of every number of deliveries and threads: what is on disk, in the journal and with
\* UAM, what runs and where the threads are, agree.
THEOREM ConsumerInvariant == Spec => []Inv
  BY InitInv, NextInv, PTL DEF Spec

\* Each variable keeps its type.
THEOREM ConsumerTypes == Spec => []TypeOK
<1>1. Inv => TypeOK
  BY DEF Inv
<1> QED
  BY <1>1, ConsumerInvariant, PTL

\* BeforeEffectIsTrue: an attempt is reported as failed before it had an effect only if nothing was run
\* for it, or nothing had got its task (consumer.py, _finalize).
THEOREM BeforeEffectHolds == Spec => []BeforeEffectIsTrue
<1>1. Inv => BeforeEffectIsTrue
  BY DEF Inv, EffectInv, BeforeEffectIsTrue
<1> QED
  BY <1>1, ConsumerInvariant, PTL

\* EveryAttemptIsJournalled: a Consumer that died finds every attempt that it made (consumer.py, _start).
THEOREM AttemptsAreFound == Spec => []EveryAttemptIsJournalled
<1>1. Inv => EveryAttemptIsJournalled
  BY DEF Inv, PlaceInv, EveryAttemptIsJournalled
<1> QED
  BY <1>1, ConsumerInvariant, PTL

\* ReplayIsIdentical: what the result store has of an attempt is what its file on disk says, so that a
\* repeated submission is not refused (consumer.py, _submit).
THEOREM ReplayHolds == Spec => []ReplayIsIdentical
<1>1. Inv => ReplayIsIdentical
  BY DEF Inv, EffectInv, ReplayIsIdentical
<1> QED
  BY <1>1, ConsumerInvariant, PTL

\* TargetsNotShared: two executors that may change the same path never run together, over any number
\* of crashes of the Consumer (consumer.py, _admit; harness_adapter.py, inherited descriptors).
THEOREM TargetsHaveOneExecutor == Spec => []TargetsNotShared
<1>1. Inv => TargetsNotShared
  BY DEF Inv, LockInv, Occupies, TargetsNotShared
<1> QED
  BY <1>1, ConsumerInvariant, PTL

\* NeverRedone: an attempt that is over is never made active again (consumer.py, _handle).
THEOREM AttemptsAreNotRedone == Spec => NeverRedone
<1>1. ASSUME Inv, [Next]_vars
      PROVE  [\A d \in Delivery : attempt[d] \notin {"NONE", "ACTIVE"} => attempt'[d] # "ACTIVE"]_vars
  <2> SUFFICES ASSUME Next, NEW e \in Delivery, attempt[e] \notin {"NONE", "ACTIVE"}
               PROVE  attempt'[e] # "ACTIVE"
    BY <1>1
  <2>1. TypeOK /\ PlaceInv(e)
    BY <1>1 DEF Inv
  <2>2. CASE Crash
    BY <2>2 DEF Crash, control
  <2>3. ASSUME NEW d \in Delivery, d # e,
               Start(d) \/ Run(d) \/ Settle(d) \/ Abandon(d) \/ Environment(d)
        PROVE  attempt'[e] # "ACTIVE"
    BY <2>1, <2>3, OthersAreSame DEF Same
  <2>4. ASSUME Start(e) PROVE attempt'[e] # "ACTIVE"
    BY <2>1, <2>4 DEF Start, Intend, StartAttempt, StartRefused, JournalStarted, ClearIntent, Adopt, Go,
                      PlaceInv, control
  <2>5. ASSUME Run(e) \/ Abandon(e) PROVE attempt'[e] # "ACTIVE"
    BY <2>5 DEF Run, WriteJob, Spawn, JobRefused, AdapterRaises, Announce, SendTurn, CommandReturns,
                AgentListed, AgentReturns, Persist, Abandon, control
  <2>6. ASSUME Settle(e) PROVE attempt'[e] # "ACTIVE"
    BY <2>1, <2>6, OutcomeIsReported
       DEF Settle, Resume, ReadOutcome, Waits, LeaveOpen, ReportEnd, ReportUnusable, Prepare,
           StoreResult, RecordResult, JournalSettled, End, control, TypeOK
  <2>7. ASSUME Environment(e) PROVE attempt'[e] # "ACTIVE"
    BY <2>1, <2>7 DEF Environment, WorkerReports, StartHelper, ProcessEnds, LeavesInbox, ReturnsToInbox,
                      control, TypeOK
  <2> QED
    BY <2>2, <2>3, <2>4, <2>5, <2>6, <2>7 DEF Next
<1> QED
  BY <1>1, ConsumerInvariant, PTL DEF Spec, NeverRedone

\* StopReportsAreReal: UAM is told of the end of an announced executor only when nothing of it is left,
\* unless a server may start a process after its adapter listed what it runs (consumer.py, _finalize).
THEOREM StopReportsHold ==
  ASSUME ~LateHelpers PROVE Spec => []StopReportsAreReal
<1>1. Inv => StopReportsAreReal
  BY DEF Inv, StopInv, Provable, StopReportsAreReal
<1> QED
  BY <1>1, ConsumerInvariant, PTL

\* For a local command, which is one process group, nothing has to be assumed.
THEOREM CommandStopsAreReal ==
  Spec => [](\A d \in Delivery \ Agent : Settled(d) /\ Announced(d) => alive[d] = {})
<1>1. Inv => \A d \in Delivery \ Agent : Settled(d) /\ Announced(d) => alive[d] = {}
  BY DEF Inv, StopInv, Provable
<1> QED
  BY <1>1, ConsumerInvariant, PTL

\* ConfirmedStopIsReal: a late process of a server is the only way in which a confirmed stop can be
\* wrong (harness_adapter.py, HarnessOutcome.stopped).
THEOREM ConfirmedStopHolds ==
  ASSUME ~LateHelpers PROVE Spec => []ConfirmedStopIsReal
<1>1. Inv => ConfirmedStopIsReal
  BY DEF Inv, StopInv, Provable, ConfirmedStopIsReal
<1> QED
  BY <1>1, ConsumerInvariant, PTL

=============================================================================
