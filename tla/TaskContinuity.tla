--------------------------- MODULE TaskContinuity ---------------------------
(***************************************************************************)
(* ContinuityControl (task_continuity_control.py): version-2 deliveries of *)
(* contracts inside one endpoint, several deliveries per business task,    *)
(* handover of a role, late evidence of a replaced executor, and the guard *)
(* that lets one task have one active attempt.                             *)
(*                                                                         *)
(* Every operation holds the state lock (statefile.exclusive_lock) from    *)
(* its first decisive read to its save, and asks the authority inside it,  *)
(* so an operation is one step.  Two operations write twice: the contract  *)
(* claim before the delivery, the result before the delivery.  A process   *)
(* that dies between the two writes releases the lock, so the first write  *)
(* alone is a step of its own (ClaimCutOff, SubmitCutOff).                 *)
(*                                                                         *)
(* The environment chooses what the code asks others: the authority's      *)
(* verdict and whether it could be audited (a refusal changes nothing and  *)
(* is no step), the observed workspace, and the wall clock - it may jump,  *)
(* so whether a lease "has run out" is a free choice at each call.         *)
(*                                                                         *)
(* working is not state of the code: it is the set of executors that       *)
(* really run.  Executors are assumed honest: they report a stop, or       *)
(* submit a result, after they stopped; module Consumer shows where the    *)
(* resident consumer keeps that promise and where it does not.             *)
(***************************************************************************)
EXTENDS DeliveryRecord

CONSTANTS
  Delivery,     \* delivery ids: one per owner, original requester and idempotency key
  Task,         \* task identities: endpoint_ref, owner_ref and business_task_ref
  Contract,     \* stored, READY contracts
  ResultId,     \* result ids an executor may choose
  Body,         \* contents of a result, as far as submission_digest tells them apart
  Sender,       \* the original requester, part of the delivery id
  MaxHandovers  \* MAX_HANDOVERS

ASSUME SenderAssumption == Sender \in [Delivery -> Principal]
ASSUME MaxHandoversAssumption == MaxHandovers \in Nat

VARIABLES
  claims,      \* by-contract/: the delivery that claimed a contract
  state,       \* state of the delivery; ABSENT: no delivery record
  contract,    \* contract_id
  task,        \* the task identity
  continues,   \* predecessors named at delivery
  requester,
  recipient,
  fence,       \* number of attempts made; the fence of the latest
  attempts,
  cancel,      \* a cancel intent is recorded
  handovers,   \* number of handovers made
  result,      \* the recorded result
  stored,      \* ResultV2Store: what each result id holds
  working      \* executors that really run: <<delivery, fence>>

payload == <<contract, task, continues>>
roles == <<requester, recipient, handovers>>
record == <<state, payload, roles, fence, attempts, cancel, result>>
vars == <<claims, record, stored, working>>

Submission == [delivery: Delivery, fence: Fence, body: Body]
Recorded == [id: ResultId, content: Submission]

ASSUME NoneIsNothing ==
  None \notin UNION {Delivery, Task, Contract, Submission, Recorded}

TypeOK ==
  /\ claims \in [Contract -> Delivery \cup {None}]
  /\ state \in [Delivery -> DeliveryState]
  /\ contract \in [Delivery -> Contract \cup {None}]
  /\ task \in [Delivery -> Task \cup {None}]
  /\ continues \in [Delivery -> SUBSET Delivery]
  /\ requester \in [Delivery -> Principal \cup {None}]
  /\ recipient \in [Delivery -> Principal \cup {None}]
  /\ fence \in [Delivery -> 0..MaxAttempts]
  /\ attempts \in [Delivery -> [Fence -> Attempt]]
  /\ cancel \in [Delivery -> BOOLEAN]
  /\ handovers \in [Delivery -> 0..MaxHandovers]
  /\ result \in [Delivery -> Recorded \cup {None}]
  /\ stored \in [ResultId -> Submission \cup {None}]
  /\ working \subseteq Delivery \X Fence

Init ==
  /\ claims = [c \in Contract |-> None]
  /\ state = [d \in Delivery |-> "ABSENT"]
  /\ contract = [d \in Delivery |-> None]
  /\ task = [d \in Delivery |-> None]
  /\ continues = [d \in Delivery |-> {}]
  /\ requester = [d \in Delivery |-> None]
  /\ recipient = [d \in Delivery |-> None]
  /\ fence = [d \in Delivery |-> 0]
  /\ attempts = [d \in Delivery |-> [n \in Fence |-> NoAttempt]]
  /\ cancel = [d \in Delivery |-> FALSE]
  /\ handovers = [d \in Delivery |-> 0]
  /\ result = [d \in Delivery |-> None]
  /\ stored = [r \in ResultId |-> None]
  /\ working = {}

-----------------------------------------------------------------------------
(* Questions asked of the records.                                         *)

Exists(d) == state[d] # "ABSENT"

InTask(t) == {d \in Delivery : Exists(d) /\ task[d] = t}

Siblings(d) == InTask(task[d]) \ {d}

\* _active: the latest attempt is still ACTIVE.
Active(d) == fence[d] > 0 /\ attempts[d][fence[d]].state = "ACTIVE"

Unresolved(d) == IsUnresolved(state[d], attempts[d], fence[d])

\* Mutant of StopBlocked: a lease that ran out is taken for a stop.
StopBlockedByHandover(d) ==
  fence[d] > 0 /\ attempts[d][fence[d]].how = "HANDED_OVER" /\ UnconfirmedEnd(attempts[d][fence[d]])

\* stop_blockers: only the latest attempt is looked at.
StopBlocked(d) == fence[d] > 0 /\ UnconfirmedEnd(attempts[d][fence[d]])

\* Mutant of ContinuationAllowed: a delivery that still runs may be continued.
ContinuationOfOpen(t, S) ==
  /\ S \subseteq InTask(t)
  /\ \A p \in InTask(t) : Unresolved(p) => p \in S

\* _check_continuation: what may be continued, and what has to be.
ContinuationAllowed(t, S) ==
  /\ S \subseteq InTask(t)
  /\ \A p \in S : state[p] \in TERMINAL_STATES
  /\ \A p \in InTask(t) : Unresolved(p) => p \in S

\* Mutants of TaskFree: only effects to reconcile block; only active attempts block.
TaskFreeOfReconciliation(d) ==
  \A s \in Siblings(d) : state[s] = "RECONCILIATION_REQUIRED" => s \in continues[d]

TaskFreeOfActive(d) == \A s \in Siblings(d) : ~Active(s)

\* _require_free_task
TaskFree(d) ==
  \A s \in Siblings(d) :
    /\ ~Active(s)
    /\ Unresolved(s) => s \in continues[d]

-----------------------------------------------------------------------------
(* Requester.                                                              *)

\* Mutant of Deliverable: the contract is not claimed exclusively.
DeliverableTwice(d, c, t, r, S) ==
  /\ ~Exists(d)
  /\ r # Sender[d]
  /\ ContinuationAllowed(t, S)

\* Everything deliver_continuity checks before it claims the contract.
Deliverable(d, c, t, r, S) ==
  /\ ~Exists(d)
  /\ r # Sender[d]
  /\ ContinuationAllowed(t, S)
  /\ claims[c] \in {None, d}

\* deliver_continuity: the claim, then the new record.
Deliver(d, c, t, r, S) ==
  /\ Deliverable(d, c, t, r, S)
  /\ claims' = [claims EXCEPT ![c] = d]
  /\ state' = [state EXCEPT ![d] = "DELIVERED"]
  /\ contract' = [contract EXCEPT ![d] = c]
  /\ task' = [task EXCEPT ![d] = t]
  /\ continues' = [continues EXCEPT ![d] = S]
  /\ requester' = [requester EXCEPT ![d] = Sender[d]]
  /\ recipient' = [recipient EXCEPT ![d] = r]
  /\ UNCHANGED <<fence, attempts, cancel, handovers, result, stored, working>>

\* The process dies after it claimed the contract and before the record exists.
ClaimCutOff(d, c, t, r, S) ==
  /\ Deliverable(d, c, t, r, S)
  /\ claims' = [claims EXCEPT ![c] = d]
  /\ UNCHANGED <<record, stored, working>>

\* _close_attempt on the latest attempt of d.
CloseAttempt(d, how, open, cancelled) ==
  /\ attempts' = [attempts EXCEPT ![d][fence[d]] = Closed(@, how, open)]
  /\ state' = [state EXCEPT ![d] = StateAfterClose(cancelled, open)]

\* cancel: the intent, and the closure of an attempt whose lease has run out.
Cancel(d) ==
  /\ Exists(d)
  /\ state[d] # "RESULT_RECORDED"
  /\ cancel' = [cancel EXCEPT ![d] = TRUE]
  /\ \/ /\ Active(d)
        /\ \E open \in BOOLEAN : CloseAttempt(d, "LEASE_EXPIRED", open, TRUE)
     \/ /\ ~cancel[d]
        /\ state' = IF Active(d) THEN state ELSE [state EXCEPT ![d] = "CANCELLED"]
        /\ UNCHANGED attempts
  /\ UNCHANGED <<claims, payload, roles, fence, result, stored, working>>

-----------------------------------------------------------------------------
(* Recipient and executors.                                                *)

\* Mutant of Open: only the state is looked at, not the cancel intent.
OpenByState(d) == Exists(d) /\ state[d] \notin TERMINAL_STATES

\* _require_open
Open(d) == Exists(d) /\ state[d] # "RESULT_RECORDED" /\ ~cancel[d] /\ state[d] # "CANCELLED"

\* start_attempt closes an attempt whose lease has run out and saves that; the stop gate
\* then refuses the start, because nobody has said that the executor stopped.
StartClosesExpired(d) ==
  /\ Open(d)
  /\ Active(d)
  /\ \E open \in BOOLEAN : CloseAttempt(d, "LEASE_EXPIRED", open, FALSE)
  /\ UNCHANGED <<claims, payload, roles, fence, cancel, result, stored, working>>

\* start_attempt: the recipient's claim, from an unchanged baseline.  Its executor runs from here.
StartAttempt(d) ==
  /\ Open(d)
  /\ ~Active(d)
  /\ fence[d] < MaxAttempts
  /\ ~StopBlocked(d)
  /\ TaskFree(d)
  /\ fence' = [fence EXCEPT ![d] = @ + 1]
  /\ attempts' = [attempts EXCEPT ![d][fence[d] + 1] = NewAttempt(recipient[d])]
  /\ state' = [state EXCEPT ![d] = "ATTEMPT_ACTIVE"]
  /\ working' = working \cup {<<d, fence[d] + 1>>}
  /\ UNCHANGED <<claims, payload, roles, cancel, result, stored>>

\* The executor of an attempt stops running (it is done, failed, or was killed).
ExecutorStops(d, n) ==
  /\ <<d, n>> \in working
  /\ working' = working \ {<<d, n>>}
  /\ UNCHANGED <<claims, record, stored>>

\* Mutant of Submittable: what the result id already holds is not compared.
SubmittableOver(d, n, id, body) ==
  /\ n = fence[d]
  /\ state[d] # "RESULT_RECORDED"
  /\ attempts[d][n].state = "ACTIVE" \/ UnconfirmedEnd(attempts[d][n])
  /\ <<d, n>> \notin working

\* What _ingest_result checks before it stores the result content.  A late result is taken
\* for the latest fence only, and only after a closure that its executor did not report.
Submittable(d, n, id, body) ==
  /\ n = fence[d]
  /\ state[d] # "RESULT_RECORDED"
  /\ \/ attempts[d][n].state = "ACTIVE"
     \/ attempts[d][n].state = "ENDED" /\ attempts[d][n].how \in UNCONFIRMED_ENDS
  /\ <<d, n>> \notin working
  /\ stored[id] \in {None, [delivery |-> d, fence |-> n, body |-> body]}

StoreResult(d, n, id, body) ==
  stored' = [stored EXCEPT ![id] = [delivery |-> d, fence |-> n, body |-> body]]

\* submit_result: the result store, then the delivery.
SubmitResult(d, n, id, body) ==
  /\ Submittable(d, n, id, body)
  /\ StoreResult(d, n, id, body)
  /\ attempts' = [attempts EXCEPT ![d][n] = WithResult(@)]
  /\ state' = [state EXCEPT ![d] = "RESULT_RECORDED"]
  /\ result' = [result EXCEPT ![d] =
       [id |-> id, content |-> [delivery |-> d, fence |-> n, body |-> body]]]
  /\ UNCHANGED <<claims, payload, roles, fence, cancel, working>>

\* The process dies after it stored the result and before it saved the delivery.
SubmitCutOff(d, n, id, body) ==
  /\ Submittable(d, n, id, body)
  /\ StoreResult(d, n, id, body)
  /\ UNCHANGED <<claims, record, working>>

\* _report_stop on an active attempt: it ends REPORTED, with the effect UAM observes.
EndAttempt(d, n) ==
  /\ n = fence[d]
  /\ attempts[d][n].state = "ACTIVE"
  /\ <<d, n>> \notin working
  /\ \E open \in BOOLEAN : CloseAttempt(d, "REPORTED", open, cancel[d])
  /\ UNCHANGED <<claims, payload, roles, fence, cancel, result, stored, working>>

\* _report_stop after UAM's own closure: evidence beside the closure, nothing else.
LateStopReport(d, n) ==
  /\ n = fence[d]
  /\ UnconfirmedEnd(attempts[d][n])
  /\ <<d, n>> \notin working
  /\ attempts' = [attempts EXCEPT ![d][n].late_stop = TRUE]
  /\ UNCHANGED <<claims, state, payload, roles, fence, cancel, result, stored, working>>

-----------------------------------------------------------------------------
(* Handover, pushed by the holder or pulled by the successor.              *)

\* Mutant of HandoverAllowed: one handover too many.
HandoverAllowedOnceMore(d, successor) ==
  /\ Exists(d)
  /\ state[d] \notin TERMINAL_STATES
  /\ ~cancel[d]
  /\ successor \notin {requester[d], recipient[d]}
  /\ handovers[d] <= MaxHandovers

HandoverAllowed(d, successor) ==
  /\ Exists(d)
  /\ state[d] \notin TERMINAL_STATES
  /\ ~cancel[d]
  /\ successor \notin {requester[d], recipient[d]}
  /\ handovers[d] < MaxHandovers

HandoverRequester(d, successor) ==
  /\ HandoverAllowed(d, successor)
  /\ requester' = [requester EXCEPT ![d] = successor]
  /\ handovers' = [handovers EXCEPT ![d] = @ + 1]
  /\ UNCHANGED <<claims, state, payload, recipient, fence, attempts, cancel, result, stored, working>>

\* A new recipient: an active attempt is closed, whatever its executor is doing.
HandoverRecipient(d, successor) ==
  /\ HandoverAllowed(d, successor)
  /\ recipient' = [recipient EXCEPT ![d] = successor]
  /\ handovers' = [handovers EXCEPT ![d] = @ + 1]
  /\ IF Active(d)
       THEN \E open \in BOOLEAN : CloseAttempt(d, "HANDED_OVER", open, FALSE)
       ELSE UNCHANGED <<attempts, state>>
  /\ UNCHANGED <<claims, payload, requester, fence, cancel, result, stored, working>>

-----------------------------------------------------------------------------

DeliverNext(d) ==
  \E c \in Contract, t \in Task, r \in Principal, S \in SUBSET Delivery :
    Deliver(d, c, t, r, S) \/ ClaimCutOff(d, c, t, r, S)

ExecutorNext(d) ==
  \E n \in Fence :
    \/ ExecutorStops(d, n)
    \/ EndAttempt(d, n)
    \/ LateStopReport(d, n)
    \/ \E id \in ResultId, body \in Body :
         SubmitResult(d, n, id, body) \/ SubmitCutOff(d, n, id, body)

Next ==
  \E d \in Delivery :
    \/ DeliverNext(d)
    \/ Cancel(d)
    \/ StartClosesExpired(d)
    \/ StartAttempt(d)
    \/ ExecutorNext(d)
    \/ \E successor \in Principal :
         HandoverRequester(d, successor) \/ HandoverRecipient(d, successor)

Spec == Init /\ [][Next]_vars

\* An executor stops at some time, and then says so until it is told that it is recorded.
FairSpec ==
  /\ Spec
  /\ \A d \in Delivery, n \in Fence :
       /\ WF_vars(ExecutorStops(d, n))
       /\ WF_vars(EndAttempt(d, n) \/ LateStopReport(d, n))

-----------------------------------------------------------------------------
(* The rights to execute, as the records show them.                        *)

\* The attempts whose executor has not been confirmed to have stopped.
Unconfirmed ==
  {w \in Delivery \X Fence : w[2] <= fence[w[1]] /\ ~StopConfirmed(attempts[w[1]][w[2]])}

Rights == INSTANCE ExecutionRights WITH
  links <- continues,
  closed <- [d \in Delivery |-> cancel[d] \/ state[d] = "RESULT_RECORDED"],
  issued <- fence,
  rights <- Unconfirmed

-----------------------------------------------------------------------------
(* Properties.                                                             *)

\* The control implements the abstract rights: crashes between two writes, leases that run out,
\* handovers and late reports neither issue a second right nor take one back from its executor.
ImplementsRights == Rights!Spec

\* An executor that really runs holds a right: the record never shows it as stopped.
WorkingIsUnconfirmed == working \subseteq Unconfirmed

\* A task never has two active attempts (the single-active rule of _require_free_task).
OneActiveAttemptPerTask ==
  \A d, e \in Delivery : Active(d) /\ Active(e) /\ task[d] = task[e] => d = e

\* Two executors of one task that really run at the same time belong to two deliveries, and the
\* later one names the earlier in `continues`: the owner's authority was shown the open effect.
\* Within one delivery there is never a second executor beside a first, whatever leases and
\* handovers did to its attempts (the stop gate of _attempt_gate).
UnlinkedExecutorsNeverOverlap ==
  \A w, v \in working :
    w # v /\ task[w[1]] = task[v[1]] =>
      /\ w[1] # v[1]
      /\ w[1] \in continues[v[1]] \/ v[1] \in continues[w[1]]

\* While a delivery has an active attempt, every sibling it does not continue is settled, also
\* when that sibling was delivered, cancelled, handed over or reported on after the start.
ActiveWhileSiblingsSettled ==
  \A d \in Delivery : Active(d) =>
    \A s \in Siblings(d) : ~Active(s) /\ (Unresolved(s) => s \in continues[d])

\* Every attempt before the latest is confirmed to have stopped: what lets stop_blockers look at
\* the latest attempt only.
OnlyLatestUnconfirmed ==
  \A d \in Delivery, n \in Fence : n < fence[d] => StopConfirmed(attempts[d][n])

RecordConsistent(d) ==
  /\ state[d] = "ABSENT" <=> task[d] = None
  /\ state[d] = "ABSENT" => fence[d] = 0 /\ ~cancel[d]
  /\ state[d] = "ATTEMPT_ACTIVE" <=> Active(d)
  /\ state[d] = "RESULT_RECORDED" <=> result[d] # None
  /\ state[d] = "CANCELLED" => cancel[d]
  /\ cancel[d] => state[d] \in {"ATTEMPT_ACTIVE"} \cup TERMINAL_STATES
  /\ \A n \in Fence : n <= fence[d] => WellFormed(attempts[d][n])

\* The state of a delivery agrees with its attempts, cancel intent and result, which the code
\* writes in different places of one record.
StateMatchesRecord == \A d \in Delivery : RecordConsistent(d)

\* One delivery per contract, across crashes between the claim and the record.
OneDeliveryPerContract ==
  \A d \in Delivery : Exists(d) => contract[d] \in Contract /\ claims[contract[d]] = d

\* A recorded result is the content that the result store holds under its id, and was made by the
\* latest attempt of that delivery: a retry after a crash or a lost answer never records another.
RecordedResultIsStored ==
  \A d \in Delivery : result[d] # None =>
    /\ stored[result[d].id] = result[d].content
    /\ result[d].content.delivery = d
    /\ fence[d] > 0 /\ result[d].content.fence = fence[d]
    /\ attempts[d][fence[d]].state = "RESULT_RECORDED"

\* What a delivery continues is finished or cancelled for good, and belongs to its task.
PredecessorsTerminal ==
  \A d \in Delivery : \A p \in continues[d] :
    state[p] \in TERMINAL_STATES /\ task[p] = task[d]

\* A recorded result settles a delivery: nothing of its record changes any more, whoever calls.
ResultIsFinal ==
  [][\A d \in Delivery : state[d] = "RESULT_RECORDED" =>
       UNCHANGED <<state[d], attempts[d], fence[d], result[d], cancel[d], recipient[d], requester[d]>>]_vars

\* A cancel intent blocks every later claim and is never withdrawn; all that can still happen is
\* that the attempt is closed, its stop is reported, or its result arrives.
CancelBlocksClaims ==
  [][\A d \in Delivery : cancel[d] =>
       /\ cancel'[d]
       /\ fence'[d] = fence[d]
       /\ state'[d] \in {state[d]} \cup TERMINAL_STATES]_vars

\* Late evidence stands beside a closure, never over it: an attempt that ended keeps how it ended
\* and the effect UAM observed then.
ClosureIsKept ==
  [][\A d \in Delivery, n \in Fence : attempts[d][n].state = "ENDED" =>
       /\ attempts'[d][n].state # "ACTIVE"
       /\ attempts'[d][n].how = attempts[d][n].how
       /\ attempts'[d][n].open = attempts[d][n].open]_vars

\* Whatever leases, handovers and cancels did to an attempt, its executor's report is still taken:
\* no attempt stays unconfirmed for ever, so no task is blocked by UAM's own closures.
EveryStopIsRecorded ==
  \A d \in Delivery, n \in Fence :
    <<d, n>> \in Unconfirmed ~> StopConfirmed(attempts[d][n])

=============================================================================
