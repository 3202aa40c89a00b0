--------------------------- MODULE DeliveryRecord ---------------------------
(***************************************************************************)
(* The attempt records of one delivery and the questions the two task      *)
(* controls ask of them (task_control.py, task_continuity.py): pure        *)
(* operators, no state.                                                    *)
(*                                                                         *)
(* An attempt is named by its fence: start_attempt appends the attempt and *)
(* advances the fence in one save, so the list of attempts is a function   *)
(* on 1..MaxAttempts whose entries above the fence are NoAttempt.          *)
(*                                                                         *)
(* Abstracted: timestamps, notes and observations are dropped; the effects *)
(* PARTIAL_EFFECT_OBSERVED and EFFECT_UNKNOWN are one value ("open"),      *)
(* because every guard only compares with NO_EFFECT_OBSERVED; a reported   *)
(* outcome is not kept, because no guard but the idempotent repeat reads   *)
(* it.                                                                     *)
(***************************************************************************)
EXTENDS Integers

CONSTANTS
  Principal,    \* configured principal names (requesters, recipients, successors)
  None,         \* "no value": JSON null
  MaxAttempts   \* MAX_ATTEMPTS

ASSUME NoneAssumption == None \notin Principal
ASSUME MaxAttemptsAssumption == MaxAttempts \in Nat \ {0}

Fence == 1..MaxAttempts

AttemptState == {"NONE", "ACTIVE", "ENDED", "RESULT_RECORDED"}

EndHow == {"NONE", "RESULT", "REPORTED", "LEASE_EXPIRED", "HANDED_OVER"}

\* The closures that UAM writes itself: they never show that an executor stopped.
UNCONFIRMED_ENDS == {"LEASE_EXPIRED", "HANDED_OVER"}

TERMINAL_STATES == {"RESULT_RECORDED", "CANCELLED"}

DeliveryState ==
  {"ABSENT", "DELIVERED", "ATTEMPT_ACTIVE", "RECONCILIATION_REQUIRED"} \cup TERMINAL_STATES

(***************************************************************************)
(* open: UAM did not observe NO_EFFECT when it closed the attempt.         *)
(* late_stop: the executor reported its stop after UAM's own closure.      *)
(***************************************************************************)
Attempt ==
  [executor: Principal \cup {None}, state: AttemptState, how: EndHow,
   open: BOOLEAN, late_stop: BOOLEAN]

NoAttempt ==
  [executor |-> None, state |-> "NONE", how |-> "NONE", open |-> FALSE, late_stop |-> FALSE]

NewAttempt(principal) == [NoAttempt EXCEPT !.executor = principal, !.state = "ACTIVE"]

\* What _close_attempt writes into the attempt.
Closed(attempt, how, open) ==
  [attempt EXCEPT !.state = "ENDED", !.how = how, !.open = open]

\* Mutant of StateAfterClose: the cancel intent is forgotten.
StateAfterCloseOfAnyone(cancelled, open) ==
  IF open THEN "RECONCILIATION_REQUIRED" ELSE "DELIVERED"

\* The state of the delivery after _close_attempt.
StateAfterClose(cancelled, open) ==
  IF cancelled THEN "CANCELLED"
  ELSE IF open THEN "RECONCILIATION_REQUIRED" ELSE "DELIVERED"

\* Mutants of WithResult: the attempt is left as it is; the closure is overwritten.
WithResultBeside(attempt) == attempt

WithResultOver(attempt) == [attempt EXCEPT !.state = "RESULT_RECORDED", !.how = "RESULT"]

\* A result keeps an earlier closure as it was recorded; it only ends an active attempt.
WithResult(attempt) ==
  [attempt EXCEPT !.state = "RESULT_RECORDED",
                  !.how = IF attempt.state = "ACTIVE" THEN "RESULT" ELSE @]

\* Mutant of UnconfirmedEnd: only a lease that ran out counts, a handover is forgotten.
UnconfirmedLease(attempt) ==
  attempt.state = "ENDED" /\ attempt.how = "LEASE_EXPIRED" /\ ~attempt.late_stop

\* unconfirmed_end: UAM closed the attempt and its executor never said it stopped.
UnconfirmedEnd(attempt) ==
  /\ attempt.state = "ENDED"
  /\ attempt.how \in UNCONFIRMED_ENDS
  /\ ~attempt.late_stop

\* Mutant of StopConfirmed: a handover is taken for a stop.
StopConfirmedByHandover(attempt) ==
  \/ attempt.state = "RESULT_RECORDED"
  \/ attempt.state = "ENDED" /\ (attempt.how # "LEASE_EXPIRED" \/ attempt.late_stop)

\* attempt_stop_evidence is one of _CONFIRMED_STOPS.
StopConfirmed(attempt) ==
  \/ attempt.state = "RESULT_RECORDED"
  \/ attempt.state = "ENDED" /\ (attempt.how = "REPORTED" \/ attempt.late_stop)

\* The shape of an attempt that was made: it never has half of a closure.
WellFormed(attempt) ==
  /\ attempt.state # "NONE"
  /\ attempt.state = "ENDED" => attempt.how \in {"REPORTED"} \cup UNCONFIRMED_ENDS
  /\ attempt.state = "ACTIVE" => ~attempt.late_stop

\* Mutant of IsUnresolved: an attempt without an observed effect is settled, stopped or not.
IsUnresolvedByEffect(state, attempts, fence) ==
  /\ state # "RESULT_RECORDED"
  /\ fence > 0
  /\ attempts[fence].state # "ENDED" \/ attempts[fence].open

(***************************************************************************)
(* is_unresolved: an effect of the delivery is still open, so that a new   *)
(* contract of the same task could drop it.  attempts[1..fence] are the    *)
(* attempts made so far.                                                   *)
(***************************************************************************)
IsUnresolved(state, attempts, fence) ==
  /\ state # "RESULT_RECORDED"
  /\ fence > 0
  /\ \/ attempts[fence].state # "ENDED"
     \/ attempts[fence].open
     \/ \E n \in 1..fence : ~StopConfirmed(attempts[n])

=============================================================================
