------------------------ MODULE TaskContinuityProofs ------------------------
(* Theorems about TaskContinuity, for every value of its constants.        *)
EXTENDS TaskContinuity, TLAPS

USE NoneAssumption, MaxAttemptsAssumption, SenderAssumption, MaxHandoversAssumption, NoneIsNothing

LEMMA AttemptTypes ==
  /\ NoAttempt \in Attempt
  /\ \A p \in Principal \cup {None} : NewAttempt(p) \in Attempt
  /\ \A a \in Attempt, how \in EndHow, open \in BOOLEAN : Closed(a, how, open) \in Attempt
  /\ \A a \in Attempt : WithResult(a) \in Attempt
  /\ \A a \in Attempt : [a EXCEPT !.late_stop = TRUE] \in Attempt
BY DEF Attempt, NoAttempt, NewAttempt, Closed, WithResult, AttemptState, EndHow

\* Replacing one attempt of one delivery keeps the type of the attempts.
LEMMA AttemptsType ==
  ASSUME NEW A \in [Delivery -> [Fence -> Attempt]], NEW d \in Delivery, NEW n \in Fence,
         NEW a \in Attempt
  PROVE  [A EXCEPT ![d][n] = a] \in [Delivery -> [Fence -> Attempt]]
OBVIOUS

LEMMA CloseAttemptType ==
  ASSUME TypeOK, NEW d \in Delivery, fence[d] \in Fence, NEW how \in EndHow, NEW open \in BOOLEAN,
         NEW cancelled \in BOOLEAN, CloseAttempt(d, how, open, cancelled)
  PROVE  /\ attempts' \in [Delivery -> [Fence -> Attempt]]
         /\ state' \in [Delivery -> DeliveryState]
<1>1. Closed(attempts[d][fence[d]], how, open) \in Attempt
  BY AttemptTypes DEF TypeOK
<1>2. attempts' \in [Delivery -> [Fence -> Attempt]]
  BY <1>1 DEF TypeOK, CloseAttempt
<1>3. state' \in [Delivery -> DeliveryState]
  BY DEF TypeOK, CloseAttempt, StateAfterClose, DeliveryState, TERMINAL_STATES
<1> QED BY <1>2, <1>3

\* The attempt that an action on the latest attempt of a delivery touches exists.
LEMMA LatestInFence ==
  ASSUME TypeOK, NEW d \in Delivery, fence[d] > 0
  PROVE  fence[d] \in Fence
BY DEF TypeOK, Fence

LEMMA InitType == Init => TypeOK
BY AttemptTypes DEF Init, TypeOK, DeliveryState, Fence

LEMMA DeliverType ==
  ASSUME TypeOK, NEW d \in Delivery, NEW c \in Contract, NEW t \in Task, NEW r \in Principal,
         NEW S \in SUBSET Delivery, Deliver(d, c, t, r, S) \/ ClaimCutOff(d, c, t, r, S)
  PROVE  TypeOK'
<1>1. claims' \in [Contract -> Delivery \cup {None}]
  BY DEF Deliver, ClaimCutOff, TypeOK
<1>2. CASE Deliver(d, c, t, r, S)
  <2>1. state' \in [Delivery -> DeliveryState]
    BY <1>2 DEF Deliver, TypeOK, DeliveryState
  <2>2. requester' \in [Delivery -> Principal \cup {None}]
    BY <1>2 DEF Deliver, TypeOK
  <2> QED BY <1>1, <1>2, <2>1, <2>2 DEF Deliver, TypeOK
<1>3. CASE ClaimCutOff(d, c, t, r, S)
  BY <1>1, <1>3 DEF ClaimCutOff, TypeOK, record, payload, roles
<1> QED BY <1>2, <1>3

LEMMA CancelType ==
  ASSUME TypeOK, NEW d \in Delivery, Cancel(d)
  PROVE  TypeOK'
<1>1. /\ attempts' \in [Delivery -> [Fence -> Attempt]]
      /\ state' \in [Delivery -> DeliveryState]
  <2>1. CASE Active(d) /\ \E open \in BOOLEAN : CloseAttempt(d, "LEASE_EXPIRED", open, TRUE)
    <3>1. PICK open \in BOOLEAN : CloseAttempt(d, "LEASE_EXPIRED", open, TRUE)
      BY <2>1
    <3> QED BY <2>1, <3>1, CloseAttemptType, LatestInFence DEF Active, EndHow
  <2>2. CASE ~(Active(d) /\ \E open \in BOOLEAN : CloseAttempt(d, "LEASE_EXPIRED", open, TRUE))
    BY <2>2 DEF Cancel, TypeOK, DeliveryState, TERMINAL_STATES
  <2> QED BY <2>1, <2>2
<1> QED BY <1>1 DEF Cancel, TypeOK, payload, roles

LEMMA StartClosesExpiredType ==
  ASSUME TypeOK, NEW d \in Delivery, StartClosesExpired(d)
  PROVE  TypeOK'
<1>1. PICK open \in BOOLEAN : CloseAttempt(d, "LEASE_EXPIRED", open, FALSE)
  BY DEF StartClosesExpired
<1>2. /\ attempts' \in [Delivery -> [Fence -> Attempt]]
      /\ state' \in [Delivery -> DeliveryState]
  BY <1>1, CloseAttemptType, LatestInFence DEF StartClosesExpired, Active, EndHow
<1> QED BY <1>2 DEF StartClosesExpired, TypeOK, payload, roles

LEMMA StartAttemptType ==
  ASSUME TypeOK, NEW d \in Delivery, StartAttempt(d)
  PROVE  TypeOK'
<1>1. fence[d] + 1 \in Fence /\ fence' \in [Delivery -> 0..MaxAttempts]
  BY DEF StartAttempt, TypeOK, Fence
<1>2. attempts' \in [Delivery -> [Fence -> Attempt]]
  <2>1. NewAttempt(recipient[d]) \in Attempt
    BY AttemptTypes DEF TypeOK
  <2> QED BY <1>1, <2>1 DEF StartAttempt, TypeOK
<1>3. state' \in [Delivery -> DeliveryState] /\ working' \subseteq Delivery \X Fence
  BY <1>1 DEF StartAttempt, TypeOK, DeliveryState
<1> QED BY <1>1, <1>2, <1>3 DEF StartAttempt, TypeOK, payload, roles

LEMMA ResultType ==
  ASSUME TypeOK, NEW d \in Delivery, NEW n \in Fence, NEW id \in ResultId, NEW body \in Body,
         SubmitResult(d, n, id, body) \/ SubmitCutOff(d, n, id, body)
  PROVE  TypeOK'
<1>1. [delivery |-> d, fence |-> n, body |-> body] \in Submission
  BY DEF Submission
<1>2. stored' \in [ResultId -> Submission \cup {None}]
  BY <1>1 DEF SubmitResult, SubmitCutOff, StoreResult, TypeOK
<1>3. CASE SubmitCutOff(d, n, id, body)
  BY <1>2, <1>3 DEF SubmitCutOff, TypeOK, record, payload, roles
<1>4. CASE SubmitResult(d, n, id, body)
  <2>1. attempts' \in [Delivery -> [Fence -> Attempt]]
    <3>1. WithResult(attempts[d][n]) \in Attempt
      BY AttemptTypes DEF TypeOK
    <3> QED BY <1>4, <3>1 DEF SubmitResult, TypeOK
  <2>2. [id |-> id, content |-> [delivery |-> d, fence |-> n, body |-> body]] \in Recorded
    BY <1>1 DEF Recorded
  <2>3. result' \in [Delivery -> Recorded \cup {None}]
    BY <1>4, <2>2 DEF SubmitResult, TypeOK
  <2>4. state' \in [Delivery -> DeliveryState]
    BY <1>4 DEF SubmitResult, TypeOK, DeliveryState, TERMINAL_STATES
  <2> QED BY <1>2, <1>4, <2>1, <2>3, <2>4 DEF SubmitResult, TypeOK, payload, roles
<1> QED BY <1>3, <1>4

LEMMA StopType ==
  ASSUME TypeOK, NEW d \in Delivery, NEW n \in Fence,
         ExecutorStops(d, n) \/ EndAttempt(d, n) \/ LateStopReport(d, n)
  PROVE  TypeOK'
<1>1. CASE ExecutorStops(d, n)
  BY <1>1 DEF ExecutorStops, TypeOK, record, payload, roles
<1>2. CASE EndAttempt(d, n)
  <2>1. PICK open \in BOOLEAN : CloseAttempt(d, "REPORTED", open, cancel[d])
    BY <1>2 DEF EndAttempt
  <2>2. fence[d] \in Fence /\ cancel[d] \in BOOLEAN
    BY <1>2 DEF EndAttempt, TypeOK
  <2>3. /\ attempts' \in [Delivery -> [Fence -> Attempt]]
        /\ state' \in [Delivery -> DeliveryState]
    BY <2>1, <2>2, CloseAttemptType DEF EndHow
  <2> QED BY <1>2, <2>3 DEF EndAttempt, TypeOK, payload, roles
<1>3. CASE LateStopReport(d, n)
  <2>1. [attempts[d][n] EXCEPT !.late_stop = TRUE] \in Attempt
    BY AttemptTypes DEF TypeOK
  <2>2. attempts' = [attempts EXCEPT ![d][n] = [attempts[d][n] EXCEPT !.late_stop = TRUE]]
    BY <1>3 DEF LateStopReport, TypeOK
  <2> QED BY <1>3, <2>1, <2>2, AttemptsType DEF LateStopReport, TypeOK, payload, roles
<1> QED BY <1>1, <1>2, <1>3

LEMMA HandoverType ==
  ASSUME TypeOK, NEW d \in Delivery, NEW successor \in Principal,
         HandoverRequester(d, successor) \/ HandoverRecipient(d, successor)
  PROVE  TypeOK'
<1>1. handovers' \in [Delivery -> 0..MaxHandovers]
  <2>1. handovers' = [handovers EXCEPT ![d] = @ + 1] /\ handovers[d] < MaxHandovers
    BY DEF HandoverRequester, HandoverRecipient, HandoverAllowed
  <2>2. handovers \in [Delivery -> 0..MaxHandovers]
    BY DEF TypeOK
  <2> QED BY <2>1, <2>2
<1>2. CASE HandoverRequester(d, successor)
  BY <1>1, <1>2 DEF HandoverRequester, TypeOK, payload
<1>3. CASE HandoverRecipient(d, successor)
  <2>1. /\ attempts' \in [Delivery -> [Fence -> Attempt]]
        /\ state' \in [Delivery -> DeliveryState]
    <3>1. CASE Active(d)
      <4>1. PICK open \in BOOLEAN : CloseAttempt(d, "HANDED_OVER", open, FALSE)
        BY <1>3, <3>1 DEF HandoverRecipient
      <4> QED BY <3>1, <4>1, CloseAttemptType, LatestInFence DEF Active, EndHow
    <3>2. CASE ~Active(d)
      BY <1>3, <3>2 DEF HandoverRecipient, TypeOK
    <3> QED BY <3>1, <3>2
  <2> QED BY <1>1, <1>3, <2>1 DEF HandoverRecipient, TypeOK, payload
<1> QED BY <1>2, <1>3

LEMMA NextType == TypeOK /\ [Next]_vars => TypeOK'
<1>1. ASSUME TypeOK, Next PROVE TypeOK'
  BY <1>1, DeliverType, CancelType, StartClosesExpiredType, StartAttemptType, ResultType,
     StopType, HandoverType DEF Next, DeliverNext, ExecutorNext
<1>2. ASSUME TypeOK, UNCHANGED vars PROVE TypeOK'
  BY <1>2 DEF TypeOK, vars, record, payload, roles
<1> QED BY <1>1, <1>2

\* Every variable keeps its type in every behaviour (TypeOK).
THEOREM TypeInvariant == Spec => []TypeOK
BY InitType, NextType, PTL DEF Spec


-----------------------------------------------------------------------------
(* What each step does to the records, delivery by delivery.               *)

\* Nothing of the record of e changes that the invariants look at.
Same(e) ==
  /\ state'[e] = state[e]
  /\ contract'[e] = contract[e]
  /\ task'[e] = task[e]
  /\ continues'[e] = continues[e]
  /\ fence'[e] = fence[e]
  /\ attempts'[e] = attempts[e]
  /\ cancel'[e] = cancel[e]
  /\ result'[e] = result[e]

LEMMA CloseEffect ==
  ASSUME TypeOK, NEW d \in Delivery, Active(d), NEW how \in EndHow, NEW open \in BOOLEAN,
         NEW cancelled \in BOOLEAN, CloseAttempt(d, how, open, cancelled)
  PROVE  /\ \A e \in Delivery : e # d => state'[e] = state[e] /\ attempts'[e] = attempts[e]
         /\ state'[d] = StateAfterClose(cancelled, open)
         /\ fence[d] \in Fence
         /\ \A n \in Fence : n # fence[d] => attempts'[d][n] = attempts[d][n]
         /\ attempts'[d][fence[d]].executor = attempts[d][fence[d]].executor
         /\ attempts'[d][fence[d]].state = "ENDED"
         /\ attempts'[d][fence[d]].how = how
         /\ attempts'[d][fence[d]].open = open
         /\ attempts'[d][fence[d]].late_stop = attempts[d][fence[d]].late_stop
<1>1. fence[d] \in Fence
  BY LatestInFence DEF Active
<1>2. attempts[d][fence[d]] \in Attempt
  BY <1>1 DEF TypeOK
<1>3. /\ attempts'[d][fence[d]] = Closed(attempts[d][fence[d]], how, open)
      /\ \A n \in Fence : n # fence[d] => attempts'[d][n] = attempts[d][n]
      /\ \A e \in Delivery : e # d => attempts'[e] = attempts[e]
  BY <1>1 DEF CloseAttempt, TypeOK
<1>4. /\ state'[d] = StateAfterClose(cancelled, open)
      /\ \A e \in Delivery : e # d => state'[e] = state[e]
  BY DEF CloseAttempt, TypeOK
<1> QED BY <1>1, <1>2, <1>3, <1>4 DEF Closed, Attempt

\* A closure by UAM or by the executor: a delivery with a closed attempt in place of an active one.
CloseStep(d, how, open, cancelled) ==
  /\ Active(d)
  /\ CloseAttempt(d, how, open, cancelled)
  /\ UNCHANGED <<claims, payload, fence, result, stored, working>>
  /\ cancel' = [cancel EXCEPT ![d] = cancelled]

LEMMA CancelSteps ==
  ASSUME TypeOK, NEW d \in Delivery, Cancel(d)
  PROVE  \/ \E open \in BOOLEAN : CloseStep(d, "LEASE_EXPIRED", open, TRUE)
         \/ /\ ~cancel[d]
            /\ cancel' = [cancel EXCEPT ![d] = TRUE]
            /\ state' = IF Active(d) THEN state ELSE [state EXCEPT ![d] = "CANCELLED"]
            /\ UNCHANGED <<claims, payload, fence, attempts, result, stored, working>>
BY DEF Cancel, CloseStep

LEMMA StartClosesSteps ==
  ASSUME TypeOK, NEW d \in Delivery, StartClosesExpired(d)
  PROVE  \E open \in BOOLEAN : CloseStep(d, "LEASE_EXPIRED", open, FALSE)
<1>1. cancel' = [cancel EXCEPT ![d] = FALSE]
  BY DEF StartClosesExpired, Open, TypeOK
<1> QED BY <1>1 DEF StartClosesExpired, CloseStep

LEMMA EndSteps ==
  ASSUME TypeOK, NEW d \in Delivery, NEW n \in Fence, EndAttempt(d, n)
  PROVE  \E open \in BOOLEAN : CloseStep(d, "REPORTED", open, cancel[d])
<1>1. cancel' = [cancel EXCEPT ![d] = cancel[d]] /\ Active(d)
  BY DEF EndAttempt, TypeOK, Active, Fence
<1> QED BY <1>1 DEF EndAttempt, CloseStep

LEMMA HandoverSteps ==
  ASSUME TypeOK, NEW d \in Delivery, NEW successor \in Principal,
         HandoverRequester(d, successor) \/ HandoverRecipient(d, successor)
  PROVE  \/ \E open \in BOOLEAN : CloseStep(d, "HANDED_OVER", open, FALSE)
         \/ UNCHANGED <<claims, state, payload, fence, attempts, cancel, result, stored, working>>
<1>1. cancel' = [cancel EXCEPT ![d] = FALSE]
  <2>1. cancel' = cancel /\ ~cancel[d]
    BY DEF HandoverRequester, HandoverRecipient, HandoverAllowed
  <2>2. cancel \in [Delivery -> BOOLEAN]
    BY DEF TypeOK
  <2> QED BY <2>1, <2>2
<1>2. CASE HandoverRequester(d, successor)
  BY <1>2 DEF HandoverRequester
<1>3. CASE HandoverRecipient(d, successor)
  BY <1>1, <1>3 DEF HandoverRecipient, CloseStep
<1> QED BY <1>2, <1>3


\* A cancel intent beside an attempt that goes on, or that there is none of.
CancelIntent(d) ==
  /\ Exists(d)
  /\ state[d] # "RESULT_RECORDED"
  /\ ~cancel[d]
  /\ cancel' = [cancel EXCEPT ![d] = TRUE]
  /\ state' = IF Active(d) THEN state ELSE [state EXCEPT ![d] = "CANCELLED"]
  /\ UNCHANGED <<claims, payload, fence, attempts, result, stored, working>>

\* Steps that leave every record alone: an executor stops, a handover without an active attempt.
RecordsKept ==
  /\ UNCHANGED <<claims, state, payload, fence, attempts, cancel, result, stored>>
  /\ working' \subseteq working

\* Every step is of one of these kinds; the invariants are proved kind by kind.
LEMMA StepKinds ==
  ASSUME TypeOK, [Next]_vars
  PROVE  \/ RecordsKept
         \/ \E d \in Delivery :
              \/ \E c \in Contract, t \in Task, r \in Principal, S \in SUBSET Delivery :
                   Deliver(d, c, t, r, S) \/ ClaimCutOff(d, c, t, r, S)
              \/ CancelIntent(d)
              \/ \E how \in {"LEASE_EXPIRED", "HANDED_OVER"}, open \in BOOLEAN :
                   CloseStep(d, how, open, cancel[d]) \/ CloseStep(d, how, open, TRUE)
              \/ \E n \in Fence, open \in BOOLEAN :
                   n = fence[d] /\ <<d, n>> \notin working /\ CloseStep(d, "REPORTED", open, cancel[d])
              \/ StartAttempt(d)
              \/ \E n \in Fence : LateStopReport(d, n)
              \/ \E n \in Fence, id \in ResultId, body \in Body :
                   SubmitResult(d, n, id, body) \/ SubmitCutOff(d, n, id, body)
<1>1. CASE UNCHANGED vars
  BY <1>1 DEF vars, record, payload, RecordsKept
<1>2. ASSUME NEW d \in Delivery, Cancel(d)
      PROVE  \/ \E open \in BOOLEAN : CloseStep(d, "LEASE_EXPIRED", open, TRUE)
             \/ CancelIntent(d)
  BY <1>2, CancelSteps DEF CancelIntent, Cancel
<1>3. ASSUME NEW d \in Delivery, StartClosesExpired(d)
      PROVE  \E open \in BOOLEAN : CloseStep(d, "LEASE_EXPIRED", open, cancel[d])
  <2>1. cancel[d] = FALSE
    BY <1>3 DEF StartClosesExpired, Open, TypeOK
  <2> QED BY <1>3, <2>1, StartClosesSteps
<1>4. ASSUME NEW d \in Delivery, NEW n \in Fence, EndAttempt(d, n)
      PROVE  \E open \in BOOLEAN :
               n = fence[d] /\ <<d, n>> \notin working /\ CloseStep(d, "REPORTED", open, cancel[d])
  BY <1>4, EndSteps DEF EndAttempt
<1>5. ASSUME NEW d \in Delivery, NEW q \in Principal, HandoverRequester(d, q) \/ HandoverRecipient(d, q)
      PROVE  \/ \E open \in BOOLEAN : CloseStep(d, "HANDED_OVER", open, cancel[d])
             \/ RecordsKept
  <2>1. cancel[d] = FALSE
    BY <1>5 DEF HandoverRequester, HandoverRecipient, HandoverAllowed, TypeOK
  <2> QED BY <1>5, <2>1, HandoverSteps DEF RecordsKept
<1>6. ASSUME NEW d \in Delivery, NEW n \in Fence, ExecutorStops(d, n)
      PROVE  RecordsKept
  BY <1>6 DEF ExecutorStops, record, RecordsKept
<1>7. CASE Next
  <2>1. PICK d \in Delivery :
          \/ DeliverNext(d)
          \/ Cancel(d)
          \/ StartClosesExpired(d)
          \/ StartAttempt(d)
          \/ ExecutorNext(d)
          \/ \E q \in Principal : HandoverRequester(d, q) \/ HandoverRecipient(d, q)
    BY <1>7 DEF Next
  <2>2. CASE DeliverNext(d)
    BY <2>2 DEF DeliverNext
  <2>3. CASE Cancel(d)
    BY <2>3, <1>2
  <2>4. CASE StartClosesExpired(d)
    BY <2>4, <1>3
  <2>5. CASE StartAttempt(d)
    BY <2>5
  <2>6. CASE ExecutorNext(d)
    BY <2>6, <1>4, <1>6 DEF ExecutorNext
  <2>7. CASE \E q \in Principal : HandoverRequester(d, q) \/ HandoverRecipient(d, q)
    BY <2>7, <1>5
  <2> QED BY <2>1, <2>2, <2>3, <2>4, <2>5, <2>6, <2>7
<1> QED BY <1>1, <1>7


LEMMA StartEffect ==
  ASSUME TypeOK, NEW d \in Delivery, StartAttempt(d)
  PROVE  /\ fence[d] + 1 \in Fence
         /\ fence[d] \in Nat
         /\ fence'[d] = fence[d] + 1
         /\ state'[d] = "ATTEMPT_ACTIVE"
         /\ \A n \in Fence : n # fence[d] + 1 => attempts'[d][n] = attempts[d][n]
         /\ attempts'[d][fence[d] + 1].state = "ACTIVE"
         /\ ~attempts'[d][fence[d] + 1].late_stop
         /\ \A e \in Delivery : e # d => Same(e)
         /\ UNCHANGED <<payload, cancel, result>>
<1>1. fence[d] + 1 \in Fence /\ fence[d] \in Nat
  BY DEF StartAttempt, TypeOK, Fence
<1>2. attempts'[d][fence[d] + 1] = NewAttempt(recipient[d])
  BY <1>1 DEF StartAttempt, TypeOK
<1>3. \A n \in Fence : n # fence[d] + 1 => attempts'[d][n] = attempts[d][n]
  BY <1>1 DEF StartAttempt, TypeOK
<1>4. \A e \in Delivery : e # d => Same(e)
  BY DEF StartAttempt, TypeOK, Same, payload
<1>5. fence'[d] = fence[d] + 1 /\ state'[d] = "ATTEMPT_ACTIVE"
  BY DEF StartAttempt, TypeOK
<1>6. NewAttempt(recipient[d]).state = "ACTIVE" /\ ~NewAttempt(recipient[d]).late_stop
  BY DEF NewAttempt, NoAttempt
<1> QED BY <1>1, <1>2, <1>3, <1>4, <1>5, <1>6 DEF StartAttempt

\* A result settles its delivery and its latest attempt.
LEMMA SubmitEffect ==
  ASSUME TypeOK, NEW d \in Delivery, NEW n \in Fence, NEW id \in ResultId, NEW body \in Body,
         SubmitResult(d, n, id, body)
  PROVE  /\ n = fence[d]
         /\ state'[d] = "RESULT_RECORDED"
         /\ attempts'[d][n].state = "RESULT_RECORDED"
         /\ \A m \in Fence : m # n => attempts'[d][m] = attempts[d][m]
         /\ \A e \in Delivery : e # d => Same(e)
         /\ UNCHANGED <<payload, cancel, fence>>
<1>1. attempts'[d][n] = WithResult(attempts[d][n]) /\ attempts[d][n] \in Attempt
  BY DEF SubmitResult, TypeOK
<1>2. \A m \in Fence : m # n => attempts'[d][m] = attempts[d][m]
  BY DEF SubmitResult, TypeOK
<1>3. \A e \in Delivery : e # d => Same(e)
  BY DEF SubmitResult, TypeOK, Same, payload
<1>4. WithResult(attempts[d][n]).state = "RESULT_RECORDED"
  BY <1>1 DEF WithResult, Attempt
<1>5. state'[d] = "RESULT_RECORDED" /\ n = fence[d]
  BY DEF SubmitResult, Submittable, TypeOK
<1> QED BY <1>1, <1>2, <1>3, <1>4, <1>5 DEF SubmitResult

\* The recorded result is what the store was made to hold under its id.
LEMMA SubmitStores ==
  ASSUME TypeOK, NEW d \in Delivery, NEW n \in Fence, NEW id \in ResultId, NEW body \in Body,
         SubmitResult(d, n, id, body) \/ SubmitCutOff(d, n, id, body)
  PROVE  /\ stored[id] \in {None, stored'[id]}
         /\ \A i \in ResultId : i # id => stored'[i] = stored[i]
         /\ SubmitResult(d, n, id, body) =>
              /\ result'[d] # None
              /\ result'[d].id = id
              /\ result'[d].content = stored'[id]
              /\ stored'[id].delivery = d
              /\ stored'[id].fence = n
<1> DEFINE content == [delivery |-> d, fence |-> n, body |-> body]
<1>1. content.delivery = d /\ content.fence = n
  OBVIOUS
<1>2. [id |-> id, content |-> content] \in Recorded
  BY DEF Recorded, Submission
<1>3. stored'[id] = content /\ \A i \in ResultId : i # id => stored'[i] = stored[i]
  BY DEF SubmitResult, SubmitCutOff, StoreResult, TypeOK
<1>4. stored[id] \in {None, content}
  BY DEF SubmitResult, SubmitCutOff, Submittable
<1>5. [id |-> id, content |-> content].id = id /\ [id |-> id, content |-> content].content = content
  OBVIOUS
<1> HIDE DEF content
<1>6. SubmitResult(d, n, id, body) => result'[d] = [id |-> id, content |-> content]
  BY DEF SubmitResult, TypeOK, content
<1> QED BY <1>1, <1>2, <1>3, <1>4, <1>5, <1>6

LEMMA LateStopEffect ==
  ASSUME TypeOK, NEW d \in Delivery, NEW n \in Fence, LateStopReport(d, n)
  PROVE  /\ \A m \in Fence : m # n => attempts'[d][m] = attempts[d][m]
         /\ attempts[d][n].state = "ENDED"
         /\ attempts'[d][n].state = "ENDED"
         /\ attempts'[d][n].how = attempts[d][n].how
         /\ attempts'[d][n].open = attempts[d][n].open
         /\ attempts'[d][n].late_stop
         /\ n = fence[d]
         /\ \A e \in Delivery : e # d => Same(e)
         /\ UNCHANGED <<claims, state, payload, fence, cancel, result, stored, working>>
<1>1. attempts[d][n] \in Attempt /\ attempts[d][n].state = "ENDED" /\ n = fence[d]
  BY DEF LateStopReport, UnconfirmedEnd, TypeOK
<1>2. attempts'[d][n] = [attempts[d][n] EXCEPT !.late_stop = TRUE]
  BY DEF LateStopReport, TypeOK
<1>3. \A m \in Fence : m # n => attempts'[d][m] = attempts[d][m]
  BY DEF LateStopReport, TypeOK
<1>4. \A e \in Delivery : e # d => Same(e)
  BY DEF LateStopReport, TypeOK, Same, payload
<1> QED BY <1>1, <1>2, <1>3, <1>4 DEF LateStopReport, Attempt

LEMMA CloseStepEffect ==
  ASSUME TypeOK, NEW d \in Delivery, NEW how \in EndHow, NEW open \in BOOLEAN,
         NEW cancelled \in BOOLEAN, CloseStep(d, how, open, cancelled)
  PROVE  /\ \A e \in Delivery : e # d => Same(e)
         /\ fence[d] \in Fence
         /\ attempts[d][fence[d]].state = "ACTIVE"
         /\ cancel'[d] = cancelled
         /\ UNCHANGED <<claims, payload, fence, result, stored, working>>
<1>1. \A e \in Delivery : e # d => cancel'[e] = cancel[e]
  BY DEF CloseStep, TypeOK
<1>2. cancel'[d] = cancelled
  BY DEF CloseStep, TypeOK
<1>3. UNCHANGED <<claims, payload, fence, result, stored, working>>
  BY DEF CloseStep
<1>4. \A e \in Delivery : e # d => state'[e] = state[e] /\ attempts'[e] = attempts[e]
  BY CloseEffect DEF CloseStep
<1>5. \A e \in Delivery : e # d => Same(e)
  BY <1>1, <1>3, <1>4 DEF Same, payload
<1> QED BY <1>2, <1>3, <1>5, LatestInFence DEF CloseStep, Active

\* The kinds of a step, as one delivery sees them.
LEMMA DeliverySteps ==
  ASSUME TypeOK, [Next]_vars, NEW e \in Delivery
  PROVE  \/ Same(e)
         \/ \E c \in Contract, t \in Task, r \in Principal, S \in SUBSET Delivery :
              Deliver(e, c, t, r, S)
         \/ CancelIntent(e)
         \/ \E how \in {"LEASE_EXPIRED", "HANDED_OVER"}, open \in BOOLEAN, cancelled \in BOOLEAN :
              (cancel[e] => cancelled) /\ CloseStep(e, how, open, cancelled)
         \/ \E n \in Fence, open \in BOOLEAN :
              n = fence[e] /\ <<e, n>> \notin working /\ CloseStep(e, "REPORTED", open, cancel[e])
         \/ StartAttempt(e)
         \/ \E n \in Fence : LateStopReport(e, n)
         \/ \E n \in Fence, id \in ResultId, body \in Body : SubmitResult(e, n, id, body)
<1>1. CASE RecordsKept
  BY <1>1 DEF RecordsKept, Same, payload
<1>2. ASSUME NEW d \in Delivery, NEW c \in Contract, NEW t \in Task, NEW r \in Principal,
             NEW S \in SUBSET Delivery, Deliver(d, c, t, r, S), e # d
      PROVE  Same(e)
  BY <1>2 DEF Deliver, Same, TypeOK
<1>3. ASSUME NEW d \in Delivery, NEW c \in Contract, NEW t \in Task, NEW r \in Principal,
             NEW S \in SUBSET Delivery, ClaimCutOff(d, c, t, r, S)
      PROVE  Same(e)
  BY <1>3 DEF ClaimCutOff, Same, record, payload
<1>4. ASSUME NEW d \in Delivery, CancelIntent(d), e # d PROVE Same(e)
  BY <1>4 DEF CancelIntent, Same, TypeOK, payload
<1>5. ASSUME NEW d \in Delivery, NEW how \in {"REPORTED", "LEASE_EXPIRED", "HANDED_OVER"},
             NEW open \in BOOLEAN, NEW cancelled \in BOOLEAN, CloseStep(d, how, open, cancelled),
             e # d
      PROVE  Same(e)
  <2>1. how \in EndHow
    BY DEF EndHow
  <2>2. \A x \in Delivery : x # d => Same(x)
    BY <1>5, <2>1, CloseStepEffect
  <2> QED BY <1>5, <2>2
<1>6. ASSUME NEW d \in Delivery, StartAttempt(d), e # d PROVE Same(e)
  BY <1>6, StartEffect
<1>7. ASSUME NEW d \in Delivery, NEW n \in Fence, LateStopReport(d, n), e # d PROVE Same(e)
  BY <1>7, LateStopEffect
<1>8. ASSUME NEW d \in Delivery, NEW n \in Fence, NEW id \in ResultId, NEW body \in Body,
             SubmitResult(d, n, id, body), e # d
      PROVE  Same(e)
  BY <1>8, SubmitEffect
<1>9. ASSUME NEW d \in Delivery, NEW n \in Fence, NEW id \in ResultId, NEW body \in Body,
             SubmitCutOff(d, n, id, body)
      PROVE  Same(e)
  BY <1>9 DEF SubmitCutOff, Same, record, payload
<1>10. \A d \in Delivery : cancel[d] \in BOOLEAN
  BY DEF TypeOK
<1>11. CASE ~RecordsKept
  <2>1. PICK d \in Delivery :
          \/ \E c \in Contract, t \in Task, r \in Principal, S \in SUBSET Delivery :
               Deliver(d, c, t, r, S) \/ ClaimCutOff(d, c, t, r, S)
          \/ CancelIntent(d)
          \/ \E how \in {"LEASE_EXPIRED", "HANDED_OVER"}, open \in BOOLEAN :
               CloseStep(d, how, open, cancel[d]) \/ CloseStep(d, how, open, TRUE)
          \/ \E n \in Fence, open \in BOOLEAN :
               n = fence[d] /\ <<d, n>> \notin working /\ CloseStep(d, "REPORTED", open, cancel[d])
          \/ StartAttempt(d)
          \/ \E n \in Fence : LateStopReport(d, n)
          \/ \E n \in Fence, id \in ResultId, body \in Body :
               SubmitResult(d, n, id, body) \/ SubmitCutOff(d, n, id, body)
    BY <1>11, StepKinds
  <2>2. CASE e = d
    BY <2>1, <2>2, <1>3, <1>9, <1>10
  <2>3. CASE e # d
    BY <2>1, <2>3, <1>2, <1>3, <1>4, <1>5, <1>6, <1>7, <1>8, <1>9, <1>10
  <2> QED BY <2>2, <2>3
<1> QED BY <1>1, <1>11


-----------------------------------------------------------------------------
(* The inductive invariant.                                                *)

\* StateMatchesRecord gives a record its shape; OnlyLatestUnconfirmed makes the stop gate, which
\* looks at the latest attempt, a statement about all of them; RecordedResultIsStored says that a
\* settled delivery holds no right; the rest tie the claims and the links to the records.
Inv ==
  /\ TypeOK
  /\ StateMatchesRecord
  /\ OnlyLatestUnconfirmed
  /\ RecordedResultIsStored
  /\ WorkingIsUnconfirmed
  /\ OneDeliveryPerContract
  /\ PredecessorsTerminal

LEMMA InitInv == Init => Inv
<1>1. Init => TypeOK
  BY InitType
<1>2. Init => StateMatchesRecord
  BY DEF Init, StateMatchesRecord, RecordConsistent, Active, Fence, NoAttempt, TERMINAL_STATES
<1>3. Init => OnlyLatestUnconfirmed /\ RecordedResultIsStored /\ OneDeliveryPerContract
  BY DEF Init, OnlyLatestUnconfirmed, RecordedResultIsStored, OneDeliveryPerContract, Exists, Fence
<1>4. Init => WorkingIsUnconfirmed /\ PredecessorsTerminal
  BY DEF Init, WorkingIsUnconfirmed, PredecessorsTerminal
<1> QED BY <1>1, <1>2, <1>3, <1>4 DEF Inv

LEMMA SameConsistent ==
  ASSUME NEW e \in Delivery, RecordConsistent(e), Same(e)
  PROVE  RecordConsistent(e)'
BY DEF RecordConsistent, Same, Active

LEMMA StateMatchesRecordStep ==
  ASSUME Inv, [Next]_vars
  PROVE  StateMatchesRecord'
<1> USE DEF Inv
<1> SUFFICES ASSUME NEW d \in Delivery, RecordConsistent(d) PROVE RecordConsistent(d)'
  BY DEF StateMatchesRecord
<1>1. CASE Same(d)
  BY <1>1, SameConsistent
<1>2. ASSUME NEW c \in Contract, NEW t \in Task, NEW r \in Principal, NEW S \in SUBSET Delivery,
             Deliver(d, c, t, r, S)
      PROVE  RecordConsistent(d)'
  <2>1. /\ state'[d] = "DELIVERED" /\ task'[d] = t /\ t # None
        /\ fence'[d] = 0 /\ ~cancel'[d] /\ result'[d] = None /\ ~Active(d)'
    BY <1>2 DEF Deliver, Deliverable, Exists, RecordConsistent, TypeOK, Active
  <2> QED BY <2>1 DEF RecordConsistent, TERMINAL_STATES, Fence
<1>3. CASE CancelIntent(d)
  <2>1. cancel'[d] /\ UNCHANGED <<task, fence, attempts, result>>
    BY <1>3 DEF CancelIntent, TypeOK, payload
  <2>2. state'[d] = IF Active(d) THEN "ATTEMPT_ACTIVE" ELSE "CANCELLED"
    BY <1>3 DEF CancelIntent, TypeOK, RecordConsistent
  <2>3. Active(d)' <=> Active(d)
    BY <2>1 DEF Active
  <2>4. state[d] # "ABSENT" /\ task[d] # None /\ result[d] = None
    BY <1>3 DEF CancelIntent, Exists, RecordConsistent
  <2>5. \A n \in Fence : n <= fence'[d] => WellFormed(attempts'[d][n])
    BY <2>1 DEF RecordConsistent
  <2>6. /\ state'[d] \in {"ATTEMPT_ACTIVE", "CANCELLED"}
        /\ state'[d] = "ATTEMPT_ACTIVE" <=> Active(d)'
    BY <2>2, <2>3
  <2> QED BY <2>1, <2>4, <2>5, <2>6 DEF RecordConsistent, TERMINAL_STATES
<1>4. ASSUME NEW how \in {"REPORTED", "LEASE_EXPIRED", "HANDED_OVER"},
             NEW open \in BOOLEAN, NEW cancelled \in BOOLEAN, cancel[d] => cancelled,
             CloseStep(d, how, open, cancelled)
      PROVE  RecordConsistent(d)'
  <2>1. how \in EndHow /\ Active(d) /\ CloseAttempt(d, how, open, cancelled)
    BY <1>4 DEF EndHow, CloseStep
  <2>2. UNCHANGED <<task, fence, result>> /\ cancel'[d] = cancelled
    BY <1>4, <2>1, CloseStepEffect DEF payload
  <2>3. /\ state'[d] = StateAfterClose(cancelled, open)
        /\ fence[d] \in Fence
        /\ \A n \in Fence : n # fence[d] => attempts'[d][n] = attempts[d][n]
        /\ attempts'[d][fence[d]].state = "ENDED"
        /\ attempts'[d][fence[d]].how = how
    BY <2>1, CloseEffect
  <2>4. state[d] = "ATTEMPT_ACTIVE"
    BY <2>1 DEF RecordConsistent
  <2>5. ~Active(d)' /\ \A n \in Fence : n <= fence'[d] => WellFormed(attempts'[d][n])
    BY <2>2, <2>3 DEF Active, RecordConsistent, WellFormed, UNCONFIRMED_ENDS
  <2>6. state'[d] \in {"CANCELLED", "RECONCILIATION_REQUIRED", "DELIVERED"}
        /\ (state'[d] = "CANCELLED" <=> cancelled)
    BY <2>3 DEF StateAfterClose
  <2> QED BY <2>2, <2>4, <2>5, <2>6 DEF RecordConsistent, TERMINAL_STATES
<1>5. CASE StartAttempt(d)
  <2>1. /\ fence'[d] = fence[d] + 1 /\ fence[d] \in Nat
        /\ attempts'[d][fence[d] + 1].state = "ACTIVE"
        /\ ~attempts'[d][fence[d] + 1].late_stop
        /\ \A n \in Fence : n # fence[d] + 1 => attempts'[d][n] = attempts[d][n]
    BY <1>5, StartEffect
  <2>2. Active(d)'
    BY <2>1 DEF Active
  <2>3. ASSUME NEW n \in Fence, n <= fence'[d]
        PROVE  WellFormed(attempts'[d][n])
    <3>1. CASE n = fence[d] + 1
      BY <2>1, <3>1 DEF WellFormed
    <3>2. CASE n # fence[d] + 1
      <4>1. n <= fence[d] /\ attempts'[d][n] = attempts[d][n]
        BY <2>1, <2>3, <3>2 DEF Fence
      <4> QED BY <4>1 DEF RecordConsistent
    <3> QED BY <3>1, <3>2
  <2>4. state'[d] = "ATTEMPT_ACTIVE" /\ task'[d] # None /\ result'[d] = None
    BY <1>5, StartEffect DEF RecordConsistent, StartAttempt, Open, Exists, payload
  <2>5. cancel'[d] = FALSE
    BY <1>5 DEF StartAttempt, Open, TypeOK
  <2> QED BY <2>2, <2>3, <2>4, <2>5 DEF RecordConsistent, TERMINAL_STATES
<1>6. ASSUME NEW n \in Fence, LateStopReport(d, n)
      PROVE  RecordConsistent(d)'
  BY <1>6, LateStopEffect DEF RecordConsistent, Active, WellFormed, payload
<1>7. ASSUME NEW n \in Fence, NEW id \in ResultId, NEW body \in Body, SubmitResult(d, n, id, body)
      PROVE  RecordConsistent(d)'
  <2>1. task[d] # None /\ fence[d] \in Nat
    BY <1>7 DEF RecordConsistent, SubmitResult, Submittable, TypeOK, Fence
  <2>2. /\ n = fence[d]
        /\ state'[d] = "RESULT_RECORDED"
        /\ attempts'[d][n].state = "RESULT_RECORDED"
        /\ \A m \in Fence : m # n => attempts'[d][m] = attempts[d][m]
        /\ UNCHANGED <<task, fence, cancel>>
    BY <1>7, SubmitEffect DEF payload
  <2>3. result'[d] # None
    BY <1>7, SubmitStores
  <2>4. ~Active(d)' /\ \A m \in Fence : m <= fence'[d] => WellFormed(attempts'[d][m])
    BY <2>2 DEF RecordConsistent, WellFormed, Active
  <2> QED BY <2>1, <2>2, <2>3, <2>4 DEF RecordConsistent, TERMINAL_STATES
<1>8. cancel[d] \in BOOLEAN
  BY DEF TypeOK
<1> QED BY <1>1, <1>2, <1>3, <1>4, <1>5, <1>6, <1>7, <1>8, DeliverySteps

\* Only the latest attempt of a delivery is ever written to.
LEMMA EarlierAttemptsKept ==
  ASSUME TypeOK, [Next]_vars, NEW e \in Delivery
  PROVE  \/ StartAttempt(e)
         \/ /\ fence'[e] = fence[e]
            /\ \A n \in Fence : n # fence[e] => attempts'[e][n] = attempts[e][n]
<1>1. CASE Same(e)
  BY <1>1 DEF Same
<1>2. CASE CancelIntent(e)
  BY <1>2 DEF CancelIntent
<1>3. ASSUME NEW c \in Contract, NEW t \in Task, NEW r \in Principal, NEW S \in SUBSET Delivery,
             Deliver(e, c, t, r, S)
      PROVE  UNCHANGED <<fence, attempts>>
  BY <1>3 DEF Deliver
<1>4. ASSUME NEW how \in {"REPORTED", "LEASE_EXPIRED", "HANDED_OVER"}, NEW open \in BOOLEAN,
             NEW cancelled \in BOOLEAN, CloseStep(e, how, open, cancelled)
      PROVE  /\ fence'[e] = fence[e]
             /\ \A n \in Fence : n # fence[e] => attempts'[e][n] = attempts[e][n]
  <2>1. how \in EndHow
    BY DEF EndHow
  <2> QED BY <1>4, <2>1, CloseEffect DEF CloseStep
<1>5. ASSUME NEW n \in Fence, LateStopReport(e, n)
      PROVE  /\ fence'[e] = fence[e]
             /\ \A m \in Fence : m # fence[e] => attempts'[e][m] = attempts[e][m]
  BY <1>5, LateStopEffect
<1>6. ASSUME NEW n \in Fence, NEW id \in ResultId, NEW body \in Body, SubmitResult(e, n, id, body)
      PROVE  /\ fence'[e] = fence[e]
             /\ \A m \in Fence : m # fence[e] => attempts'[e][m] = attempts[e][m]
  BY <1>6, SubmitEffect
<1>7. cancel[e] \in BOOLEAN
  BY DEF TypeOK
<1> QED BY <1>1, <1>2, <1>3, <1>4, <1>5, <1>6, <1>7, DeliverySteps

\* A start finds the latest attempt confirmed: the stop gate looks at the attempt, and a record is
\* well formed.
LEMMA StartFindsConfirmed ==
  ASSUME TypeOK, NEW e \in Delivery, RecordConsistent(e), StartAttempt(e), fence[e] > 0
  PROVE  StopConfirmed(attempts[e][fence[e]])
<1>1. fence[e] \in Fence
  BY LatestInFence
<1>2. attempts[e][fence[e]] \in Attempt
  BY <1>1 DEF TypeOK
<1>3. WellFormed(attempts[e][fence[e]])
  BY <1>1 DEF RecordConsistent, TypeOK, Fence
<1>4. ~UnconfirmedEnd(attempts[e][fence[e]]) /\ attempts[e][fence[e]].state # "ACTIVE"
  BY DEF StartAttempt, StopBlocked, Active
<1> QED BY <1>2, <1>3, <1>4 DEF WellFormed, UnconfirmedEnd, StopConfirmed, Attempt, AttemptState

LEMMA OnlyLatestUnconfirmedStep ==
  ASSUME Inv, [Next]_vars
  PROVE  OnlyLatestUnconfirmed'
<1> USE DEF Inv
<1> SUFFICES ASSUME NEW e \in Delivery, NEW n \in Fence, n < fence'[e]
             PROVE  StopConfirmed(attempts'[e][n])
  BY DEF OnlyLatestUnconfirmed
<1>1. CASE StartAttempt(e)
  <2>1. /\ fence[e] \in Nat /\ fence'[e] = fence[e] + 1
        /\ \A m \in Fence : m # fence[e] + 1 => attempts'[e][m] = attempts[e][m]
    BY <1>1, StartEffect
  <2>2. n \in Nat /\ n >= 1 /\ n <= fence[e] /\ attempts'[e][n] = attempts[e][n]
    BY <2>1 DEF Fence
  <2>3. CASE n = fence[e]
    BY <1>1, <2>1, <2>2, <2>3, StartFindsConfirmed DEF StateMatchesRecord
  <2>4. CASE n # fence[e]
    BY <2>1, <2>2, <2>4 DEF OnlyLatestUnconfirmed
  <2> QED BY <2>3, <2>4
<1>2. CASE /\ fence'[e] = fence[e]
           /\ \A m \in Fence : m # fence[e] => attempts'[e][m] = attempts[e][m]
  <2>1. n < fence[e] /\ n # fence[e]
    BY <1>2 DEF TypeOK, Fence
  <2> QED BY <1>2, <2>1 DEF OnlyLatestUnconfirmed
<1> QED BY <1>1, <1>2, EarlierAttemptsKept

\* An unconfirmed attempt whose executor still runs stays unconfirmed: UAM's own closures do not
\* confirm a stop, and the executor's reports come after its stop.
LEMMA RunningStaysUnconfirmed ==
  ASSUME Inv, [Next]_vars, NEW e \in Delivery, NEW n \in Fence, <<e, n>> \in working,
         n <= fence[e], ~StopConfirmed(attempts[e][n])
  PROVE  n <= fence'[e] /\ ~StopConfirmed(attempts'[e][n])
<1> USE DEF Inv
<1>1. n = fence[e] /\ attempts[e][n] \in Attempt /\ WellFormed(attempts[e][n])
  BY DEF OnlyLatestUnconfirmed, StateMatchesRecord, RecordConsistent, TypeOK, Fence
<1>2. CASE Same(e)
  BY <1>2 DEF Same
<1>3. CASE CancelIntent(e)
  BY <1>3 DEF CancelIntent
<1>4. ASSUME NEW c \in Contract, NEW t \in Task, NEW r \in Principal, NEW S \in SUBSET Delivery,
             Deliver(e, c, t, r, S)
      PROVE  UNCHANGED <<fence, attempts>>
  BY <1>4 DEF Deliver
<1>5. ASSUME NEW how \in {"LEASE_EXPIRED", "HANDED_OVER"}, NEW open \in BOOLEAN,
             NEW cancelled \in BOOLEAN, CloseStep(e, how, open, cancelled)
      PROVE  n <= fence'[e] /\ ~StopConfirmed(attempts'[e][n])
  <2>1. how \in EndHow
    BY DEF EndHow
  <2>2. Active(e) /\ CloseAttempt(e, how, open, cancelled) /\ fence' = fence
    BY <1>5 DEF CloseStep
  <2>3. /\ attempts'[e][n].state = "ENDED" /\ attempts'[e][n].how = how
        /\ attempts'[e][n].late_stop = attempts[e][n].late_stop
    BY <1>1, <2>1, <2>2, CloseEffect
  <2>4. ~attempts[e][n].late_stop
    BY <1>1, <2>2 DEF Active, WellFormed
  <2> QED BY <2>2, <2>3, <2>4 DEF StopConfirmed
<1>6. CASE StartAttempt(e)
  <2>1. /\ fence[e] \in Nat /\ fence'[e] = fence[e] + 1
        /\ \A m \in Fence : m # fence[e] + 1 => attempts'[e][m] = attempts[e][m]
    BY <1>6, StartEffect
  <2> QED BY <1>1, <2>1 DEF Fence
<1>7. ~ \E m \in Fence : LateStopReport(e, m)
  BY <1>1 DEF LateStopReport
<1>8. ~ \E m \in Fence, id \in ResultId, body \in Body : SubmitResult(e, m, id, body)
  BY <1>1 DEF SubmitResult, Submittable
<1>9. cancel[e] \in BOOLEAN
  BY DEF TypeOK
<1> QED BY <1>1, <1>2, <1>3, <1>4, <1>5, <1>6, <1>7, <1>8, <1>9, DeliverySteps

\* Only a start makes an executor run.
LEMMA OnlyStartRuns ==
  ASSUME TypeOK, [Next]_vars, NEW w \in working', w \notin working
  PROVE  \E d \in Delivery : StartAttempt(d) /\ w = <<d, fence[d] + 1>>
<1>1. ~RecordsKept
  BY DEF RecordsKept
<1>2. ASSUME NEW d \in Delivery,
             \/ \E c \in Contract, t \in Task, r \in Principal, S \in SUBSET Delivery :
                  Deliver(d, c, t, r, S) \/ ClaimCutOff(d, c, t, r, S)
             \/ CancelIntent(d)
             \/ \E n \in Fence : LateStopReport(d, n)
             \/ \E n \in Fence, id \in ResultId, body \in Body :
                  SubmitResult(d, n, id, body) \/ SubmitCutOff(d, n, id, body)
      PROVE  working' = working
  BY <1>2 DEF Deliver, ClaimCutOff, CancelIntent, LateStopReport, SubmitResult, SubmitCutOff
<1>3. ASSUME NEW d \in Delivery, NEW how, NEW open, NEW cancelled, CloseStep(d, how, open, cancelled)
      PROVE  working' = working
  BY <1>3 DEF CloseStep
<1>4. ASSUME NEW d \in Delivery, StartAttempt(d)
      PROVE  w = <<d, fence[d] + 1>>
  BY <1>4 DEF StartAttempt
<1> QED BY <1>1, <1>2, <1>3, <1>4, StepKinds

LEMMA WorkingIsUnconfirmedStep ==
  ASSUME Inv, [Next]_vars
  PROVE  WorkingIsUnconfirmed'
<1> USE DEF Inv
<1> SUFFICES ASSUME NEW e \in Delivery, NEW n \in Fence, <<e, n>> \in working'
             PROVE  n <= fence'[e] /\ ~StopConfirmed(attempts'[e][n])
  <2>1. TypeOK'
    BY NextType
  <2> QED BY <2>1 DEF WorkingIsUnconfirmed, Unconfirmed, TypeOK
<1>1. CASE <<e, n>> \in working
  BY <1>1, RunningStaysUnconfirmed DEF WorkingIsUnconfirmed, Unconfirmed
<1>2. CASE <<e, n>> \notin working
  <2>1. StartAttempt(e) /\ n = fence[e] + 1
    BY <1>2, OnlyStartRuns
  <2>2. fence'[e] = fence[e] + 1 /\ attempts'[e][n].state = "ACTIVE" /\ fence[e] \in Nat
    BY <2>1, StartEffect
  <2> QED BY <2>1, <2>2 DEF StopConfirmed
<1> QED BY <1>1, <1>2

\* A delivery leaves "ABSENT" by Deliver only, and its contract, task and predecessors are then fixed.
LEMMA PayloadStep ==
  ASSUME Inv, [Next]_vars, NEW e \in Delivery
  PROVE  \/ \E c \in Contract, t \in Task, r \in Principal, S \in SUBSET Delivery :
              Deliver(e, c, t, r, S)
         \/ /\ Exists(e)' <=> Exists(e)
            /\ contract'[e] = contract[e] /\ task'[e] = task[e] /\ continues'[e] = continues[e]
<1> USE DEF Inv
<1>0. RecordConsistent(e)
  BY DEF StateMatchesRecord
<1>1. CASE Same(e)
  BY <1>1 DEF Same, Exists
<1>2. CASE CancelIntent(e)
  BY <1>2 DEF CancelIntent, Exists, payload, TypeOK
<1>3. ASSUME NEW how \in {"REPORTED", "LEASE_EXPIRED", "HANDED_OVER"}, NEW open \in BOOLEAN,
             NEW cancelled \in BOOLEAN, CloseStep(e, how, open, cancelled)
      PROVE  /\ Exists(e)' <=> Exists(e)
             /\ UNCHANGED <<contract, task, continues>>
  <2>1. state[e] = "ATTEMPT_ACTIVE" /\ state'[e] # "ABSENT"
    BY <1>0, <1>3 DEF CloseStep, CloseAttempt, RecordConsistent, StateAfterClose, TypeOK
  <2> QED BY <1>3, <2>1 DEF CloseStep, payload, Exists
<1>4. CASE StartAttempt(e)
  <2>1. Exists(e) /\ state'[e] = "ATTEMPT_ACTIVE"
    BY <1>4, StartEffect DEF StartAttempt, Open
  <2> QED BY <1>4, <2>1 DEF StartAttempt, payload, Exists
<1>5. ASSUME NEW n \in Fence, LateStopReport(e, n)
      PROVE  UNCHANGED <<state, contract, task, continues>>
  BY <1>5 DEF LateStopReport, payload
<1>6. ASSUME NEW n \in Fence, NEW id \in ResultId, NEW body \in Body, SubmitResult(e, n, id, body)
      PROVE  /\ Exists(e)' <=> Exists(e)
             /\ UNCHANGED <<contract, task, continues>>
  <2>1. state'[e] = "RESULT_RECORDED" /\ n = fence[e]
    BY <1>6, SubmitEffect
  <2>2. Exists(e)
    BY <1>0, <2>1 DEF RecordConsistent, Exists, Fence
  <2> QED BY <1>6, <2>1, <2>2 DEF SubmitResult, payload, Exists
<1>7. cancel[e] \in BOOLEAN
  BY DEF TypeOK
<1> QED BY <1>1, <1>2, <1>3, <1>4, <1>5, <1>6, <1>7, DeliverySteps DEF Exists

LEMMA OneDeliveryPerContractStep ==
  ASSUME Inv, [Next]_vars
  PROVE  OneDeliveryPerContract'
<1> USE DEF Inv
<1> SUFFICES ASSUME NEW e \in Delivery, Exists(e)'
             PROVE  contract'[e] \in Contract /\ claims'[contract'[e]] = e
  BY DEF OneDeliveryPerContract
<1>1. CASE \E c \in Contract, t \in Task, r \in Principal, S \in SUBSET Delivery :
             Deliver(e, c, t, r, S)
  BY <1>1 DEF Deliver, TypeOK
<1>2. CASE Exists(e) /\ contract'[e] = contract[e]
  <2>1. contract[e] \in Contract /\ claims[contract[e]] = e
    BY <1>2 DEF OneDeliveryPerContract
  <2>2. CASE claims' = claims
    BY <1>2, <2>1, <2>2
  <2>3. ASSUME NEW d \in Delivery, NEW c \in Contract, NEW t \in Task, NEW r \in Principal,
               NEW S \in SUBSET Delivery, Deliver(d, c, t, r, S) \/ ClaimCutOff(d, c, t, r, S)
        PROVE  claims'[contract[e]] = e
    <3>1. claims' = [claims EXCEPT ![c] = d] /\ claims[c] \in {None, d}
      BY <2>3 DEF Deliver, ClaimCutOff, Deliverable
    <3>2. c = contract[e] => d = e
      BY <2>1, <3>1, NoneIsNothing
    <3> QED BY <2>1, <3>1, <3>2 DEF TypeOK
  <2>4. claims' = claims \/ \E d \in Delivery :
          \E c \in Contract, t \in Task, r \in Principal, S \in SUBSET Delivery :
            Deliver(d, c, t, r, S) \/ ClaimCutOff(d, c, t, r, S)
    <3>1. ASSUME NEW d \in Delivery,
                 \/ CancelIntent(d)
                 \/ StartAttempt(d)
                 \/ \E n \in Fence : LateStopReport(d, n)
                 \/ \E n \in Fence, id \in ResultId, body \in Body :
                      SubmitResult(d, n, id, body) \/ SubmitCutOff(d, n, id, body)
          PROVE  claims' = claims
      BY <3>1 DEF CancelIntent, StartAttempt, LateStopReport, SubmitResult, SubmitCutOff
    <3>2. ASSUME NEW d \in Delivery, NEW how, NEW open, NEW cancelled,
                 CloseStep(d, how, open, cancelled)
          PROVE  claims' = claims
      BY <3>2 DEF CloseStep
    <3>3. RecordsKept => claims' = claims
      BY DEF RecordsKept
    <3> QED BY <3>1, <3>2, <3>3, StepKinds
  <2> QED BY <1>2, <2>1, <2>2, <2>3, <2>4
<1> QED BY <1>1, <1>2, PayloadStep

\* What is finished or cancelled stays so: a late result may still follow a cancel.
LEMMA TerminalStays ==
  ASSUME Inv, [Next]_vars, NEW p \in Delivery, state[p] \in TERMINAL_STATES
  PROVE  state'[p] \in TERMINAL_STATES
<1> USE DEF Inv
<1>0. RecordConsistent(p) /\ state[p] \notin {"ABSENT", "ATTEMPT_ACTIVE"}
  BY DEF StateMatchesRecord, TERMINAL_STATES
<1>1. CASE Same(p)
  BY <1>1 DEF Same
<1>2. CASE CancelIntent(p)
  BY <1>0, <1>2 DEF CancelIntent, RecordConsistent, TERMINAL_STATES
<1>3. ~ \E c \in Contract, t \in Task, r \in Principal, S \in SUBSET Delivery :
          Deliver(p, c, t, r, S)
  BY <1>0 DEF Deliver, Deliverable, Exists
<1>4. ~Active(p) /\ ~StartAttempt(p)
  BY <1>0 DEF RecordConsistent, StartAttempt, Open, TERMINAL_STATES
<1>5. ASSUME NEW n \in Fence, LateStopReport(p, n) PROVE state'[p] = state[p]
  BY <1>5, LateStopEffect
<1>6. ASSUME NEW n \in Fence, NEW id \in ResultId, NEW body \in Body, SubmitResult(p, n, id, body)
      PROVE  state'[p] \in TERMINAL_STATES
  BY <1>6, SubmitEffect DEF TERMINAL_STATES
<1> QED BY <1>1, <1>2, <1>3, <1>4, <1>5, <1>6, DeliverySteps DEF CloseStep

LEMMA PredecessorsTerminalStep ==
  ASSUME Inv, [Next]_vars
  PROVE  PredecessorsTerminal'
<1> USE DEF Inv
<1> SUFFICES ASSUME NEW e \in Delivery, NEW p \in continues'[e]
             PROVE  state'[p] \in TERMINAL_STATES /\ task'[p] = task'[e]
  BY DEF PredecessorsTerminal
<1>1. ASSUME p \in Delivery, state[p] \in TERMINAL_STATES
      PROVE  state'[p] \in TERMINAL_STATES /\ task'[p] = task[p]
  <2>1. Exists(p)
    BY <1>1 DEF Exists, TERMINAL_STATES
  <2> QED BY <1>1, <2>1, TerminalStays, PayloadStep DEF Deliver, Deliverable
<1>2. CASE continues'[e] = continues[e] /\ task'[e] = task[e]
  BY <1>1, <1>2 DEF PredecessorsTerminal, TypeOK
<1>3. ASSUME NEW c \in Contract, NEW t \in Task, NEW r \in Principal, NEW S \in SUBSET Delivery,
             Deliver(e, c, t, r, S)
      PROVE  state'[p] \in TERMINAL_STATES /\ task'[p] = task'[e]
  <2>1. continues'[e] = S /\ task'[e] = t
    BY <1>3 DEF Deliver, TypeOK
  <2>2. p \in Delivery /\ state[p] \in TERMINAL_STATES /\ task[p] = t
    BY <1>3, <2>1 DEF Deliver, Deliverable, ContinuationAllowed, InTask
  <2> QED BY <1>1, <2>1, <2>2
<1> QED BY <1>2, <1>3, PayloadStep

\* No step writes to a delivery that has a result.
LEMMA RecordedStays ==
  ASSUME Inv, [Next]_vars, NEW e \in Delivery, state[e] = "RESULT_RECORDED"
  PROVE  Same(e)
<1> USE DEF Inv
<1>1. RecordConsistent(e) /\ ~Active(e) /\ result[e] # None
  BY DEF StateMatchesRecord, RecordConsistent
<1>2. ~ \E c \in Contract, t \in Task, r \in Principal, S \in SUBSET Delivery :
          Deliver(e, c, t, r, S)
  BY DEF Deliver, Deliverable, Exists
<1>3. ~CancelIntent(e) /\ ~StartAttempt(e)
  BY DEF CancelIntent, StartAttempt, Open
<1>4. ~ \E n \in Fence, id \in ResultId, body \in Body : SubmitResult(e, n, id, body)
  BY DEF SubmitResult, Submittable
<1>5. ~ \E n \in Fence : LateStopReport(e, n)
  BY <1>1 DEF LateStopReport, UnconfirmedEnd, RecordedResultIsStored
<1> QED BY <1>1, <1>2, <1>3, <1>4, <1>5, DeliverySteps DEF CloseStep

\* What the result store holds under an id, it holds for ever.
LEMMA StoredStays ==
  ASSUME Inv, [Next]_vars, NEW id \in ResultId, stored[id] # None
  PROVE  stored'[id] = stored[id]
<1> USE DEF Inv
<1>1. RecordsKept => stored' = stored
  BY DEF RecordsKept
<1>2. ASSUME NEW d \in Delivery,
             \/ \E c \in Contract, t \in Task, r \in Principal, S \in SUBSET Delivery :
                  Deliver(d, c, t, r, S) \/ ClaimCutOff(d, c, t, r, S)
             \/ CancelIntent(d)
             \/ StartAttempt(d)
             \/ \E n \in Fence : LateStopReport(d, n)
      PROVE  stored' = stored
  BY <1>2 DEF Deliver, ClaimCutOff, CancelIntent, StartAttempt, LateStopReport
<1>3. ASSUME NEW d \in Delivery, NEW how, NEW open, NEW cancelled, CloseStep(d, how, open, cancelled)
      PROVE  stored' = stored
  BY <1>3 DEF CloseStep
<1>4. ASSUME NEW d \in Delivery, NEW n \in Fence, NEW i \in ResultId, NEW body \in Body,
             SubmitResult(d, n, i, body) \/ SubmitCutOff(d, n, i, body)
      PROVE  stored'[id] = stored[id]
  <2>1. stored[i] \in {None, stored'[i]} /\ (id # i => stored'[id] = stored[id])
    BY <1>4, SubmitStores
  <2> QED BY <2>1
<1> QED BY <1>1, <1>2, <1>3, <1>4, StepKinds

LEMMA RecordedResultIsStoredStep ==
  ASSUME Inv, [Next]_vars
  PROVE  RecordedResultIsStored'
<1> USE DEF Inv
<1> SUFFICES ASSUME NEW d \in Delivery, result'[d] # None
             PROVE  /\ stored'[result'[d].id] = result'[d].content
                    /\ result'[d].content.delivery = d
                    /\ fence'[d] > 0 /\ result'[d].content.fence = fence'[d]
                    /\ attempts'[d][fence'[d]].state = "RESULT_RECORDED"
  BY DEF RecordedResultIsStored
<1>1. CASE state[d] = "RESULT_RECORDED"
  <2>1. Same(d) /\ result[d] # None
    BY <1>1, RecordedStays DEF StateMatchesRecord, RecordConsistent
  <2>2. result[d].id \in ResultId /\ result[d].content \in Submission
    BY <2>1 DEF TypeOK, Recorded
  <2>3. stored[result[d].id] = result[d].content /\ result[d].content # None
    BY <2>1, <2>2, NoneIsNothing DEF RecordedResultIsStored
  <2>4. stored'[result[d].id] = stored[result[d].id]
    BY <2>2, <2>3, StoredStays
  <2> QED BY <2>1, <2>3, <2>4 DEF Same, RecordedResultIsStored
<1>2. CASE state[d] # "RESULT_RECORDED"
  <2>1. state'[d] = "RESULT_RECORDED"
    BY StateMatchesRecordStep DEF StateMatchesRecord, RecordConsistent
  <2>2. PICK n \in Fence, id \in ResultId, body \in Body : SubmitResult(d, n, id, body)
    <3>1. ~Same(d)
      BY <1>2, <2>1 DEF Same
    <3>2. ~CancelIntent(d)
      BY <1>2, <2>1 DEF CancelIntent, TypeOK
    <3>3. ASSUME NEW how, NEW open, NEW cancelled, CloseStep(d, how, open, cancelled) PROVE FALSE
      BY <2>1, <3>3 DEF CloseStep, CloseAttempt, StateAfterClose, TypeOK
    <3>4. ~StartAttempt(d)
      BY <2>1, StartEffect
    <3>5. ASSUME NEW n \in Fence, LateStopReport(d, n) PROVE FALSE
      BY <1>2, <2>1, <3>5, LateStopEffect
    <3>6. ~ \E c \in Contract, t \in Task, r \in Principal, S \in SUBSET Delivery :
              Deliver(d, c, t, r, S)
      BY <2>1 DEF Deliver, TypeOK
    <3> QED BY <3>1, <3>2, <3>3, <3>4, <3>5, <3>6, DeliverySteps
  <2>3. /\ n = fence[d] /\ fence'[d] = fence[d] /\ n > 0
        /\ attempts'[d][n].state = "RESULT_RECORDED"
    BY <2>2, SubmitEffect DEF Fence
  <2>4. /\ result'[d].id = id
        /\ result'[d].content = stored'[id]
        /\ stored'[id].delivery = d
        /\ stored'[id].fence = n
    BY <2>2, SubmitStores
  <2> QED BY <2>3, <2>4
<1> QED BY <1>1, <1>2

-----------------------------------------------------------------------------

LEMMA InvStep == Inv /\ [Next]_vars => Inv'
BY NextType, StateMatchesRecordStep, OnlyLatestUnconfirmedStep, RecordedResultIsStoredStep,
   WorkingIsUnconfirmedStep, OneDeliveryPerContractStep, PredecessorsTerminalStep DEF Inv

\* The inductive invariant holds in every behaviour.
THEOREM InductiveInvariant == Spec => []Inv
BY InitInv, InvStep, PTL DEF Spec

\* An executor that really runs is never shown as stopped (WorkingIsUnconfirmed): not by a lease
\* that ran out, not by a handover, not by a crash between two writes.
THEOREM WorkingStaysUnconfirmed == Spec => []WorkingIsUnconfirmed
<1>1. Inv => WorkingIsUnconfirmed
  BY DEF Inv
<1> QED BY <1>1, InductiveInvariant, PTL

\* The recorded result is what the result store holds (RecordedResultIsStored).
THEOREM ResultsAgree == Spec => []RecordedResultIsStored
<1>1. Inv => RecordedResultIsStored
  BY DEF Inv
<1> QED BY <1>1, InductiveInvariant, PTL

\* Only the latest attempt of a delivery can be unconfirmed (OnlyLatestUnconfirmed).
THEOREM EarlierStopsConfirmed == Spec => []OnlyLatestUnconfirmed
<1>1. Inv => OnlyLatestUnconfirmed
  BY DEF Inv
<1> QED BY <1>1, InductiveInvariant, PTL

\* A contract is claimed by the one delivery that carries it (OneDeliveryPerContract).
THEOREM ContractsDeliveredOnce == Spec => []OneDeliveryPerContract
<1>1. Inv => OneDeliveryPerContract
  BY DEF Inv
<1> QED BY <1>1, InductiveInvariant, PTL

\* What a delivery continues is settled and belongs to its task (PredecessorsTerminal).
THEOREM PredecessorsStayTerminal == Spec => []PredecessorsTerminal
<1>1. Inv => PredecessorsTerminal
  BY DEF Inv
<1> QED BY <1>1, InductiveInvariant, PTL

\* The state of a record agrees with its attempts, cancel intent and result (StateMatchesRecord).
THEOREM RecordsStayConsistent == Spec => []StateMatchesRecord
<1>1. Inv => StateMatchesRecord
  BY DEF Inv
<1> QED BY <1>1, InductiveInvariant, PTL

\* The parties of a delivery change by Deliver and by handovers, neither of which finds a result.
LEMMA RolesKept ==
  ASSUME [Next]_vars, NEW d \in Delivery, state[d] = "RESULT_RECORDED", TypeOK
  PROVE  recipient'[d] = recipient[d] /\ requester'[d] = requester[d]
<1>1. ASSUME NEW e \in Delivery, DeliverNext(e)
      PROVE  recipient'[d] = recipient[d] /\ requester'[d] = requester[d]
  BY <1>1 DEF DeliverNext, Deliver, Deliverable, Exists, ClaimCutOff, record, roles, TypeOK
<1>2. ASSUME NEW e \in Delivery, Cancel(e) \/ StartClosesExpired(e) \/ StartAttempt(e)
      PROVE  UNCHANGED <<recipient, requester>>
  BY <1>2 DEF Cancel, StartClosesExpired, StartAttempt, roles
<1>3. ASSUME NEW e \in Delivery, ExecutorNext(e)
      PROVE  UNCHANGED <<recipient, requester>>
  BY <1>3 DEF ExecutorNext, ExecutorStops, EndAttempt, LateStopReport, SubmitResult, SubmitCutOff,
     record, roles
<1>4. ASSUME NEW e \in Delivery, NEW q \in Principal, HandoverRequester(e, q) \/ HandoverRecipient(e, q)
      PROVE  recipient'[d] = recipient[d] /\ requester'[d] = requester[d]
  <2>1. e # d
    BY <1>4 DEF HandoverRequester, HandoverRecipient, HandoverAllowed, TERMINAL_STATES
  <2> QED BY <1>4, <2>1 DEF HandoverRequester, HandoverRecipient, TypeOK
<1> QED BY <1>1, <1>2, <1>3, <1>4 DEF Next, vars, record, roles

\* Nothing of a delivery that has a result ever changes (ResultIsFinal).
THEOREM ResultsAreFinal == Spec => ResultIsFinal
<1>1. ASSUME Inv, [Next]_vars, NEW d \in Delivery, state[d] = "RESULT_RECORDED"
      PROVE  UNCHANGED <<state[d], attempts[d], fence[d], result[d], cancel[d], recipient[d], requester[d]>>
  BY <1>1, RecordedStays, RolesKept DEF Inv, Same
<1>2. Inv /\ [Next]_vars =>
        [\A d \in Delivery : state[d] = "RESULT_RECORDED" =>
           UNCHANGED <<state[d], attempts[d], fence[d], result[d], cancel[d], recipient[d], requester[d]>>]_vars
  BY <1>1
<1> QED BY <1>2, InductiveInvariant, PTL DEF Spec, ResultIsFinal

-----------------------------------------------------------------------------
(* What no step may do.                                                    *)

\* A cancel intent stays, no attempt is made beside it, and the delivery can only become terminal.
LEMMA CancelledKept ==
  ASSUME Inv, [Next]_vars, NEW d \in Delivery, cancel[d]
  PROVE  /\ cancel'[d]
         /\ fence'[d] = fence[d]
         /\ state'[d] \in {state[d]} \cup TERMINAL_STATES
<1> USE DEF Inv
<1>0. RecordConsistent(d)
  BY DEF StateMatchesRecord
<1>1. CASE Same(d)
  BY <1>1 DEF Same
<1>2. ~CancelIntent(d) /\ ~StartAttempt(d)
  BY DEF CancelIntent, StartAttempt, Open
<1>3. ~ \E c \in Contract, t \in Task, r \in Principal, S \in SUBSET Delivery :
          Deliver(d, c, t, r, S)
  BY <1>0 DEF Deliver, Deliverable, Exists, RecordConsistent
<1>4. ASSUME NEW how \in {"REPORTED", "LEASE_EXPIRED", "HANDED_OVER"}, NEW open \in BOOLEAN,
             CloseStep(d, how, open, TRUE)
      PROVE  cancel'[d] /\ fence'[d] = fence[d] /\ state'[d] = "CANCELLED"
  <2>1. how \in EndHow /\ TRUE \in BOOLEAN
    BY DEF EndHow
  <2>2. cancel'[d] = TRUE /\ UNCHANGED fence
    BY <1>4, <2>1, CloseStepEffect
  <2>3. state' = [state EXCEPT ![d] = StateAfterClose(TRUE, open)] /\ state \in [Delivery -> DeliveryState]
    BY <1>4 DEF CloseStep, CloseAttempt, TypeOK
  <2> QED BY <2>2, <2>3 DEF StateAfterClose
<1>5. ASSUME NEW n \in Fence, LateStopReport(d, n) PROVE UNCHANGED <<cancel, fence, state>>
  BY <1>5, LateStopEffect
<1>6. ASSUME NEW n \in Fence, NEW id \in ResultId, NEW body \in Body, SubmitResult(d, n, id, body)
      PROVE  UNCHANGED <<cancel, fence>> /\ state'[d] = "RESULT_RECORDED"
  BY <1>6, SubmitEffect
<1>7. cancel[d] = TRUE
  BY DEF TypeOK
<1> QED BY <1>1, <1>2, <1>3, <1>4, <1>5, <1>6, <1>7, DeliverySteps DEF TERMINAL_STATES

\* After a cancel no claim gets through, whatever attempts, handovers and reports do then.
THEOREM CancelsBlockClaims == Spec => CancelBlocksClaims
<1>1. Inv /\ [Next]_vars =>
        [\A d \in Delivery : cancel[d] =>
           /\ cancel'[d]
           /\ fence'[d] = fence[d]
           /\ state'[d] \in {state[d]} \cup TERMINAL_STATES]_vars
  BY CancelledKept
<1> QED BY <1>1, InductiveInvariant, PTL DEF Spec, CancelBlocksClaims

\* There is nothing beyond the latest fence, so a new attempt overwrites nothing.
NoLaterAttempt == \A d \in Delivery, n \in Fence : n > fence[d] => attempts[d][n].state = "NONE"

LEMMA NoLaterAttemptStep ==
  ASSUME TypeOK, NoLaterAttempt, [Next]_vars
  PROVE  NoLaterAttempt'
<1> SUFFICES ASSUME NEW d \in Delivery, NEW n \in Fence, n > fence'[d]
             PROVE  attempts'[d][n].state = "NONE"
  BY DEF NoLaterAttempt
<1>1. fence[d] \in Nat /\ n \in Nat
  BY DEF TypeOK, Fence
<1>2. CASE StartAttempt(d)
  <2>1. fence'[d] = fence[d] + 1 /\ (n # fence[d] + 1 => attempts'[d][n] = attempts[d][n])
    BY <1>2, StartEffect
  <2> QED BY <1>1, <2>1 DEF NoLaterAttempt
<1>3. CASE ~StartAttempt(d)
  BY <1>1, <1>3, EarlierAttemptsKept DEF NoLaterAttempt
<1> QED BY <1>2, <1>3

LEMMA NoLaterAttempts == Spec => []NoLaterAttempt
<1>1. Init => NoLaterAttempt
  BY DEF Init, NoLaterAttempt, NoAttempt
<1>2. TypeOK /\ NoLaterAttempt /\ [Next]_vars => NoLaterAttempt'
  BY NoLaterAttemptStep
<1> QED BY <1>1, <1>2, TypeInvariant, PTL DEF Spec

\* How an attempt ended, and the effect that was observed then, is never written again.
LEMMA ClosureKept ==
  ASSUME TypeOK, NoLaterAttempt, [Next]_vars, NEW d \in Delivery, NEW n \in Fence,
         attempts[d][n].state = "ENDED"
  PROVE  /\ attempts'[d][n].state # "ACTIVE"
         /\ attempts'[d][n].how = attempts[d][n].how
         /\ attempts'[d][n].open = attempts[d][n].open
<1>1. CASE Same(d)
  BY <1>1 DEF Same
<1>2. CASE CancelIntent(d)
  BY <1>2 DEF CancelIntent
<1>3. ASSUME NEW c \in Contract, NEW t \in Task, NEW r \in Principal, NEW S \in SUBSET Delivery,
             Deliver(d, c, t, r, S)
      PROVE  UNCHANGED attempts
  BY <1>3 DEF Deliver
<1>4. ASSUME NEW how \in {"REPORTED", "LEASE_EXPIRED", "HANDED_OVER"}, NEW open \in BOOLEAN,
             NEW cancelled \in BOOLEAN, CloseStep(d, how, open, cancelled)
      PROVE  attempts'[d][n] = attempts[d][n]
  <2>1. how \in EndHow
    BY DEF EndHow
  <2>2. attempts[d][fence[d]].state = "ACTIVE"
    BY <1>4, <2>1, CloseStepEffect
  <2> QED BY <1>4, <2>1, <2>2, CloseEffect DEF CloseStep
<1>5. CASE StartAttempt(d)
  <2>1. fence[d] \in Nat /\ (n # fence[d] + 1 => attempts'[d][n] = attempts[d][n])
    BY <1>5, StartEffect
  <2>2. n # fence[d] + 1
    BY <2>1 DEF NoLaterAttempt
  <2> QED BY <2>1, <2>2
<1>6. ASSUME NEW m \in Fence, LateStopReport(d, m)
      PROVE  /\ attempts'[d][n].state = "ENDED"
             /\ attempts'[d][n].how = attempts[d][n].how
             /\ attempts'[d][n].open = attempts[d][n].open
  BY <1>6, LateStopEffect
<1>7. ASSUME NEW m \in Fence, NEW id \in ResultId, NEW body \in Body, SubmitResult(d, m, id, body)
      PROVE  /\ attempts'[d][n].state # "ACTIVE"
             /\ attempts'[d][n].how = attempts[d][n].how
             /\ attempts'[d][n].open = attempts[d][n].open
  <2>1. CASE m # n
    BY <1>7, <2>1, SubmitEffect
  <2>2. CASE m = n
    <3>1. attempts'[d][n] = WithResult(attempts[d][n]) /\ attempts[d][n] \in Attempt
      BY <1>7, <2>2 DEF SubmitResult, TypeOK
    <3> QED BY <3>1 DEF WithResult, Attempt
  <2> QED BY <2>1, <2>2
<1>8. cancel[d] \in BOOLEAN
  BY DEF TypeOK
<1> QED BY <1>1, <1>2, <1>3, <1>4, <1>5, <1>6, <1>7, <1>8, DeliverySteps

\* Late evidence stands beside a closure, never over it.
THEOREM ClosuresAreKept == Spec => ClosureIsKept
<1>1. TypeOK /\ NoLaterAttempt /\ [Next]_vars =>
        [\A d \in Delivery, n \in Fence : attempts[d][n].state = "ENDED" =>
           /\ attempts'[d][n].state # "ACTIVE"
           /\ attempts'[d][n].how = attempts[d][n].how
           /\ attempts'[d][n].open = attempts[d][n].open]_vars
  BY ClosureKept
<1> QED BY <1>1, TypeInvariant, NoLaterAttempts, PTL DEF Spec, ClosureIsKept

-----------------------------------------------------------------------------
(* Several deliveries: the refinement of ExecutionRights, and what follows *)
(* from it.                                                                *)

\* The abstract `closed`, as TaskContinuity maps it.
ClosedNow == [d \in Delivery |-> cancel[d] \/ state[d] = "RESULT_RECORDED"]

LEMMA UnconfirmedKept ==
  ASSUME fence' = fence,
         \A e \in Delivery, n \in Fence : n <= fence[e] =>
           (StopConfirmed(attempts'[e][n]) <=> StopConfirmed(attempts[e][n]))
  PROVE  Unconfirmed' = Unconfirmed
BY DEF Unconfirmed

LEMMA UnconfirmedReturned ==
  ASSUME NEW d \in Delivery, fence[d] \in Fence, fence' = fence,
         \A e \in Delivery, n \in Fence : e # d \/ n # fence[d] => attempts'[e][n] = attempts[e][n],
         StopConfirmed(attempts'[d][fence[d]])
  PROVE  Unconfirmed' = Unconfirmed \ {<<d, fence[d]>>}
<1>1. ASSUME NEW e \in Delivery, NEW n \in Fence
      PROVE  <<e, n>> \in Unconfirmed' <=> <<e, n>> \in Unconfirmed \ {<<d, fence[d]>>}
  BY DEF Unconfirmed
<1>2. Unconfirmed \subseteq Delivery \X Fence /\ Unconfirmed' \subseteq Delivery \X Fence
  BY DEF Unconfirmed
<1> QED BY <1>1, <1>2

LEMMA ClosedStep ==
  ASSUME NEW d \in Delivery, \A e \in Delivery : e # d => Same(e)
  PROVE  ClosedNow' = [ClosedNow EXCEPT ![d] = cancel'[d] \/ state'[d] = "RESULT_RECORDED"]
BY DEF ClosedNow, Same

LEMMA ClosedKept ==
  ASSUME \A e \in Delivery : Same(e)
  PROVE  ClosedNow' = ClosedNow
BY DEF ClosedNow, Same

\* UAM's own closure returns no right.
LEMMA OwnClosureKeepsRights ==
  ASSUME Inv, NEW d \in Delivery, NEW how \in {"LEASE_EXPIRED", "HANDED_OVER"},
         NEW open \in BOOLEAN, NEW cancelled \in BOOLEAN, CloseStep(d, how, open, cancelled)
  PROVE  Unconfirmed' = Unconfirmed
<1> USE DEF Inv
<1>1. how \in EndHow /\ Active(d) /\ CloseAttempt(d, how, open, cancelled) /\ fence' = fence
  BY DEF EndHow, CloseStep
<1>2. /\ \A e \in Delivery : e # d => attempts'[e] = attempts[e]
      /\ fence[d] \in Fence
      /\ \A n \in Fence : n # fence[d] => attempts'[d][n] = attempts[d][n]
      /\ attempts'[d][fence[d]].state = "ENDED"
      /\ attempts'[d][fence[d]].how = how
      /\ attempts'[d][fence[d]].late_stop = attempts[d][fence[d]].late_stop
  BY <1>1, CloseEffect
<1>3. ~attempts[d][fence[d]].late_stop /\ attempts[d][fence[d]].state = "ACTIVE"
  <2>1. fence[d] <= fence[d]
    BY <1>2 DEF Fence
  <2>2. WellFormed(attempts[d][fence[d]])
    BY <1>2, <2>1 DEF StateMatchesRecord, RecordConsistent
  <2> QED BY <1>1, <2>2 DEF WellFormed, Active
<1>4. ~StopConfirmed(attempts[d][fence[d]]) /\ ~StopConfirmed(attempts'[d][fence[d]])
  BY <1>2, <1>3 DEF StopConfirmed
<1>5. ASSUME NEW e \in Delivery, NEW n \in Fence
      PROVE  StopConfirmed(attempts'[e][n]) <=> StopConfirmed(attempts[e][n])
  BY <1>2, <1>4
<1> QED BY <1>1, <1>5, UnconfirmedKept

\* While an attempt is unconfirmed, its delivery is unresolved.
LEMMA UnconfirmedIsUnresolved ==
  ASSUME Inv, NEW e \in Delivery, NEW n \in Fence, <<e, n>> \in Unconfirmed
  PROVE  Unresolved(e) /\ Exists(e)
<1> USE DEF Inv
<1>1. n <= fence[e] /\ ~StopConfirmed(attempts[e][n]) /\ fence[e] \in Nat /\ fence[e] > 0
  BY DEF Unconfirmed, TypeOK, Fence
<1>2. n = fence[e]
  BY <1>1 DEF OnlyLatestUnconfirmed, Fence
<1>3. state[e] # "RESULT_RECORDED"
  BY <1>1, <1>2 DEF StateMatchesRecord, RecordConsistent, RecordedResultIsStored, StopConfirmed
<1>4. Exists(e)
  BY <1>1 DEF StateMatchesRecord, RecordConsistent, Exists
<1>5. n \in 1..fence[e]
  BY <1>1 DEF Fence
<1> QED BY <1>1, <1>3, <1>4, <1>5 DEF Unresolved, IsUnresolved

LEMMA RightsInit == Init => Rights!Init
<1> SUFFICES ASSUME Init PROVE Rights!Init
  OBVIOUS
<1>1. Unconfirmed = {}
  BY DEF Init, Unconfirmed, Fence
<1>2. ClosedNow = [d \in Delivery |-> FALSE]
  BY DEF Init, ClosedNow
<1> QED BY <1>1, <1>2 DEF Init, Rights!Init, ClosedNow

LEMMA DeliverRegisters ==
  ASSUME Inv, NEW d \in Delivery, NEW c \in Contract, NEW t \in Task, NEW r \in Principal,
         NEW S \in SUBSET Delivery, Deliver(d, c, t, r, S)
  PROVE  Rights!Register(d, t, S)
<1> USE DEF Inv
<1>1. task[d] = None
  BY DEF Deliver, Deliverable, Exists, StateMatchesRecord, RecordConsistent
<1>2. ASSUME NEW p \in S PROVE task[p] = t /\ ClosedNow[p]
  BY DEF Deliver, Deliverable, ContinuationAllowed, InTask, StateMatchesRecord, RecordConsistent,
     TERMINAL_STATES, ClosedNow
<1>3. Unconfirmed' = Unconfirmed
  BY DEF Deliver, Unconfirmed
<1>4. ClosedNow' = ClosedNow
  <2>1. state[d] # "RESULT_RECORDED" /\ state'[d] # "RESULT_RECORDED"
    BY DEF Deliver, Deliverable, Exists, TypeOK
  <2>2. \A e \in Delivery : state'[e] = "RESULT_RECORDED" <=> state[e] = "RESULT_RECORDED"
    BY <2>1 DEF Deliver, TypeOK
  <2> QED BY <2>2 DEF Deliver, ClosedNow
<1> QED BY <1>1, <1>2, <1>3, <1>4 DEF Rights!Register, ClosedNow, Deliver

LEMMA StartIssues ==
  ASSUME Inv, NEW d \in Delivery, StartAttempt(d)
  PROVE  Rights!Issue(d)
<1> USE DEF Inv
<1>1. task[d] # None /\ ~ClosedNow[d] /\ fence[d] < MaxAttempts
  BY DEF StartAttempt, Open, Exists, StateMatchesRecord, RecordConsistent, ClosedNow
<1>2. ASSUME NEW e \in Delivery, NEW n \in Fence, <<e, n>> \in Unconfirmed, task[e] = task[d]
      PROVE  e # d /\ e \in continues[d]
  <2>1. e # d
    <3>1. n <= fence[e] /\ ~StopConfirmed(attempts[e][n]) /\ fence[e] \in Nat /\ fence[e] > 0
      BY <1>2 DEF Unconfirmed, TypeOK, Fence
    <3>2. n = fence[e]
      BY <3>1 DEF OnlyLatestUnconfirmed, Fence
    <3> QED BY <3>1, <3>2, StartFindsConfirmed DEF StateMatchesRecord
  <2>2. e \in Siblings(d) /\ Unresolved(e)
    BY <1>2, <2>1, UnconfirmedIsUnresolved DEF Siblings, InTask
  <2> QED BY <2>1, <2>2 DEF StartAttempt, TaskFree
<1>3. \A w \in Unconfirmed : w \in Delivery \X Fence
  BY DEF Unconfirmed
<1>4. \A w \in Unconfirmed : task[w[1]] = task[d] => w[1] # d /\ w[1] \in continues[d]
  BY <1>2, <1>3
<1>5. Unconfirmed' = Unconfirmed \cup {<<d, fence[d] + 1>>}
  <2>1. /\ fence[d] + 1 \in Fence /\ fence[d] \in Nat /\ fence'[d] = fence[d] + 1
        /\ \A n \in Fence : n # fence[d] + 1 => attempts'[d][n] = attempts[d][n]
        /\ attempts'[d][fence[d] + 1].state = "ACTIVE"
        /\ \A e \in Delivery : e # d => Same(e)
    BY StartEffect
  <2>2. ASSUME NEW e \in Delivery, NEW n \in Fence
        PROVE  <<e, n>> \in Unconfirmed' <=> <<e, n>> \in Unconfirmed \cup {<<d, fence[d] + 1>>}
    <3>1. CASE e # d
      BY <2>1, <3>1 DEF Unconfirmed, Same
    <3>2. CASE e = d /\ n = fence[d] + 1
      BY <2>1, <3>2 DEF Unconfirmed, StopConfirmed
    <3>3. CASE e = d /\ n # fence[d] + 1
      <4>1. n <= fence'[d] <=> n <= fence[d]
        BY <2>1, <3>3 DEF Fence
      <4> QED BY <2>1, <3>3, <4>1 DEF Unconfirmed
    <3> QED BY <3>1, <3>2, <3>3
  <2>3. Unconfirmed \subseteq Delivery \X Fence /\ Unconfirmed' \subseteq Delivery \X Fence
    BY DEF Unconfirmed
  <2> QED BY <2>1, <2>2, <2>3
<1>6. ClosedNow' = ClosedNow
  <2>1. state[d] # "RESULT_RECORDED" /\ state'[d] # "RESULT_RECORDED"
    BY DEF StartAttempt, Open, TypeOK
  <2>2. \A e \in Delivery : state'[e] = "RESULT_RECORDED" <=> state[e] = "RESULT_RECORDED"
    BY <2>1 DEF StartAttempt, TypeOK
  <2> QED BY <2>2 DEF StartAttempt, ClosedNow
<1> QED BY <1>1, <1>4, <1>5, <1>6 DEF Rights!Issue, Rights!TaskSettled, ClosedNow, StartAttempt, payload

LEMMA CancelCloses ==
  ASSUME Inv, NEW d \in Delivery, CancelIntent(d)
  PROVE  Rights!Close(d)
<1> USE DEF Inv
<1>1. task[d] # None
  BY DEF CancelIntent, Exists, StateMatchesRecord, RecordConsistent
<1>2. Unconfirmed' = Unconfirmed
  BY DEF CancelIntent, Unconfirmed
<1>3. \A e \in Delivery : e # d => Same(e)
  BY DEF CancelIntent, Same, TypeOK, payload
<1>4. cancel'[d]
  BY DEF CancelIntent, TypeOK
<1>5. ClosedNow' = [ClosedNow EXCEPT ![d] = TRUE]
  BY <1>3, <1>4, ClosedStep
<1> QED BY <1>1, <1>2, <1>5 DEF Rights!Close, ClosedNow, CancelIntent, payload

\* A closure by UAM is a step of the owner's, or none.
LEMMA OwnClosureClosesOrStutters ==
  ASSUME Inv, NEW d \in Delivery, NEW how \in {"LEASE_EXPIRED", "HANDED_OVER"},
         NEW open \in BOOLEAN, NEW cancelled \in {cancel[d], TRUE},
         CloseStep(d, how, open, cancelled)
  PROVE  Rights!Close(d) \/ UNCHANGED Rights!vars
<1> USE DEF Inv
<1>0. cancelled \in BOOLEAN /\ how \in EndHow
  BY DEF TypeOK, EndHow
<1>1. Unconfirmed' = Unconfirmed
  BY <1>0, OwnClosureKeepsRights
<1>2. /\ \A e \in Delivery : e # d => Same(e)
      /\ cancel'[d] = cancelled
      /\ UNCHANGED <<payload, fence>>
  BY <1>0, CloseStepEffect
<1>3. state[d] # "RESULT_RECORDED" /\ state'[d] # "RESULT_RECORDED" /\ task[d] # None
  <2>1. state[d] = "ATTEMPT_ACTIVE" /\ task[d] # None
    BY DEF CloseStep, StateMatchesRecord, RecordConsistent
  <2>2. state'[d] = StateAfterClose(cancelled, open)
    BY <1>0, CloseEffect DEF CloseStep
  <2> QED BY <2>1, <2>2 DEF StateAfterClose
<1>4. ClosedNow' = [ClosedNow EXCEPT ![d] = cancelled]
  <2>1. (cancel'[d] \/ state'[d] = "RESULT_RECORDED") = cancelled
    BY <1>0, <1>2, <1>3
  <2> QED BY <1>2, <2>1, ClosedStep
<1>5. CASE cancelled = TRUE
  BY <1>1, <1>2, <1>3, <1>4, <1>5 DEF Rights!Close, ClosedNow, payload
<1>6. CASE cancelled = cancel[d]
  <2>1. ClosedNow[d] = cancelled
    BY <1>3, <1>6 DEF ClosedNow, TypeOK
  <2>2. ClosedNow' = ClosedNow
    BY <1>4, <2>1 DEF ClosedNow
  <2> QED BY <1>1, <1>2, <2>2 DEF Rights!vars, ClosedNow, payload
<1> QED BY <1>5, <1>6

LEMMA ReportReturns ==
  ASSUME Inv, NEW d \in Delivery, NEW open \in BOOLEAN, CloseStep(d, "REPORTED", open, cancel[d])
  PROVE  Rights!Return(d)
<1> USE DEF Inv
<1>0. cancel[d] \in BOOLEAN /\ "REPORTED" \in EndHow
  BY DEF TypeOK, EndHow
<1>1. /\ \A e \in Delivery : e # d => Same(e)
      /\ fence[d] \in Fence
      /\ cancel'[d] = cancel[d]
      /\ UNCHANGED <<payload, fence>>
  BY <1>0, CloseStepEffect
<1>2. /\ state'[d] = StateAfterClose(cancel[d], open)
      /\ \A n \in Fence : n # fence[d] => attempts'[d][n] = attempts[d][n]
      /\ attempts'[d][fence[d]].state = "ENDED"
      /\ attempts'[d][fence[d]].how = "REPORTED"
  BY <1>0, CloseEffect DEF CloseStep
<1>3. state[d] # "RESULT_RECORDED" /\ state'[d] # "RESULT_RECORDED"
  BY <1>2 DEF CloseStep, StateMatchesRecord, RecordConsistent, StateAfterClose
<1>4. Unconfirmed' = Unconfirmed \ {<<d, fence[d]>>}
  BY <1>1, <1>2, UnconfirmedReturned DEF Same, StopConfirmed
<1>5. ClosedNow' = ClosedNow
  BY <1>1, <1>3 DEF ClosedNow, Same
<1> QED BY <1>1, <1>4, <1>5 DEF Rights!Return, ClosedNow, payload

LEMMA LateStopReturns ==
  ASSUME Inv, NEW d \in Delivery, NEW n \in Fence, LateStopReport(d, n)
  PROVE  Rights!Return(d)
<1> USE DEF Inv
<1>1. /\ \A m \in Fence : m # n => attempts'[d][m] = attempts[d][m]
      /\ attempts'[d][n].state = "ENDED" /\ attempts'[d][n].late_stop
      /\ n = fence[d]
      /\ \A e \in Delivery : e # d => Same(e)
      /\ UNCHANGED <<state, payload, fence, cancel>>
  BY LateStopEffect
<1>2. Unconfirmed' = Unconfirmed \ {<<d, fence[d]>>}
  BY <1>1, UnconfirmedReturned DEF Same, StopConfirmed
<1>3. ClosedNow' = ClosedNow
  BY <1>1 DEF ClosedNow
<1> QED BY <1>1, <1>2, <1>3 DEF Rights!Return, ClosedNow, payload

LEMMA ResultSettles ==
  ASSUME Inv, NEW d \in Delivery, NEW n \in Fence, NEW id \in ResultId, NEW body \in Body,
         SubmitResult(d, n, id, body)
  PROVE  Rights!Settle(d)
<1> USE DEF Inv
<1>1. /\ n = fence[d]
      /\ state'[d] = "RESULT_RECORDED"
      /\ attempts'[d][n].state = "RESULT_RECORDED"
      /\ \A m \in Fence : m # n => attempts'[d][m] = attempts[d][m]
      /\ \A e \in Delivery : e # d => Same(e)
      /\ UNCHANGED <<payload, cancel, fence>>
  BY SubmitEffect
<1>2. Unconfirmed' = Unconfirmed \ {<<d, fence[d]>>}
  BY <1>1, UnconfirmedReturned DEF Same, StopConfirmed
<1>3. ClosedNow' = [ClosedNow EXCEPT ![d] = TRUE]
  BY <1>1, ClosedStep
<1>4. task[d] # None
  BY <1>1 DEF StateMatchesRecord, RecordConsistent, Fence
<1> QED BY <1>1, <1>2, <1>3, <1>4 DEF Rights!Settle, ClosedNow, payload

LEMMA RightsStep == Inv /\ [Next]_vars => [Rights!Next]_(Rights!vars)
<1> SUFFICES ASSUME Inv, [Next]_vars PROVE Rights!Next \/ UNCHANGED Rights!vars
  OBVIOUS
<1> USE DEF Inv
<1>1. CASE RecordsKept
  BY <1>1 DEF RecordsKept, payload, Rights!vars, Unconfirmed
<1>2. ASSUME NEW d \in Delivery, NEW c \in Contract, NEW t \in Task, NEW r \in Principal,
             NEW S \in SUBSET Delivery, ClaimCutOff(d, c, t, r, S)
      PROVE  UNCHANGED Rights!vars
  BY <1>2 DEF ClaimCutOff, record, payload, Rights!vars, Unconfirmed
<1>3. ASSUME NEW d \in Delivery, NEW n \in Fence, NEW id \in ResultId, NEW body \in Body,
             SubmitCutOff(d, n, id, body)
      PROVE  UNCHANGED Rights!vars
  BY <1>3 DEF SubmitCutOff, record, payload, Rights!vars, Unconfirmed
<1>4. ASSUME NEW d \in Delivery, NEW c \in Contract, NEW t \in Task, NEW r \in Principal,
             NEW S \in SUBSET Delivery, Deliver(d, c, t, r, S)
      PROVE  Rights!Next
  BY <1>4, DeliverRegisters DEF Rights!Next
<1>5. ASSUME NEW d \in Delivery, CancelIntent(d) PROVE Rights!Next
  BY <1>5, CancelCloses DEF Rights!Next
<1>6. ASSUME NEW d \in Delivery, NEW how \in {"LEASE_EXPIRED", "HANDED_OVER"}, NEW open \in BOOLEAN,
             CloseStep(d, how, open, cancel[d]) \/ CloseStep(d, how, open, TRUE)
      PROVE  Rights!Next \/ UNCHANGED Rights!vars
  BY <1>6, OwnClosureClosesOrStutters DEF Rights!Next
<1>7. ASSUME NEW d \in Delivery, NEW open \in BOOLEAN, CloseStep(d, "REPORTED", open, cancel[d])
      PROVE  Rights!Next
  BY <1>7, ReportReturns DEF Rights!Next
<1>8. ASSUME NEW d \in Delivery, StartAttempt(d) PROVE Rights!Next
  BY <1>8, StartIssues DEF Rights!Next
<1>9. ASSUME NEW d \in Delivery, NEW n \in Fence, LateStopReport(d, n) PROVE Rights!Next
  BY <1>9, LateStopReturns DEF Rights!Next
<1>10. ASSUME NEW d \in Delivery, NEW n \in Fence, NEW id \in ResultId, NEW body \in Body,
              SubmitResult(d, n, id, body)
       PROVE  Rights!Next
  BY <1>10, ResultSettles DEF Rights!Next
<1> HIDE DEF Inv
<1>11. TypeOK
  BY DEF Inv
<1> QED BY <1>1, <1>2, <1>3, <1>4, <1>5, <1>6, <1>7, <1>8, <1>9, <1>10, <1>11, StepKinds

\* The control implements the rights an owner was promised (ImplementsRights), for every number of
\* deliveries, tasks, attempts and handovers.
THEOREM Refinement == Spec => ImplementsRights
BY RightsInit, RightsStep, InductiveInvariant, PTL DEF Spec, ImplementsRights, Rights!Spec

-----------------------------------------------------------------------------
(* What the refinement says about the executors.                           *)

\* The theorems about ExecutionRights, at the state of TaskContinuity.
Proved == INSTANCE ExecutionRightsProofs WITH
  links <- continues,
  closed <- [d \in Delivery |-> cancel[d] \/ state[d] = "RESULT_RECORDED"],
  issued <- fence,
  rights <- Unconfirmed

\* The rights of one task that are out are linked.
LEMMA RightsLinked == Spec => []Rights!RightsAreLinked
<1>1. Rights!Init => Proved!Init
  BY DEF Rights!Init, Proved!Init
<1>2. [Rights!Next]_(Rights!vars) => [Proved!Next]_(Proved!vars)
  BY DEF Rights!Next, Proved!Next, Rights!vars, Proved!vars, Rights!Register, Proved!Register,
     Rights!Issue, Proved!Issue, Rights!TaskSettled, Proved!TaskSettled, Rights!Return,
     Proved!Return, Rights!Close, Proved!Close, Rights!Settle, Proved!Settle
<1>3. Proved!RightsAreLinked => Rights!RightsAreLinked
  BY DEF Rights!RightsAreLinked, Proved!RightsAreLinked
<1>4. Proved!Spec => []Proved!RightsAreLinked
  BY Proved!RightsStayLinked
<1> QED BY <1>1, <1>2, <1>3, <1>4, Refinement, PTL
    DEF ImplementsRights, Rights!Spec, Proved!Spec

\* Executors of one task that run at the same time belong to two linked deliveries
\* (UnlinkedExecutorsNeverOverlap): the record's rule holds of the executors themselves.
THEOREM ExecutorsNeverOverlapUnlinked == Spec => []UnlinkedExecutorsNeverOverlap
<1>1. WorkingIsUnconfirmed /\ Rights!RightsAreLinked => UnlinkedExecutorsNeverOverlap
  BY DEF WorkingIsUnconfirmed, Rights!RightsAreLinked, UnlinkedExecutorsNeverOverlap
<1> QED BY <1>1, RightsLinked, WorkingStaysUnconfirmed, PTL

-----------------------------------------------------------------------------
(* One active attempt per task.                                            *)

LEMMA InitSettled == Init => ActiveWhileSiblingsSettled
BY DEF Init, ActiveWhileSiblingsSettled, Active

\* An attempt becomes active by a start only.
LEMMA OnlyStartActivates ==
  ASSUME Inv, [Next]_vars, NEW e \in Delivery, Active(e)'
  PROVE  StartAttempt(e) \/ Active(e)
<1> USE DEF Inv
<1>1. CASE Same(e)
  BY <1>1 DEF Same, Active
<1>2. CASE CancelIntent(e)
  BY <1>2 DEF CancelIntent, Active
<1>3. ~ \E c \in Contract, t \in Task, r \in Principal, S \in SUBSET Delivery :
          Deliver(e, c, t, r, S)
  BY DEF Deliver, Deliverable, Exists, StateMatchesRecord, RecordConsistent, Active
<1>4. ~ \E n \in Fence : LateStopReport(e, n)
  <2>1. ASSUME NEW n \in Fence, LateStopReport(e, n) PROVE FALSE
    BY <2>1, LateStopEffect DEF Active
  <2> QED BY <2>1
<1>5. ~ \E n \in Fence, id \in ResultId, body \in Body : SubmitResult(e, n, id, body)
  <2>1. ASSUME NEW n \in Fence, NEW id \in ResultId, NEW body \in Body, SubmitResult(e, n, id, body)
        PROVE  FALSE
    BY <2>1, SubmitEffect DEF Active
  <2> QED BY <2>1
<1> QED BY <1>1, <1>2, <1>3, <1>4, <1>5, DeliverySteps DEF CloseStep

\* A delivery becomes unresolved by the closure of its active attempt, or by a start.
LEMMA OnlyAttemptsUnresolve ==
  ASSUME Inv, [Next]_vars, NEW e \in Delivery, Unresolved(e)'
  PROVE  StartAttempt(e) \/ Active(e) \/ Unresolved(e)
<1> USE DEF Inv
<1>1. CASE Same(e)
  BY <1>1 DEF Same, Unresolved, IsUnresolved
<1>2. CASE CancelIntent(e)
  BY <1>2 DEF CancelIntent, Unresolved, IsUnresolved
<1>3. ~ \E c \in Contract, t \in Task, r \in Principal, S \in SUBSET Delivery :
          Deliver(e, c, t, r, S)
  BY DEF Deliver, Deliverable, Exists, StateMatchesRecord, RecordConsistent, Unresolved, IsUnresolved
<1>4. ASSUME NEW n \in Fence, LateStopReport(e, n)
      PROVE  Unresolved(e)
  <2>1. n = fence[e] /\ UnconfirmedEnd(attempts[e][n]) /\ n \in 1..fence[e] /\ fence[e] > 0
    BY <1>4 DEF LateStopReport, Fence
  <2>2. state[e] # "RESULT_RECORDED"
    BY <1>4, LateStopEffect DEF Unresolved, IsUnresolved
  <2>3. ~StopConfirmed(attempts[e][n])
    BY <2>1 DEF UnconfirmedEnd, StopConfirmed, UNCONFIRMED_ENDS
  <2> QED BY <2>1, <2>2, <2>3 DEF Unresolved, IsUnresolved
<1>5. ~ \E n \in Fence, id \in ResultId, body \in Body : SubmitResult(e, n, id, body)
  <2>1. ASSUME NEW n \in Fence, NEW id \in ResultId, NEW body \in Body, SubmitResult(e, n, id, body)
        PROVE  FALSE
    BY <2>1, SubmitEffect DEF Unresolved, IsUnresolved
  <2> QED BY <2>1
<1> QED BY <1>1, <1>2, <1>3, <1>4, <1>5, DeliverySteps DEF CloseStep

LEMMA SettledStep ==
  ASSUME Inv, ActiveWhileSiblingsSettled, [Next]_vars
  PROVE  ActiveWhileSiblingsSettled'
<1> USE DEF Inv
<1> SUFFICES ASSUME NEW d \in Delivery, Active(d)', NEW e \in Delivery, e # d, Exists(e)',
                    task'[e] = task'[d]
             PROVE  ~Active(e)' /\ (Unresolved(e)' => e \in continues'[d])
  BY DEF ActiveWhileSiblingsSettled, Siblings, InTask
<1>1. Exists(d) /\ task'[d] = task[d] /\ continues'[d] = continues[d]
  <2>1. Exists(d)
    BY OnlyStartActivates DEF StartAttempt, Open, Exists, StateMatchesRecord, RecordConsistent
  <2> QED BY <2>1, PayloadStep DEF Deliver, Deliverable
<1>2. CASE ~Exists(e)
  <2>1. fence[e] = 0 /\ ~Active(e) /\ ~Unresolved(e) /\ ~StartAttempt(e)
    BY <1>2 DEF StateMatchesRecord, RecordConsistent, Exists, Active, Unresolved, IsUnresolved,
      StartAttempt, Open
  <2> QED BY <2>1, OnlyStartActivates, OnlyAttemptsUnresolve
<1>3. CASE Exists(e)
  <2>1. task[e] = task[d]
    BY <1>1, <1>3, PayloadStep DEF Deliver, Deliverable
  <2>2. e \in Siblings(d) /\ d \in Siblings(e)
    BY <1>1, <1>3, <2>1 DEF Siblings, InTask
  <2>3. CASE StartAttempt(d)
    <3>1. TaskFree(d)
      BY <2>3 DEF StartAttempt
    <3>2. Same(e)
      BY <2>3, StartEffect
    <3> QED BY <1>1, <2>2, <3>1, <3>2 DEF TaskFree, Same, Active, Unresolved, IsUnresolved
  <2>4. CASE Active(d)
    <3>1. ~Active(e) /\ (Unresolved(e) => e \in continues[d])
      BY <2>2, <2>4 DEF ActiveWhileSiblingsSettled
    <3>2. ~StartAttempt(e)
      BY <2>2, <2>4 DEF StartAttempt, TaskFree
    <3> QED BY <1>1, <3>1, <3>2, OnlyStartActivates, OnlyAttemptsUnresolve
  <2> QED BY <2>3, <2>4, OnlyStartActivates
<1> QED BY <1>2, <1>3

\* While a delivery has an active attempt, its siblings are settled (ActiveWhileSiblingsSettled).
THEOREM SiblingsStaySettled == Spec => []ActiveWhileSiblingsSettled
<1>1. Inv /\ ActiveWhileSiblingsSettled /\ [Next]_vars => ActiveWhileSiblingsSettled'
  BY SettledStep
<1> QED BY InitSettled, <1>1, InductiveInvariant, PTL DEF Spec

\* A task never has two active attempts (OneActiveAttemptPerTask).
THEOREM SingleActive == Spec => []OneActiveAttemptPerTask
<1>1. Inv /\ ActiveWhileSiblingsSettled => OneActiveAttemptPerTask
  BY DEF Inv, StateMatchesRecord, RecordConsistent, ActiveWhileSiblingsSettled, Siblings,
    InTask, Exists, OneActiveAttemptPerTask
<1> QED BY <1>1, InductiveInvariant, SiblingsStaySettled, PTL

=============================================================================
