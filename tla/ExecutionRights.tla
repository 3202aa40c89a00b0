--------------------------- MODULE ExecutionRights ---------------------------
(***************************************************************************)
(* What the continuity control promises to the owner of a business task,   *)
(* without fences, leases, roles, closures or crashes: a delivery is       *)
(* issued one right to execute after another; a right stays out until its  *)
(* executor gave it back, whatever else is recorded; and a new right of a  *)
(* task is issued only while every right of that task that is still out    *)
(* belongs to a closed delivery that the new one was registered to         *)
(* continue.                                                               *)
(***************************************************************************)
EXTENDS Integers

CONSTANTS Delivery, Task, None

VARIABLES
  task,     \* the task of a registered delivery, None before
  links,    \* the deliveries it continues
  closed,   \* no further right is issued for it
  issued,   \* number of rights issued for it so far
  rights    \* rights that are out: <<delivery, number>>

vars == <<task, links, closed, issued, rights>>

TypeOK ==
  /\ task \in [Delivery -> Task \cup {None}]
  /\ links \in [Delivery -> SUBSET Delivery]
  /\ closed \in [Delivery -> BOOLEAN]
  /\ issued \in [Delivery -> Nat]
  /\ rights \subseteq Delivery \X Nat

Init ==
  /\ task = [d \in Delivery |-> None]
  /\ links = [d \in Delivery |-> {}]
  /\ closed = [d \in Delivery |-> FALSE]
  /\ issued = [d \in Delivery |-> 0]
  /\ rights = {}

\* A delivery joins its task and names the closed deliveries it continues.
Register(d, t, S) ==
  /\ task[d] = None
  /\ \A p \in S : task[p] = t /\ closed[p]
  /\ task' = [task EXCEPT ![d] = t]
  /\ links' = [links EXCEPT ![d] = S]
  /\ UNCHANGED <<closed, issued, rights>>

\* Every right of the task that is out belongs to another delivery, which d continues.
TaskSettled(d) ==
  \A w \in rights : task[w[1]] = task[d] => w[1] # d /\ w[1] \in links[d]

Issue(d) ==
  /\ task[d] # None
  /\ ~closed[d]
  /\ TaskSettled(d)
  /\ issued' = [issued EXCEPT ![d] = @ + 1]
  /\ rights' = rights \cup {<<d, issued[d] + 1>>}
  /\ UNCHANGED <<task, links, closed>>

\* The latest right comes back: a stop is reported.
Return(d) ==
  /\ rights' = rights \ {<<d, issued[d]>>}
  /\ UNCHANGED <<task, links, closed, issued>>

\* The owner withdraws the delivery.  A right that is out stays out.
Close(d) ==
  /\ task[d] # None
  /\ closed' = [closed EXCEPT ![d] = TRUE]
  /\ UNCHANGED <<task, links, issued, rights>>

\* A result closes the delivery and returns its latest right.
Settle(d) ==
  /\ task[d] # None
  /\ closed' = [closed EXCEPT ![d] = TRUE]
  /\ rights' = rights \ {<<d, issued[d]>>}
  /\ UNCHANGED <<task, links, issued>>

Next ==
  \E d \in Delivery :
    \/ \E t \in Task, S \in SUBSET Delivery : Register(d, t, S)
    \/ Issue(d)
    \/ Return(d)
    \/ Close(d)
    \/ Settle(d)

Spec == Init /\ [][Next]_vars

-----------------------------------------------------------------------------

\* Two rights of one task that are out at the same time belong to two deliveries, one of which
\* was registered to continue the other, closed, one (deliver_continuity and the start gates).
RightsAreLinked ==
  \A w, v \in rights :
    w # v /\ task[w[1]] = task[v[1]] =>
      /\ w[1] # v[1]
      /\ w[1] \in links[v[1]] \/ v[1] \in links[w[1]]

=============================================================================
