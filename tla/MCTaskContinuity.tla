-------------------------- MODULE MCTaskContinuity --------------------------
(* Instances of TaskContinuity for TLC.                                    *)
EXTENDS TaskContinuity, TLC

CONSTANT p1

\* One principal sends everything: deliveries differ by their idempotency key.
OneSender == [d \in Delivery |-> p1]

\* Deliveries, contracts, result ids and the principals beside the sender are interchangeable.
Symmetry ==
  UNION {Permutations(Delivery), Permutations(Contract), Permutations(ResultId),
         Permutations(Principal \ {p1})}

=============================================================================
