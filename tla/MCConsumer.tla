----------------------------- MODULE MCConsumer -----------------------------
(* Instances of Consumer for TLC.                                          *)
EXTENDS Consumer, TLC

CONSTANTS d1, d2

\* Every delivery may change the same paths.
SamePath == [d \in Delivery |-> Path]

Symmetry == Permutations(Content)

=============================================================================
