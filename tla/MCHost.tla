-------------------------------- MODULE MCHost --------------------------------
(* Instances of Host for TLC.                                              *)
EXTENDS Host

CONSTANT w1

\* The only workspace's root is declared to be gone, and its canary to fail with it.
DeclaredGap ==
  [registered |-> 1, available |-> 0, unavailable |-> [w \in {w1} |-> "root_missing"],
   canaryTotal |-> 1, canaryFailing |-> {w1}]

StrictOrDeclared == {Strict, DeclaredGap}

=============================================================================
