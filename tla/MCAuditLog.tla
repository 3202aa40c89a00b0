----------------------------- MODULE MCAuditLog -----------------------------
(* Instances of AuditLog for TLC.                                          *)
EXTENDS AuditLog, TLC

Symmetry == Permutations(Writer)

=============================================================================
