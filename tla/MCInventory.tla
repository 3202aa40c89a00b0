----------------------------- MODULE MCInventory -----------------------------
(* Instances of Inventory for TLC.                                         *)
EXTENDS Inventory, TLC

CONSTANTS outer, inner, r1, r2

Same == [n \in Name |-> IF n = "A" THEN "a" ELSE n]

\* A scope inside of another, and a repository in each.
Roots == outer :> <<>> @@ inner :> <<"a">>
Places == r1 :> <<"b">> @@ r2 :> <<"a", "b">>
Names == r1 :> "b" @@ r2 :> "b"
Remotes == r1 :> "x" @@ r2 :> None

\* The inner scope may not be looked through; it is not there; the file is gone.
Narrow == outer :> Right @@ inner :> {"content_read", "auto_admit", "directory_admit", "index"}
Lost == outer :> Right
Some == {Narrow, Lost, None}

Paths == {[path |-> <<"A", "b">>, git |-> TRUE], [path |-> <<"a">>, git |-> FALSE],
          [path |-> <<"b">>, git |-> TRUE], [path |-> <<>>, git |-> FALSE]}

=============================================================================
