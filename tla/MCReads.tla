------------------------------- MODULE MCReads -------------------------------
(* Instances of Reads for TLC.                                             *)
EXTENDS Reads, TLC

CONSTANTS root, other, a, z, p, f, g, h, l, m, outer, inner, pocket

Same == [n \in Name |-> IF n = "Z" THEN "z" ELSE n]

\* A scope that denies inside of the scope of the root, and one that allows inside of that.
Roots == outer :> <<>> @@ inner :> <<"z">> @@ pocket :> <<"z", "p">>

Holding(some) == some @@ [n \in Name |-> None]

Tree ==
  root :> Holding("a" :> a @@ "z" :> z @@ "l" :> l) @@ other :> Holding("a" :> a)
    @@ a :> Holding("f" :> f) @@ z :> Holding("f" :> g @@ "p" :> p) @@ p :> Holding("f" :> h)

Texts == l :> <<"a", "..", "z", "f">> @@ m :> <<"z">>

\* The secret file under another name, a link in the place of a file or a directory, a file gone.
Turned == {<<a, "f", g>>, <<a, "f", l>>, <<root, "a", m>>, <<p, "f", None>>}

Everything == outer :> Right @@ inner :> Right @@ pocket :> Right
Nested == outer :> Right @@ inner :> {"metadata_read"} @@ pocket :> Right
Closed == outer :> {"metadata_read"} @@ inner :> {} @@ pocket :> {}
Some == {Nested, Everything, Closed}

Asked == {<<>>, <<"a", "f">>, <<"Z", "f">>, <<"l">>}

\* Where the directories of this tree are.
Home == root :> <<>> @@ other :> <<>> @@ a :> <<"a">> @@ z :> <<"z">> @@ p :> <<"z", "p">>

ASSUME HomeAssumption == Settled(Home) /\ ScopesSpelled(Home)

===============================================================================
