----------------------------- MODULE ScopesProofs -----------------------------
(***************************************************************************)
(* Lemmas about paths and the authority of scopes over them, for any       *)
(* policy.                                                                 *)
(***************************************************************************)
EXTENDS Scopes, SequenceTheorems, FiniteSetTheorems, TLAPS

LEMMA PrefixElementwise ==
  ASSUME NEW S, NEW s \in Seq(S), NEW t \in Seq(S)
  PROVE  IsPrefix(s, t) <=> Len(s) <= Len(t) /\ \A i \in 1..Len(s) : s[i] = t[i]
<1> DEFINE u == SubSeq(s, 1, Len(s))
           v == SubSeq(t, 1, Len(s))
<1>1. Len(s) \in Nat /\ Len(t) \in Nat
  OBVIOUS
<1>2. ASSUME Len(s) <= Len(t)
      PROVE  (u = v) <=> \A i \in 1..Len(s) : s[i] = t[i]
  <2>1. u = s
    BY SubSeqFull
  <2>2. /\ v \in Seq(S) /\ Len(v) = Len(s)
        /\ \A i \in 1..Len(s) : v[i] = t[i]
    BY <1>1, <1>2
  <2>3. (s = v) <=> \A i \in 1..Len(s) : s[i] = v[i]
    BY <2>2, SeqEqual
  <2> QED
    BY <2>1, <2>2, <2>3
<1> QED
  BY <1>1, <1>2 DEF IsPrefix

LEMMA FoldedPath ==
  ASSUME NEW s \in Seq(Name)
  PROVE  Folded(s) \in Seq(Name) /\ Len(Folded(s)) = Len(s) /\ \A i \in 1..Len(s) : Folded(s)[i] = Fold[s[i]]
<1>1. DOMAIN s = 1..Len(s) /\ Len(s) \in Nat /\ \A i \in 1..Len(s) : s[i] \in Name
  OBVIOUS
<1>2. Folded(s) = [i \in 1..Len(s) |-> Fold[s[i]]]
  BY <1>1 DEF Folded
<1>3. \A i \in 1..Len(s) : Fold[s[i]] \in Name
  BY <1>1, FoldAssumption
<1> QED
  BY <1>1, <1>2, <1>3, IsASeq

\* A scope that covers a path as it is spelled covers it as it folds.
LEMMA CoversAsItFolds ==
  ASSUME NEW s \in Scope, NEW q \in Seq(Name), Covers(s, q) PROVE CoversFolded(s, q)
<1> DEFINE r == ScopeRoot[s]
<1>1. r \in Seq(Name)
  BY ScopeRootAssumption
<1>2. Len(r) \in Nat /\ Len(q) \in Nat /\ Len(r) <= Len(q) /\ \A i \in 1..Len(r) : r[i] = q[i]
  BY <1>1, PrefixElementwise DEF Covers
<1>3. /\ Folded(r) \in Seq(Name) /\ Len(Folded(r)) = Len(r)
      /\ Folded(q) \in Seq(Name) /\ Len(Folded(q)) = Len(q)
  BY <1>1, FoldedPath
<1>4. \A i \in 1..Len(r) : Folded(r)[i] = Folded(q)[i]
  BY <1>1, <1>2, FoldedPath
<1> QED
  BY <1>2, <1>3, <1>4, PrefixElementwise DEF CoversFolded

\* A scope covers a path inside of a directory that no scope begins in exactly when it covers the
\* directory, as spelled and as folded.
LEMMA SameCover ==
  ASSUME NEW P, DOMAIN P \subseteq Scope, NEW path \in Seq(Name), NEW q \in Seq(Name),
         IsPrefix(path, q), NestedScopes(P, path) = {}, NEW s \in DOMAIN P
  PROVE  (Covers(s, q) <=> Covers(s, path)) /\ (CoversFolded(s, q) <=> CoversFolded(s, path))
<1> DEFINE r == ScopeRoot[s]
<1>1. r \in Seq(Name)
  BY ScopeRootAssumption
<1>2. Len(r) \in Nat /\ Len(path) \in Nat /\ Len(q) \in Nat
  BY <1>1
<1>3. Len(path) <= Len(q) /\ \A i \in 1..Len(path) : path[i] = q[i]
  BY PrefixElementwise
<1>4. /\ Folded(r) \in Seq(Name) /\ Len(Folded(r)) = Len(r)
      /\ Folded(path) \in Seq(Name) /\ Len(Folded(path)) = Len(path)
      /\ Folded(q) \in Seq(Name) /\ Len(Folded(q)) = Len(q)
  BY <1>1, FoldedPath
<1>5. \A i \in 1..Len(path) : Folded(path)[i] = Folded(q)[i]
  BY <1>2, <1>3, FoldedPath
<1>6. \A i \in 1..Len(path) : path[i] = r[i] => Folded(path)[i] = Fold[r[i]]
  BY FoldedPath
<1>7. ~(Len(r) > Len(path) /\ IsPrefix(Folded(path), Folded(r)))
  BY DEF NestedScopes
<1>8. Len(r) > Len(path) => ~CoversFolded(s, q)
  <2> SUFFICES ASSUME Len(r) > Len(path), CoversFolded(s, q) PROVE FALSE
    OBVIOUS
  <2>1. \A i \in 1..Len(r) : Folded(r)[i] = Folded(q)[i]
    BY <1>4, PrefixElementwise DEF CoversFolded
  <2>2. \A i \in 1..Len(path) : Folded(path)[i] = Folded(r)[i]
    BY <2>1, <1>2, <1>5
  <2> QED
    BY <2>2, <1>2, <1>4, <1>7, PrefixElementwise
<1>9. Covers(s, q) => CoversFolded(s, q)
  BY CoversAsItFolds
<1>10. Covers(s, q) <=> Covers(s, path)
  <2> HIDE DEF r
  <2>0. Covers(s, q) = IsPrefix(r, q) /\ Covers(s, path) = IsPrefix(r, path)
    BY DEF Covers, r
  <2>1. Covers(s, q) <=> Len(r) <= Len(q) /\ \A i \in 1..Len(r) : r[i] = q[i]
    BY <2>0, <1>1, PrefixElementwise
  <2>2. Covers(s, path) <=> Len(r) <= Len(path) /\ \A i \in 1..Len(r) : r[i] = path[i]
    BY <2>0, <1>1, PrefixElementwise
  <2>3. CASE Len(r) <= Len(path)
    <3>1. \A i \in 1..Len(r) : path[i] = q[i]
      BY <2>3, <1>2, <1>3
    <3> QED
      BY <2>1, <2>2, <2>3, <3>1, <1>2, <1>3
  <2>4. CASE Len(r) > Len(path)
    BY <2>2, <2>4, <1>2, <1>8, <1>9
  <2> QED
    BY <2>3, <2>4, <1>2
<1>11. CoversFolded(s, q) <=> CoversFolded(s, path)
  <2>1. CoversFolded(s, q) <=> Len(r) <= Len(q) /\ \A i \in 1..Len(r) : Folded(r)[i] = Folded(q)[i]
    BY <1>4, PrefixElementwise DEF CoversFolded
  <2>2. CoversFolded(s, path) <=>
          Len(r) <= Len(path) /\ \A i \in 1..Len(r) : Folded(r)[i] = Folded(path)[i]
    BY <1>4, PrefixElementwise DEF CoversFolded
  <2>3. CASE Len(r) <= Len(path)
    <3>1. \A i \in 1..Len(r) : Folded(path)[i] = Folded(q)[i]
      BY <2>3, <1>2, <1>5
    <3> QED
      BY <2>1, <2>2, <2>3, <3>1, <1>2, <1>3
  <2>4. CASE Len(r) > Len(path)
    BY <2>2, <2>4, <1>2, <1>8
  <2> QED
    BY <2>3, <2>4, <1>2
<1> QED
  BY <1>10, <1>11

\* A directory in which no scope begins has one authority throughout.
LEMMA OneAuthority ==
  ASSUME NEW P, DOMAIN P \subseteq Scope, NEW path \in Seq(Name), NEW q \in Seq(Name),
         IsPrefix(path, q), NestedScopes(P, path) = {}
  PROVE  Authority(P, q) = Authority(P, path)
<1>1. \A s \in DOMAIN P : (Covers(s, q) <=> Covers(s, path)) /\ (CoversFolded(s, q) <=> CoversFolded(s, path))
  BY SameCover
<1>2. {s \in DOMAIN P : Covers(s, q)} = {s \in DOMAIN P : Covers(s, path)}
  BY <1>1
<1>3. {s \in DOMAIN P : CoversFolded(s, q)} = {s \in DOMAIN P : CoversFolded(s, path)}
  BY <1>1
<1> QED
  BY <1>2, <1>3, Zenon DEF Authority, ResolveScope

\* Some numbers have a smallest one (the library's least-number principle takes an operator).
LEMMA Smallest ==
  ASSUME NEW n \in Nat, NEW S \in SUBSET (1..n), S # {}
  PROVE  \E m \in S : \A k \in S : m <= k
<1> DEFINE all == 1..n
           upTo(k) == 1..k
<1>1. {upTo(k) : k \in S} \subseteq SUBSET all /\ {upTo(k) : k \in S} # {}
  <2>1. \A k \in S : upTo(k) \in SUBSET all
    OBVIOUS
  <2> HIDE DEF upTo, all
  <2> QED
    BY <2>1
<1>2. IsWellFoundedOn(StrictSubsetOrdering(all), SUBSET all)
  <2>1. IsFiniteSet(all)
    BY FS_Interval
  <2> HIDE DEF all
  <2>2. FiniteSubsetsOf(all) = SUBSET all
    BY <2>1, FS_FiniteSubsetsOfFinite
  <2>3. IsWellFoundedOn(StrictSubsetOrdering(all), FiniteSubsetsOf(all))
    BY FS_StrictSubsetOrderingWellFounded
  <2> QED
    BY <2>2, <2>3
<1>3. PICK m \in S : \A k \in S : <<upTo(k), upTo(m)>> \notin StrictSubsetOrdering(all)
  <2> HIDE DEF upTo, all
  <2>1. \E x \in {upTo(k) : k \in S} :
          \A y \in {upTo(k) : k \in S} : <<y, x>> \notin StrictSubsetOrdering(all)
    BY <1>1, <1>2, WFMin
  <2> QED
    BY <2>1
<1>4. ASSUME NEW k \in S, ~(m <= k) PROVE FALSE
  <2>1. upTo(k) \subseteq upTo(m) /\ m \in upTo(m) /\ m \notin upTo(k)
    BY <1>4
  <2>2. upTo(k) \in SUBSET all /\ upTo(m) \in SUBSET all
    OBVIOUS
  <2> HIDE DEF upTo, all
  <2> QED
    BY <1>3, <2>1, <2>2 DEF StrictSubsetOrdering
<1> QED
  BY <1>4

\* Among scopes that cover one path there is a most specific one.
LEMMA MostSpecificIsOne ==
  ASSUME NEW path \in Seq(Name), NEW scopes \in SUBSET Scope, scopes # {},
         \A s \in scopes : Len(ScopeRoot[s]) <= Len(path)
  PROVE  /\ MostSpecific(scopes) \in scopes
         /\ \A t \in scopes : Len(ScopeRoot[t]) <= Len(ScopeRoot[MostSpecific(scopes)])
<1> DEFINE beneath(s) == (Len(ScopeRoot[s]) + 1)..Len(path)
           all == 1..Len(path)
<1>1. \A s \in scopes : Len(ScopeRoot[s]) \in Nat /\ beneath(s) \in SUBSET all
  BY ScopeRootAssumption
<1>2. {beneath(s) : s \in scopes} \subseteq SUBSET all /\ {beneath(s) : s \in scopes} # {}
  BY <1>1
<1>3. IsWellFoundedOn(StrictSubsetOrdering(all), SUBSET all)
  <2>1. IsFiniteSet(all)
    BY FS_Interval
  <2> HIDE DEF all
  <2>2. FiniteSubsetsOf(all) = SUBSET all
    BY <2>1, FS_FiniteSubsetsOfFinite
  <2>3. IsWellFoundedOn(StrictSubsetOrdering(all), FiniteSubsetsOf(all))
    BY FS_StrictSubsetOrderingWellFounded
  <2> QED
    BY <2>2, <2>3
<1>4. PICK s \in scopes : \A t \in scopes : <<beneath(t), beneath(s)>> \notin StrictSubsetOrdering(all)
  <2> HIDE DEF beneath, all
  <2>1. \E x \in {beneath(s) : s \in scopes} :
          \A y \in {beneath(s) : s \in scopes} : <<y, x>> \notin StrictSubsetOrdering(all)
    BY <1>2, <1>3, WFMin
  <2> QED
    BY <2>1
<1>5. ASSUME NEW t \in scopes PROVE Len(ScopeRoot[t]) <= Len(ScopeRoot[s])
  <2> SUFFICES ASSUME Len(ScopeRoot[t]) > Len(ScopeRoot[s]) PROVE FALSE
    BY <1>1
  <2>1. beneath(t) \subseteq beneath(s)
    BY <1>1
  <2>2. Len(ScopeRoot[t]) \in beneath(s) /\ Len(ScopeRoot[t]) \notin beneath(t)
    BY <1>1
  <2> HIDE DEF beneath, all
  <2> QED
    BY <1>1, <1>4, <2>1, <2>2 DEF StrictSubsetOrdering
<1> QED
  BY <1>5 DEF MostSpecific

\* The scopes that decide about a path are scopes of the view.
LEMMA GoverningScopes ==
  ASSUME NEW view, DOMAIN view \subseteq Scope, NEW path \in Seq(Name)
  PROVE  Governing(view, path) \subseteq DOMAIN view
<1> DEFINE exact == {s \in DOMAIN view : Covers(s, path)}
           folded == {s \in DOMAIN view : CoversFolded(s, path)}
<1>1. exact \subseteq folded /\ folded \subseteq Scope
  BY CoversAsItFolds
<1>2. \A s \in folded : Len(ScopeRoot[s]) <= Len(path)
  <2>1. ASSUME NEW s \in folded PROVE Len(ScopeRoot[s]) <= Len(path)
    <3>1. IsPrefix(Folded(ScopeRoot[s]), Folded(path))
      BY DEF CoversFolded
    <3>2. ScopeRoot[s] \in Seq(Name)
      BY ScopeRootAssumption
    <3> QED
      BY <3>1, <3>2, FoldedPath DEF IsPrefix
  <2> QED
    BY <2>1
<1> HIDE DEF exact, folded
<1>3. /\ exact # {} => MostSpecific(exact) \in exact
      /\ folded # {} => MostSpecific(folded) \in folded
  BY <1>1, <1>2, MostSpecificIsOne
<1>4. MostSpecific({}) = None
  BY DEF MostSpecific
<1>5. exact \subseteq DOMAIN view /\ folded \subseteq DOMAIN view
  BY DEF exact, folded
<1>6. Governing(view, path) = {MostSpecific(exact), MostSpecific(folded)} \ {None}
  BY DEF Governing, exact, folded
<1> QED
  BY <1>3, <1>4, <1>5, <1>6

\* Where a policy covers a directory, a scope decides about it.
LEMMA SomeScopeDecides ==
  ASSUME NEW P, DOMAIN P \subseteq Scope, NEW scope \in DOMAIN P, NEW path \in Seq(Name),
         IsPrefix(ScopeRoot[scope], path)
  PROVE  ResolveScope(P, path) # None
<1> DEFINE scopes == {s \in DOMAIN P : Covers(s, path)}
<1>1. scope \in scopes /\ scopes \in SUBSET Scope
  BY DEF Covers
<1>2. \A s \in scopes : Len(ScopeRoot[s]) <= Len(path)
  BY ScopeRootAssumption, PrefixElementwise DEF Covers
<1>3. MostSpecific(scopes) \in scopes
  <2> HIDE DEF scopes
  <2> QED
    BY <1>1, <1>2, MostSpecificIsOne
<1> QED
  BY <1>1, <1>3, ScopeAssumption DEF ResolveScope

\* A finite set, put in some order.
LEMMA InSomeOrder ==
  ASSUME NEW S, IsFiniteSet(S)
  PROVE  /\ SetToSeq(S) \in Seq(S)
         /\ \A x \in S : \E i \in DOMAIN SetToSeq(S) : SetToSeq(S)[i] = x
<1>1. PICK f : f \in Bijection(1..Cardinality(S), S)
  BY FS_CardinalityType DEF ExistsBijection
<1>2. f \in [1..Cardinality(S) -> S] /\ IsInjective(f)
  BY <1>1 DEF Bijection, Injection
<1> DEFINE order == SetToSeq(S)
<1>3. order \in [1..Cardinality(S) -> S] /\ IsInjective(order)
  BY <1>2 DEF SetToSeq
<1>4. order \in Surjection(1..Cardinality(S), S)
  <2>1. Cardinality(S) \in Nat /\ Cardinality(1..Cardinality(S)) = Cardinality(S)
    BY FS_CardinalityType, FS_Interval
  <2>2. order \in Injection(1..Cardinality(S), S)
    BY <1>3 DEF Injection
  <2> HIDE DEF order
  <2> QED
    BY <2>1, <2>2, FS_Injection
<1> HIDE DEF order
<1>5. \A x \in S : \E i \in DOMAIN order : order[i] = x
  BY <1>4 DEF Surjection
<1> QED
  BY <1>3, <1>5, FS_CardinalityType DEF order

-----------------------------------------------------------------------------
(* A path and the directories above it.                                    *)

LEMMA Above ==
  ASSUME NEW S, NEW p \in Seq(S), NEW k \in 0..Len(p)
  PROVE  /\ SubSeq(p, 1, k) \in Seq(S) /\ Len(SubSeq(p, 1, k)) = k
         /\ \A i \in 1..k : SubSeq(p, 1, k)[i] = p[i]
<1>1. Len(p) \in Nat /\ \A i \in 1..k : p[i] \in S
  OBVIOUS
<1> DEFINE some == SubSeq(p, 1, k)
<1>2. /\ some \in Seq(S) /\ Len(some) = IF 1 <= k THEN k - 1 + 1 ELSE 0
      /\ \A i \in 1..(k - 1 + 1) : some[i] = p[1 + i - 1]
  BY <1>1, SubSeqProperties
<1> HIDE DEF some
<1>3. Len(some) = k /\ \A i \in 1..k : some[i] = p[i]
  BY <1>1, <1>2
<1> QED
  BY <1>2, <1>3 DEF some

LEMMA OneFarther ==
  ASSUME NEW S, NEW p \in Seq(S), NEW k \in 0..(Len(p) - 1)
  PROVE  Append(SubSeq(p, 1, k), p[k + 1]) = SubSeq(p, 1, k + 1)
<1> DEFINE a == Append(SubSeq(p, 1, k), p[k + 1])
           b == SubSeq(p, 1, k + 1)
<1>1. Len(p) \in Nat /\ k \in 0..Len(p) /\ k + 1 \in 0..Len(p) /\ p[k + 1] \in S
  OBVIOUS
<1>2. /\ SubSeq(p, 1, k) \in Seq(S) /\ Len(SubSeq(p, 1, k)) = k
      /\ \A i \in 1..k : SubSeq(p, 1, k)[i] = p[i]
  BY <1>1, Above
<1>3. b \in Seq(S) /\ Len(b) = k + 1 /\ \A i \in 1..(k + 1) : b[i] = p[i]
  BY <1>1, Above
<1>4. a \in Seq(S) /\ Len(a) = k + 1 /\ a[k + 1] = p[k + 1] /\ \A i \in 1..k : a[i] = SubSeq(p, 1, k)[i]
  BY <1>1, <1>2, AppendProperties
<1> HIDE DEF a, b
<1>5. \A i \in 1..Len(a) : a[i] = b[i]
  BY <1>1, <1>2, <1>3, <1>4
<1>6. a = b
  BY <1>3, <1>4, <1>5, SeqEqual
<1> QED
  BY <1>6 DEF a, b

\* A scope covers what is above a path as it covers the path, if it is no longer.
LEMMA CoversAbove ==
  ASSUME NEW p \in Seq(Name), NEW k \in 0..Len(p), NEW s \in Scope
  PROVE  Covers(s, SubSeq(p, 1, k)) <=> Covers(s, p) /\ Len(ScopeRoot[s]) <= k
<1> DEFINE r == ScopeRoot[s]
           q == SubSeq(p, 1, k)
<1>1. r \in Seq(Name) /\ Len(r) \in Nat /\ Len(p) \in Nat
  BY ScopeRootAssumption
<1>2. q \in Seq(Name) /\ Len(q) = k /\ \A i \in 1..k : q[i] = p[i]
  BY Above
<1> HIDE DEF r, q
<1>3. IsPrefix(r, q) <=> Len(r) <= k /\ \A i \in 1..Len(r) : r[i] = q[i]
  BY <1>1, <1>2, PrefixElementwise
<1>4. IsPrefix(r, p) <=> Len(r) <= Len(p) /\ \A i \in 1..Len(r) : r[i] = p[i]
  BY <1>1, PrefixElementwise
<1>5. Len(r) <= k => Len(r) <= Len(p) /\ \A i \in 1..Len(r) : q[i] = p[i]
  BY <1>1, <1>2
<1> QED
  BY <1>3, <1>4, <1>5 DEF Covers, r, q

\* Every scope that covers the path or what is above it as they fold covers it as it is spelled.
Spelled(p) ==
  \A k \in 1..Len(p) : \A s \in Scope : CoversFolded(s, SubSeq(p, 1, k)) => Covers(s, SubSeq(p, 1, k))

Covering(view, p) == {s \in DOMAIN view : Covers(s, p)}

\* One scope decides about such a path, one that no other is more specific than.
LEMMA GovernedAsSpelled ==
  ASSUME NEW p \in Seq(Name), Spelled(p), NEW k \in 1..Len(p), NEW view, DOMAIN view \subseteq Scope
  PROVE  Governing(view, SubSeq(p, 1, k)) = {MostSpecific(Covering(view, SubSeq(p, 1, k)))} \ {None}
<1>1. SubSeq(p, 1, k) \in Seq(Name)
  BY Above
<1>2. \A s \in DOMAIN view : CoversFolded(s, SubSeq(p, 1, k)) <=> Covers(s, SubSeq(p, 1, k))
  BY <1>1, CoversAsItFolds DEF Spelled
<1>3. {s \in DOMAIN view : CoversFolded(s, SubSeq(p, 1, k))} = Covering(view, SubSeq(p, 1, k))
  BY <1>2 DEF Covering
<1> QED
  BY <1>3 DEF Governing, Covering

\* Where a path is allowed and what is above it is not, a scope starts between them.
LEMMA ScopeBetween ==
  ASSUME NEW p \in Seq(Name), Spelled(p), NEW j \in 1..Len(p), NEW k \in 1..j,
         NEW view, DOMAIN view \subseteq Scope, NEW operation,
         Allows(view, operation, SubSeq(p, 1, j)), ~Allows(view, operation, SubSeq(p, 1, k))
  PROVE  \E s \in DOMAIN view : Covers(s, p) /\ Len(ScopeRoot[s]) > k /\ Len(ScopeRoot[s]) <= j
<1>1. Len(p) \in Nat /\ k \in 1..Len(p) /\ k \in 0..Len(p) /\ j \in 0..Len(p)
  OBVIOUS
<1>2. Covering(view, SubSeq(p, 1, j)) # Covering(view, SubSeq(p, 1, k))
  BY <1>1, GovernedAsSpelled DEF Allows
<1>3. \A s \in DOMAIN view : /\ Len(ScopeRoot[s]) \in Nat
                             /\ Covers(s, SubSeq(p, 1, j)) <=> Covers(s, p) /\ Len(ScopeRoot[s]) <= j
                             /\ Covers(s, SubSeq(p, 1, k)) <=> Covers(s, p) /\ Len(ScopeRoot[s]) <= k
  BY <1>1, CoversAbove, ScopeRootAssumption
<1>4. PICK s \in DOMAIN view : ~(Covers(s, SubSeq(p, 1, j)) <=> Covers(s, SubSeq(p, 1, k)))
  BY <1>2 DEF Covering
<1> QED
  BY <1>3, <1>4

\* A walk enters every directory above a path that is allowed.
LEMMA DescendsThere ==
  ASSUME NEW p \in Seq(Name), Spelled(p), NEW k \in 1..Len(p),
         NEW view, DOMAIN view \subseteq Scope, NEW operation, Allows(view, operation, p)
  PROVE  Descends(view, operation, SubSeq(p, 1, k))
<1> SUFFICES ASSUME ~Allows(view, operation, SubSeq(p, 1, k))
             PROVE  \E s \in DOMAIN view : Grants(view[s], operation)
                                           /\ IsStrictPrefix(SubSeq(p, 1, k), ScopeRoot[s])
  BY DEF Descends
<1> DEFINE scopes == Covering(view, p)
           s == MostSpecific(scopes)
<1>1. Len(p) \in Nat /\ Len(p) \in 1..Len(p) /\ k \in 1..Len(p) /\ SubSeq(p, 1, Len(p)) = p
  BY SubSeqFull
<1>2. PICK t \in DOMAIN view : Covers(t, p) /\ Len(ScopeRoot[t]) > k
  BY <1>1, ScopeBetween
<1>3. t \in scopes /\ scopes \in SUBSET Scope
  BY <1>2 DEF Covering
<1>4. \A u \in scopes : Len(ScopeRoot[u]) <= Len(p)
  BY ScopeRootAssumption, PrefixElementwise DEF Covering, Covers
<1> HIDE DEF scopes
<1>5. s \in scopes /\ Len(ScopeRoot[t]) <= Len(ScopeRoot[s])
  BY <1>3, <1>4, MostSpecificIsOne
<1>6. Governing(view, p) = {s} \ {None}
  BY <1>1, GovernedAsSpelled DEF scopes
<1>7. s # None
  BY <1>3, <1>5, ScopeAssumption
<1> HIDE DEF s
<1>8. Grants(view[s], operation)
  BY <1>6, <1>7 DEF Allows
<1>9. s \in DOMAIN view /\ s \in Scope /\ Covers(s, p)
  BY <1>3, <1>5 DEF scopes, Covering
<1>10. IsStrictPrefix(SubSeq(p, 1, k), ScopeRoot[s])
  <2> DEFINE r == ScopeRoot[s]
             q == SubSeq(p, 1, k)
  <2>1. r \in Seq(Name) /\ Len(r) \in Nat /\ Len(ScopeRoot[t]) \in Nat
    BY <1>3, <1>9, ScopeRootAssumption
  <2>2. q \in Seq(Name) /\ Len(q) = k /\ \A i \in 1..k : q[i] = p[i]
    BY <1>1, Above
  <2>3. Len(r) > k
    BY <1>2, <1>5, <2>1
  <2>4. \A i \in 1..Len(r) : r[i] = p[i]
    BY <1>9, <2>1, PrefixElementwise DEF Covers
  <2> HIDE DEF r, q
  <2>5. \A i \in 1..Len(q) : q[i] = r[i]
    BY <2>1, <2>2, <2>3, <2>4
  <2>6. IsPrefix(q, r) /\ q # r
    BY <2>1, <2>2, <2>3, <2>5, PrefixElementwise
  <2> QED
    BY <2>6 DEF IsStrictPrefix, r, q
<1> QED
  BY <1>8, <1>9, <1>10

\* Above a path that is allowed, all is allowed from where the walk starts or from a pocket on.
LEMMA AllowedFromSomewhere ==
  ASSUME NEW p \in Seq(Name), p # <<>>, Spelled(p),
         NEW view, DOMAIN view \subseteq Scope, NEW operation, Allows(view, operation, p)
  PROVE  \E m \in 1..Len(p) : /\ \A i \in m..Len(p) : Allows(view, operation, SubSeq(p, 1, i))
                              /\ m = 1 \/ SubSeq(p, 1, m) \in Pockets(view, operation)
<1> DEFINE onward == {m \in 1..Len(p) : \A i \in m..Len(p) : Allows(view, operation, SubSeq(p, 1, i))}
<1>1. Len(p) \in Nat /\ Len(p) # 0 /\ SubSeq(p, 1, Len(p)) = p
  BY EmptySeq, SubSeqFull
<1>2. Len(p) \in onward
  <2>1. ASSUME NEW i \in Len(p)..Len(p) PROVE i = Len(p)
    BY <1>1
  <2>2. \A i \in Len(p)..Len(p) : Allows(view, operation, SubSeq(p, 1, i))
    BY <1>1, <2>1
  <2>3. Len(p) \in 1..Len(p)
    BY <1>1
  <2> QED
    BY <2>2, <2>3, Zenon
<1>3. PICK m \in onward : \A k \in onward : m <= k
  <2>1. onward \in SUBSET (1..Len(p)) /\ onward # {}
    BY <1>2
  <2> HIDE DEF onward
  <2> QED
    BY <1>1, <2>1, Smallest
<1>4. ASSUME m # 1 PROVE SubSeq(p, 1, m) \in Pockets(view, operation)
  <2>1. m - 1 \in 1..m /\ m \in 1..Len(p) /\ m - 1 \in 1..Len(p) /\ m - 1 \notin onward /\ m \in m..Len(p)
    BY <1>1, <1>3, <1>4
  <2>2. Allows(view, operation, SubSeq(p, 1, m))
    BY <1>3, <2>1
  <2>3. ~Allows(view, operation, SubSeq(p, 1, m - 1))
    <3>1. PICK i \in (m - 1)..Len(p) : ~Allows(view, operation, SubSeq(p, 1, i))
      BY <2>1
    <3>2. i \notin m..Len(p)
      BY <1>3, <3>1
    <3>3. i = m - 1
      BY <1>1, <2>1, <3>2
    <3> QED
      BY <3>1, <3>3
  <2>4. PICK s \in DOMAIN view : Covers(s, p) /\ Len(ScopeRoot[s]) > m - 1 /\ Len(ScopeRoot[s]) <= m
    BY <2>1, <2>2, <2>3, ScopeBetween
  <2>5. ScopeRoot[s] = SubSeq(p, 1, m)
    <3> DEFINE r == ScopeRoot[s]
               q == SubSeq(p, 1, m)
    <3>1. r \in Seq(Name) /\ Len(r) \in Nat
      BY ScopeRootAssumption
    <3>2. Len(r) = m /\ \A i \in 1..Len(r) : r[i] = p[i]
      BY <2>1, <2>4, <3>1, PrefixElementwise DEF Covers
    <3>3. q \in Seq(Name) /\ Len(q) = m /\ \A i \in 1..m : q[i] = p[i]
      BY <2>1, Above
    <3> HIDE DEF r, q
    <3>4. \A i \in 1..Len(r) : r[i] = q[i]
      BY <3>2, <3>3
    <3>5. r = q
      BY <3>1, <3>2, <3>3, <3>4, SeqEqual
    <3> QED
      BY <3>5 DEF r, q
  <2>6. Front(SubSeq(p, 1, m)) = SubSeq(p, 1, m - 1)
    <3> DEFINE q == SubSeq(p, 1, m)
               f == SubSeq(q, 1, m - 1)
               g == SubSeq(p, 1, m - 1)
    <3>1. q \in Seq(Name) /\ Len(q) = m /\ \A i \in 1..m : q[i] = p[i]
      BY <2>1, Above
    <3>2. m - 1 \in 0..Len(p) /\ m - 1 \in 0..Len(q)
      BY <2>1, <3>1
    <3> HIDE DEF q
    <3>3. f \in Seq(Name) /\ Len(f) = m - 1 /\ \A i \in 1..(m - 1) : f[i] = q[i]
      BY <3>1, <3>2, Above
    <3>4. g \in Seq(Name) /\ Len(g) = m - 1 /\ \A i \in 1..(m - 1) : g[i] = p[i]
      BY <3>2, Above
    <3> HIDE DEF f, g
    <3>5. \A i \in 1..Len(f) : f[i] = g[i]
      BY <2>1, <3>1, <3>3, <3>4
    <3>6. f = g
      BY <3>3, <3>4, <3>5, SeqEqual
    <3> QED
      BY <3>1, <3>6 DEF Front, f, g, q
  <2> QED
    BY <2>2, <2>3, <2>4, <2>5, <2>6 DEF Pockets
<1> QED
  BY <1>3, <1>4

=============================================================================
