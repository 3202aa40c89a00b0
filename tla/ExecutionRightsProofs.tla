------------------------ MODULE ExecutionRightsProofs ------------------------
(* Theorems about ExecutionRights, for every value of its constants.       *)
EXTENDS ExecutionRights, TLAPS

\* A right belongs to a registered delivery: registering another one never links or moves a right.
Inv ==
  /\ TypeOK
  /\ RightsAreLinked
  /\ \A w \in rights : task[w[1]] # None

LEMMA InitInv == Init => Inv
BY DEF Init, Inv, TypeOK, RightsAreLinked

LEMMA TypeStep ==
  ASSUME TypeOK, [Next]_vars
  PROVE  TypeOK'
<1>1. ASSUME NEW d \in Delivery, NEW t \in Task, NEW S \in SUBSET Delivery, Register(d, t, S)
      PROVE  TypeOK'
  BY <1>1 DEF Register, TypeOK
<1>2. ASSUME NEW d \in Delivery, Issue(d)
      PROVE  TypeOK'
  <2>1. issued[d] + 1 \in Nat /\ issued' \in [Delivery -> Nat]
    BY <1>2 DEF Issue, TypeOK
  <2> QED BY <1>2, <2>1 DEF Issue, TypeOK
<1>3. ASSUME NEW d \in Delivery, Return(d) \/ Close(d) \/ Settle(d)
      PROVE  TypeOK'
  BY <1>3 DEF Return, Close, Settle, TypeOK
<1>4. CASE UNCHANGED vars
  BY <1>4 DEF vars, TypeOK
<1> QED BY <1>1, <1>2, <1>3, <1>4 DEF Next

LEMMA InvStep ==
  ASSUME Inv, [Next]_vars
  PROVE  Inv'
<1> USE DEF Inv
<1>1. TypeOK'
  BY TypeStep
<1>2. ASSUME UNCHANGED <<task, links>>, rights' \subseteq rights
      PROVE  Inv'
  BY <1>1, <1>2 DEF RightsAreLinked
<1>3. ASSUME NEW d \in Delivery, NEW t \in Task, NEW S \in SUBSET Delivery, Register(d, t, S)
      PROVE  Inv'
  <2>1. \A w \in rights : /\ w[1] # d
                          /\ task'[w[1]] = task[w[1]]
                          /\ links'[w[1]] = links[w[1]]
    BY <1>3 DEF Register, TypeOK
  <2> QED BY <1>1, <1>3, <2>1 DEF Register, RightsAreLinked
<1>4. ASSUME NEW d \in Delivery, Issue(d)
      PROVE  Inv'
  <2> DEFINE new == <<d, issued[d] + 1>>
  <2>1. rights' = rights \cup {new} /\ new[1] = d /\ UNCHANGED <<task, links>> /\ task[d] # None
    BY <1>4 DEF Issue
  <2>2. \A w \in rights : task[w[1]] = task[d] => w[1] # d /\ w[1] \in links[d]
    BY <1>4 DEF Issue, TaskSettled
  <2> HIDE DEF new
  <2> QED BY <1>1, <2>1, <2>2 DEF RightsAreLinked
<1>5. CASE UNCHANGED vars
  BY <1>2, <1>5 DEF vars
<1>6. ASSUME NEW d \in Delivery, Return(d) \/ Close(d) \/ Settle(d)
      PROVE  Inv'
  BY <1>2, <1>6 DEF Return, Close, Settle
<1> QED BY <1>3, <1>4, <1>5, <1>6 DEF Next

\* However many deliveries and rights there are, two rights of one task that are out together are
\* linked (RightsAreLinked).
THEOREM RightsStayLinked == Spec => []RightsAreLinked
<1>1. Inv /\ [Next]_vars => Inv'
  BY InvStep
<1>2. Inv => RightsAreLinked
  BY DEF Inv
<1> QED BY InitInv, <1>1, <1>2, PTL DEF Spec

=============================================================================
