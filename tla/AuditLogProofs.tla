--------------------------- MODULE AuditLogProofs ---------------------------
(***************************************************************************)
(* Theorems about AuditLog, for any writers, files and number of records.  *)
(*                                                                         *)
(* The argument: whoever is behind the lock of its open file holds it, so  *)
(* what it read of the tail is still the tail when it writes, and nobody   *)
(* cuts that file below it meanwhile.  A chain only grows by a record that *)
(* fits its tail, or loses records at its end.                             *)
(* An append returns only when all of its file is synced, and since then   *)
(* the synced part of the ledger loses no record but those that an         *)
(* outsider takes, or all of them with a name that was never synced.       *)
(***************************************************************************)
EXTENDS AuditLog, TLAPS

\* The writer is between its lock and its release.
Inside(w) == pc[w] \in {"LOCKED", "READY", "WRITTEN", "SYNCED"}

\* Places are numbered, and a record's hash is never below its number.
Numbered(s) == \A k \in DOMAIN s : s[k].seq = k /\ k <= s[k].hash /\ s[k].hash <= hashes

\* It holds the lock of its file, its tail is the file's, and the file is the one it knows.
WriterInv(w) ==
  /\ pc[w] # "IDLE" => opened[w] \in Inode
  /\ Inside(w) => holder[opened[w]] = w
  /\ pc[w] = "READY" => tail[w] = Last(ledger[opened[w]]) /\ ~torn[opened[w]]
  /\ pc[w] \in {"WRITTEN", "SYNCED"} => ledger[opened[w]] # <<>>
  /\ pc[w] \in {"READY", "WRITTEN", "SYNCED"} /\ known[w] # None =>
       known[w].inode = opened[w] /\ known[w].size <= SizeOf(opened[w])

ChainInv == \A i \in Inode : Chained(ledger[i]) /\ Numbered(ledger[i])

Inv ==
  /\ TypeOK
  /\ \A w \in Writer : WriterInv(w)
  /\ ChainInv

-----------------------------------------------------------------------------
(* Chains.                                                                 *)

\* A beginning of a chain is a chain.
LEMMA PrefixChained ==
  ASSUME NEW s \in Seq(Record), NEW n \in 0..Len(s)
  PROVE  /\ SubSeq(s, 1, n) \in Seq(Record)
         /\ Len(SubSeq(s, 1, n)) = n
         /\ Chained(s) => Chained(SubSeq(s, 1, n))
         /\ Numbered(s) => Numbered(SubSeq(s, 1, n))
<1>1. /\ SubSeq(s, 1, n) \in Seq(Record)
      /\ Len(SubSeq(s, 1, n)) = n
      /\ DOMAIN SubSeq(s, 1, n) = 1..n
      /\ \A k \in 1..n : SubSeq(s, 1, n)[k] = s[k]
  OBVIOUS
<1>2. DOMAIN s = 1..Len(s) /\ n \in Nat /\ Len(s) \in Nat
  OBVIOUS
<1>3. Chained(s) => Chained(SubSeq(s, 1, n))
  <2> HAVE Chained(s)
  <2> SUFFICES ASSUME NEW k \in 1..n
               PROVE  LET t == SubSeq(s, 1, n)
                          before == IF k = 1 THEN Genesis ELSE t[k - 1]
                      IN  /\ t[k].seq = before.seq + 1
                          /\ t[k].prev = before.hash
                          /\ k > 1 => t[k].chain = before.chain
    BY <1>1 DEF Chained
  <2>1. k \in DOMAIN s /\ (k # 1 => k - 1 \in 1..n)
    BY <1>2
  <2> QED BY <1>1, <2>1 DEF Chained
<1>4. Numbered(s) => Numbered(SubSeq(s, 1, n))
  BY <1>1, <1>2 DEF Numbered
<1> QED BY <1>1, <1>3, <1>4

\* What the last record of a numbered chain looks like.
LEMMA LastOf ==
  ASSUME NEW s \in Seq(Record), Numbered(s), hashes \in 0..MaxRecords
  PROVE  /\ Last(s) \in Record \cup {Genesis}
         /\ Last(s).seq = Len(s)
         /\ Last(s).hash \in 0..hashes
         /\ Len(s) <= Last(s).hash
         /\ Last(s) = Genesis <=> s = <<>>
         /\ s # <<>> => Last(s) = s[Len(s)] /\ Last(s) \in Record
<1>1. CASE s = <<>>
  BY <1>1 DEF Last, Genesis
<1>2. CASE s # <<>>
  <2>1. Len(s) \in DOMAIN s /\ s[Len(s)] \in Record
    BY <1>2
  <2>2. s[Len(s)].seq = Len(s) /\ Len(s) <= s[Len(s)].hash /\ s[Len(s)].hash <= hashes
    BY <2>1 DEF Numbered
  <2>3. s[Len(s)].seq \in 1..MaxRecords /\ s[Len(s)].hash \in 1..MaxRecords
    BY <2>1 DEF Record, Hash
  <2>4. s[Len(s)] # Genesis
    BY <2>3, MaxRecordsAssumption DEF Genesis
  <2> QED BY <1>2, <2>1, <2>2, <2>3, <2>4, MaxRecordsAssumption DEF Last
<1> QED BY <1>1, <1>2

\* A record that fits the tail makes a chain of a chain.
LEMMA GrowChained ==
  ASSUME NEW s \in Seq(Record), Chained(s), Numbered(s), NEW r \in Record,
         r.seq = Last(s).seq + 1, r.prev = Last(s).hash,
         s # <<>> => r.chain = Last(s).chain, hashes \in 0..MaxRecords
  PROVE  /\ Append(s, r) \in Seq(Record)
         /\ Len(Append(s, r)) = Len(s) + 1
         /\ Chained(Append(s, r))
<1> DEFINE t == Append(s, r)
<1>1. /\ t \in Seq(Record) /\ Len(t) = Len(s) + 1 /\ DOMAIN t = 1..(Len(s) + 1)
      /\ \A k \in 1..Len(s) : t[k] = s[k]
      /\ t[Len(s) + 1] = r
      /\ DOMAIN s = 1..Len(s) /\ Len(s) \in Nat
  OBVIOUS
<1> HIDE DEF t
<1>2. ASSUME NEW k \in DOMAIN t
      PROVE  LET before == IF k = 1 THEN Genesis ELSE t[k - 1]
             IN  /\ t[k].seq = before.seq + 1
                 /\ t[k].prev = before.hash
                 /\ k > 1 => t[k].chain = before.chain
  <2>1. CASE k <= Len(s)
    <3>1. k \in DOMAIN s /\ t[k] = s[k] /\ (k # 1 => t[k - 1] = s[k - 1])
      BY <1>1, <2>1
    <3> QED BY <3>1 DEF Chained
  <2>2. CASE k = Len(s) + 1
    <3>1. CASE s = <<>>
      BY <1>1, <2>2, <3>1 DEF Last
    <3>2. CASE s # <<>>
      <4>1. k # 1 /\ k - 1 = Len(s) /\ t[k] = r /\ t[k - 1] = s[Len(s)]
        BY <1>1, <2>2, <3>2
      <4> QED BY <4>1, <3>2 DEF Last
    <3> QED BY <3>1, <3>2
  <2> QED BY <1>1, <2>1, <2>2
<1>3. Chained(t)
  BY <1>2 DEF Chained
<1> QED BY <1>1, <1>3 DEF t

\* What is a chain is one as the content of a file.
LEMMA ChainInFile ==
  ASSUME NEW i \in Inode, NEW t, Chained(t), ledger'[i] = t
  PROVE  Chained(ledger[i])'
<1>1. ASSUME NEW k \in DOMAIN ledger'[i]
      PROVE  LET before == IF k = 1 THEN Genesis ELSE ledger'[i][k - 1]
             IN  /\ ledger'[i][k].seq = before.seq + 1
                 /\ ledger'[i][k].prev = before.hash
                 /\ k > 1 => ledger'[i][k].chain = before.chain
  BY DEF Chained, Genesis
<1> QED BY <1>1 DEF Chained, Genesis

\* Hashes are numbers.
LEMMA HashesAreNumbers ==
  ASSUME NEW s \in Seq(Record), NEW k \in DOMAIN s
  PROVE  s[k].hash \in Int
<1>1. s[k] \in Record
  OBVIOUS
<1> QED BY <1>1, MaxRecordsAssumption DEF Record, Hash

\* The size of a file is a number, a record more if it is torn.
LEMMA SizeIsNumber ==
  ASSUME TypeOK, NEW i \in Inode
  PROVE  SizeOf(i) \in Nat /\ SizeOf(i) >= Len(ledger[i]) /\ SizeOf(i) <= Len(ledger[i]) + 1
<1>1. ledger[i] \in Seq(Record)
  BY DEF TypeOK
<1>2. Len(ledger[i]) \in Nat
  BY <1>1
<1>3. CASE torn[i]
  BY <1>2, <1>3 DEF SizeOf
<1>4. CASE ~torn[i]
  BY <1>2, <1>4 DEF SizeOf
<1> QED BY <1>3, <1>4

-----------------------------------------------------------------------------
(* Steps.                                                                  *)

\* What w does in a file that is open to it leaves every other writer as it was.
LEMMA OthersKept ==
  ASSUME Inv, NEW w \in Writer, NEW v \in Writer, v # w,
         pc'[v] = pc[v], opened'[v] = opened[v], tail'[v] = tail[v], known'[v] = known[v],
         \A i \in Inode : holder[i] = v => holder'[i] = v,
         \A i \in Inode :
           (ledger'[i] = ledger[i] /\ torn'[i] = torn[i]) \/ (Inside(w) /\ i = opened[w])
  PROVE  WriterInv(v)'
<1>1. WriterInv(v) /\ WriterInv(w)
  BY DEF Inv
<1>2. CASE Inside(v)
  <2>1. opened[v] \in Inode /\ holder[opened[v]] = v
    BY <1>1, <1>2 DEF WriterInv, Inside
  <2>2. ~(Inside(w) /\ opened[v] = opened[w])
    BY <1>1, <2>1 DEF WriterInv
  <2>3. ledger'[opened[v]] = ledger[opened[v]] /\ torn'[opened[v]] = torn[opened[v]]
    BY <2>1, <2>2
  <2>4. SizeOf(opened[v])' = SizeOf(opened[v])
    BY <2>3 DEF SizeOf
  <2> QED BY <1>1, <2>1, <2>3, <2>4 DEF WriterInv, Inside
<1>3. CASE ~Inside(v)
  BY <1>1, <1>3 DEF WriterInv, Inside
<1> QED BY <1>2, <1>3

\* A release leaves the writer idle and takes no lock of another.
LEMMA ReleaseEffect ==
  ASSUME TypeOK, NEW w \in Writer, Release(w)
  PROVE  /\ pc' \in [Writer -> Place] /\ opened' \in [Writer -> Inode \cup {None}]
         /\ holder' \in [Inode -> Writer \cup {None}] /\ tail' \in [Writer -> Record \cup {Genesis}]
         /\ pc'[w] = "IDLE"
         /\ \A v \in Writer : v # w =>
              /\ pc'[v] = pc[v] /\ opened'[v] = opened[v] /\ tail'[v] = tail[v]
              /\ \A i \in Inode : holder[i] = v => holder'[i] = v
BY DEF Release, TypeOK, Place

LEMMA IdleInv ==
  ASSUME NEW w \in Writer, pc'[w] = "IDLE"
  PROVE  WriterInv(w)'
BY DEF WriterInv, Inside

LEMMA OpenFileStep ==
  ASSUME Inv, NEW w \in Writer, OpenFile(w)
  PROVE  Inv'
<1> USE DEF OpenFile, files
<1>1. TypeOK'
  BY DEF Inv, TypeOK, Place
<1>2. WriterInv(w)'
  BY DEF WriterInv, Inside, Inv, TypeOK
<1>3. ASSUME NEW v \in Writer, v # w PROVE WriterInv(v)'
  <2>1. pc'[v] = pc[v] /\ opened'[v] = opened[v] /\ tail'[v] = tail[v] /\ known'[v] = known[v]
    BY <1>3 DEF Inv, TypeOK
  <2>2. \A i \in Inode : ledger'[i] = ledger[i] /\ torn'[i] = torn[i] /\ holder'[i] = holder[i]
    OBVIOUS
  <2> QED BY <1>3, <2>1, <2>2, OthersKept
<1>4. ChainInv'
  BY DEF Inv, ChainInv, Numbered
<1> QED BY <1>1, <1>2, <1>3, <1>4 DEF Inv

LEMMA LockStep ==
  ASSUME Inv, NEW w \in Writer, Lock(w)
  PROVE  Inv'
<1> USE DEF Lock, files
<1>0. opened[w] \in Inode /\ holder[opened[w]] = None
  BY DEF Inv, WriterInv, LockFree
<1>1. TypeOK'
  BY <1>0 DEF Inv, TypeOK, Place
<1>2. WriterInv(w)'
  BY <1>0 DEF WriterInv, Inside, Inv, TypeOK
<1>3. ASSUME NEW v \in Writer, v # w PROVE WriterInv(v)'
  <2>1. \A i \in Inode : holder[i] = v => holder'[i] = v
    BY <1>0, <1>3, NoneAssumption DEF Inv, TypeOK
  <2>2. pc'[v] = pc[v] /\ opened'[v] = opened[v] /\ tail'[v] = tail[v] /\ known'[v] = known[v]
    BY <1>3 DEF Inv, TypeOK
  <2>3. \A i \in Inode : ledger'[i] = ledger[i] /\ torn'[i] = torn[i]
    OBVIOUS
  <2> QED BY <1>3, <2>1, <2>2, <2>3, OthersKept
<1>4. ChainInv'
  BY DEF Inv, ChainInv, Numbered
<1> QED BY <1>1, <1>2, <1>3, <1>4 DEF Inv

LEMMA RefuseStep ==
  ASSUME Inv, NEW w \in Writer, Refuse(w)
  PROVE  Inv'
<1> USE DEF Refuse, files
<1>0. TypeOK
  BY DEF Inv
<1>1. TypeOK'
  BY <1>0, ReleaseEffect DEF TypeOK
<1>2. WriterInv(w)'
  BY <1>0, ReleaseEffect, IdleInv
<1>3. ASSUME NEW v \in Writer, v # w PROVE WriterInv(v)'
  <2>1. /\ pc'[v] = pc[v] /\ opened'[v] = opened[v] /\ tail'[v] = tail[v] /\ known'[v] = known[v]
        /\ \A i \in Inode : holder[i] = v => holder'[i] = v
    BY <1>0, <1>3, ReleaseEffect
  <2>2. \A i \in Inode : ledger'[i] = ledger[i] /\ torn'[i] = torn[i]
    OBVIOUS
  <2> QED BY <1>3, <2>1, <2>2, OthersKept
<1>4. ChainInv'
  BY DEF Inv, ChainInv, Numbered
<1> QED BY <1>1, <1>2, <1>3, <1>4 DEF Inv

LEMMA ReadTailStep ==
  ASSUME Inv, NEW w \in Writer, ReadTail(w)
  PROVE  Inv'
<1> USE DEF ReadTail, files
<1>0. opened[w] \in Inode /\ holder[opened[w]] = w
  BY DEF Inv, WriterInv, Inside
<1>1. TypeOK'
  <2>1. Last(ledger[opened[w]]) \in Record \cup {Genesis}
    BY <1>0, LastOf DEF Inv, ChainInv, TypeOK
  <2> QED BY <2>1 DEF Inv, TypeOK, Place
<1>2. WriterInv(w)'
  <2>1. pc'[w] = "READY" /\ tail'[w] = Last(ledger[opened[w]])
    BY DEF Inv, TypeOK
  <2>2. SizeOf(opened[w])' = SizeOf(opened[w])
    BY DEF SizeOf
  <2> QED BY <1>0, <2>1, <2>2 DEF WriterInv, Inside, Acceptable
<1>3. ASSUME NEW v \in Writer, v # w PROVE WriterInv(v)'
  <2>1. pc'[v] = pc[v] /\ opened'[v] = opened[v] /\ tail'[v] = tail[v] /\ known'[v] = known[v]
    BY <1>3 DEF Inv, TypeOK
  <2>2. \A i \in Inode : ledger'[i] = ledger[i] /\ torn'[i] = torn[i] /\ holder'[i] = holder[i]
    OBVIOUS
  <2> QED BY <1>3, <2>1, <2>2, OthersKept
<1>4. ChainInv'
  BY DEF Inv, ChainInv, Numbered
<1> QED BY <1>1, <1>2, <1>3, <1>4 DEF Inv

\* The record a writer makes fits the tail it has read.
LEMMA NewRecordFits ==
  ASSUME Inv, NEW w \in Writer, pc[w] = "READY", hashes < MaxRecords
  PROVE  LET s == ledger[opened[w]] IN
           /\ NewRecord(w) \in Record
           /\ NewRecord(w).seq = Len(s) + 1 /\ NewRecord(w).seq = Last(s).seq + 1
           /\ NewRecord(w).prev = Last(s).hash
           /\ NewRecord(w).hash = hashes + 1 /\ Len(s) <= hashes
           /\ s # <<>> => NewRecord(w).chain = Last(s).chain
<1> DEFINE s == ledger[opened[w]]
<1>1. /\ s \in Seq(Record) /\ Numbered(s) /\ hashes \in 0..MaxRecords
      /\ tail[w] = Last(s)
  BY DEF Inv, TypeOK, WriterInv, ChainInv
<1> HIDE DEF s
<1>2. /\ Last(s) \in Record \cup {Genesis}
      /\ Last(s).seq = Len(s) /\ Last(s).hash \in 0..hashes /\ Len(s) <= Last(s).hash
      /\ Last(s) = Genesis <=> s = <<>>
      /\ s # <<>> => Last(s) \in Record
  BY <1>1, LastOf
<1>3. Len(s) \in Nat /\ hashes + 1 \in Hash /\ Len(s) + 1 \in Hash /\ Last(s).hash \in 0..MaxRecords
  BY <1>1, <1>2, MaxRecordsAssumption DEF Hash
<1>4. (IF tail[w] = Genesis THEN hashes + 1 ELSE tail[w].chain) \in Hash
  BY <1>1, <1>2, <1>3 DEF Record
<1>5. NewRecord(w) \in Record
  BY <1>1, <1>2, <1>3, <1>4 DEF NewRecord, Record
<1> QED BY <1>1, <1>2, <1>3, <1>5 DEF NewRecord, s

LEMMA WriteStep ==
  ASSUME Inv, NEW w \in Writer, Write(w)
  PROVE  Inv'
<1> USE DEF Write
<1> DEFINE r == NewRecord(w)
<1>0. PICK f \in Inode : f = opened[w] /\ holder[f] = w /\ tail[w] = Last(ledger[f])
  BY DEF Inv, WriterInv, Inside
<1>1. /\ ledger[f] \in Seq(Record) /\ Chained(ledger[f]) /\ Numbered(ledger[f])
      /\ hashes \in 0..MaxRecords /\ hashes \in Nat /\ hashes + 1 \in 0..MaxRecords
  BY <1>0, MaxRecordsAssumption DEF Inv, TypeOK, ChainInv
<1>2. /\ r \in Record /\ r.seq = Len(ledger[f]) + 1 /\ r.hash = hashes + 1 /\ Len(ledger[f]) <= hashes
      /\ r.seq = Last(ledger[f]).seq + 1 /\ r.prev = Last(ledger[f]).hash
      /\ ledger[f] # <<>> => r.chain = Last(ledger[f]).chain
  BY <1>0, NewRecordFits
<1>3. /\ ledger'[f] = Append(ledger[f], r)
      /\ \A i \in Inode : i # f => ledger'[i] = ledger[i]
  BY <1>0 DEF Inv, TypeOK
<1> HIDE DEF r
<1>4. /\ Append(ledger[f], r) \in Seq(Record)
      /\ Len(Append(ledger[f], r)) = Len(ledger[f]) + 1
      /\ Chained(Append(ledger[f], r))
  BY <1>1, <1>2, GrowChained
<1>5. TypeOK'
  BY <1>0, <1>1, <1>4 DEF Inv, TypeOK, Place, r
<1>6. WriterInv(w)'
  <2>1. pc'[w] = "WRITTEN" /\ opened'[w] = f /\ known'[w] = known[w] /\ holder'[f] = w
    BY <1>0 DEF Inv, TypeOK
  <2>4. ledger'[f] # <<>>
    BY <1>1, <1>3, <1>4
  <2>2. SizeOf(f) \in Nat /\ SizeOf(f)' = SizeOf(f) + 1
    <3>1. Len(ledger'[f]) = Len(ledger[f]) + 1 /\ Len(ledger[f]) \in Nat
      BY <1>1, <1>3, <1>4
    <3>2. CASE torn[f]
      BY <3>1, <3>2 DEF SizeOf
    <3>3. CASE ~torn[f]
      BY <3>1, <3>3 DEF SizeOf
    <3> QED BY <3>2, <3>3
  <2>3. known[w] # None => known[w].inode = f /\ known[w].size <= SizeOf(f) /\ known[w].size \in Nat
    BY <1>0 DEF Inv, WriterInv, TypeOK, Size
  <2> QED BY <1>0, <2>1, <2>2, <2>3, <2>4 DEF WriterInv, Inside
<1>7. ASSUME NEW v \in Writer, v # w PROVE WriterInv(v)'
  <2>1. pc'[v] = pc[v] /\ opened'[v] = opened[v] /\ tail'[v] = tail[v] /\ known'[v] = known[v]
    BY <1>7 DEF Inv, TypeOK
  <2>2. \A i \in Inode : (ledger'[i] = ledger[i] /\ torn'[i] = torn[i]) \/ (Inside(w) /\ i = opened[w])
    BY <1>0, <1>3 DEF Inside
  <2>3. \A i \in Inode : holder[i] = v => holder'[i] = v
    OBVIOUS
  <2> QED BY <1>7, <2>1, <2>2, <2>3, OthersKept
<1>8. ChainInv'
  <2>1. ASSUME NEW i \in Inode, i # f PROVE (Chained(ledger[i]) /\ Numbered(ledger[i]))'
    <3>1. Chained(ledger[i]) /\ Numbered(ledger[i]) /\ ledger[i] \in Seq(Record)
      BY DEF Inv, ChainInv, TypeOK
    <3>2. \A k \in DOMAIN ledger[i] : ledger[i][k].hash \in Int
      BY <3>1, HashesAreNumbers
    <3> QED BY <1>1, <1>3, <2>1, <3>1, <3>2 DEF Chained, Numbered
  <2>2. Chained(ledger[f])'
    <3>1. PICK t : t = Append(ledger[f], r)
      OBVIOUS
    <3>2. Chained(t) /\ ledger'[f] = t
      BY <1>3, <1>4, <3>1
    <3> QED BY <3>2, ChainInFile
  <2>3. Numbered(ledger[f])'
    <3>0. PICK t : t = Append(ledger[f], r)
      OBVIOUS
    <3>1. /\ DOMAIN ledger[f] = 1..Len(ledger[f]) /\ DOMAIN t = 1..(Len(ledger[f]) + 1)
          /\ \A k \in DOMAIN ledger[f] : t[k] = ledger[f][k]
          /\ t[Len(ledger[f]) + 1] = r /\ Len(ledger[f]) \in Nat
      BY <1>1, <1>2, <3>0
    <3>2. \A k \in DOMAIN ledger[f] : ledger[f][k].hash \in Int
      BY <1>1, HashesAreNumbers
    <3>3. ASSUME NEW k \in DOMAIN t PROVE t[k].seq = k /\ k <= t[k].hash /\ t[k].hash <= hashes + 1
      <4>1. CASE k \in DOMAIN ledger[f]
        BY <1>1, <3>1, <3>2, <4>1 DEF Numbered
      <4>2. CASE k = Len(ledger[f]) + 1
        BY <1>1, <1>2, <3>1, <4>2
      <4> QED BY <3>1, <4>1, <4>2
    <3>4. ledger'[f] = t /\ hashes' = hashes + 1
      BY <1>3, <3>0
    <3> QED BY <3>3, <3>4 DEF Numbered
  <2> QED BY <2>1, <2>2, <2>3 DEF ChainInv
<1> QED BY <1>5, <1>6, <1>7, <1>8 DEF Inv

LEMMA WriteTornStep ==
  ASSUME Inv, NEW w \in Writer, WriteTorn(w)
  PROVE  Inv'
<1> USE DEF WriteTorn
<1>0. TypeOK /\ opened[w] \in Inode
  BY DEF Inv, WriterInv
<1>1. TypeOK'
  <2>1. known' \in [Writer -> [inode : Inode, size : Size] \cup {None}]
    BY <1>0 DEF TypeOK
  <2> QED BY <1>0, <2>1, ReleaseEffect DEF TypeOK
<1>2. WriterInv(w)'
  BY <1>0, ReleaseEffect, IdleInv
<1>3. ASSUME NEW v \in Writer, v # w PROVE WriterInv(v)'
  <2>1. /\ pc'[v] = pc[v] /\ opened'[v] = opened[v] /\ tail'[v] = tail[v]
        /\ \A i \in Inode : holder[i] = v => holder'[i] = v
    BY <1>0, <1>3, ReleaseEffect
  <2>2. known'[v] = known[v]
    BY <1>0, <1>3 DEF TypeOK
  <2>3. \A i \in Inode : (ledger'[i] = ledger[i] /\ torn'[i] = torn[i]) \/ (Inside(w) /\ i = opened[w])
    BY <1>0 DEF TypeOK, Inside
  <2> QED BY <1>3, <2>1, <2>2, <2>3, OthersKept
<1>4. ChainInv'
  BY DEF Inv, ChainInv, Numbered
<1> QED BY <1>1, <1>2, <1>3, <1>4 DEF Inv

\* What the end of a written append leaves.
LEMMA AcknowledgeEffect ==
  ASSUME Inv, NEW w \in Writer, pc[w] \in {"WRITTEN", "SYNCED"}, Acknowledge(w)
  PROVE  /\ known' \in [Writer -> [inode : Inode, size : Size] \cup {None}]
         /\ acked' \subseteq Hash
         /\ \A v \in Writer : v # w => known'[v] = known[v]
         /\ known'[w] = [inode |-> opened[w], size |-> SizeOf(opened[w])]
<1> DEFINE f == opened[w]
<1>1. /\ f \in Inode /\ ledger[f] \in Seq(Record) /\ Numbered(ledger[f]) /\ ledger[f] # <<>>
      /\ hashes \in 0..MaxRecords /\ torn[f] \in BOOLEAN
  BY DEF Inv, TypeOK, WriterInv, ChainInv
<1>2. Last(ledger[f]) \in Record /\ Len(ledger[f]) <= hashes
  BY <1>1, LastOf, MaxRecordsAssumption
<1>3. SizeOf(f) \in Size
  <2>1. Len(ledger[f]) \in 0..MaxRecords
    BY <1>1, <1>2, MaxRecordsAssumption
  <2> QED BY <1>1, <2>1, SizeIsNumber, MaxRecordsAssumption DEF Size, Inv
<1>4. Last(ledger[f]).hash \in Hash
  BY <1>2 DEF Record
<1>5. known \in [Writer -> [inode : Inode, size : Size] \cup {None}] /\ acked \subseteq Hash
  BY DEF Inv, TypeOK
<1>6. acked' \subseteq Hash
  BY <1>4, <1>5 DEF Acknowledge
<1>7. [inode |-> f, size |-> SizeOf(f)] \in [inode : Inode, size : Size]
  BY <1>1, <1>3
<1> QED BY <1>5, <1>6, <1>7 DEF Acknowledge

\* An append that only syncs and returns disturbs nobody.
LEMMA SyncStep ==
  ASSUME Inv, NEW w \in Writer, Sync(w)
  PROVE  Inv'
<1> USE DEF Sync
<1> DEFINE f == opened[w]
<1>1. /\ f \in Inode /\ ledger[f] \in Seq(Record) /\ Numbered(ledger[f])
      /\ hashes \in 0..MaxRecords /\ TypeOK
  BY DEF Inv, TypeOK, WriterInv, ChainInv
<1>2. Len(ledger[f]) \in 0..MaxRecords
  BY <1>1, LastOf, MaxRecordsAssumption
<1>3. synced' \in [Inode -> 0..MaxRecords]
  BY <1>1, <1>2 DEF TypeOK, Flush
<1>4. ChainInv'
  BY DEF Inv, ChainInv, Numbered
<1>5. CASE tail[w] = Genesis
  <2>1. TypeOK'
    BY <1>1, <1>3, <1>5 DEF TypeOK, Place
  <2>2. WriterInv(w)'
    <3>1. pc'[w] = "SYNCED" /\ opened'[w] = opened[w] /\ SizeOf(opened[w])' = SizeOf(opened[w])
      BY <1>1, <1>5 DEF TypeOK, SizeOf
    <3> QED BY <1>1, <1>5, <3>1 DEF Inv, WriterInv, Inside
  <2>3. ASSUME NEW v \in Writer, v # w PROVE WriterInv(v)'
    <3>1. pc'[v] = pc[v] /\ opened'[v] = opened[v] /\ tail'[v] = tail[v] /\ known'[v] = known[v]
      BY <1>1, <1>5, <2>3 DEF TypeOK
    <3>2. \A i \in Inode : ledger'[i] = ledger[i] /\ torn'[i] = torn[i] /\ holder'[i] = holder[i]
      BY <1>5
    <3> QED BY <2>3, <3>1, <3>2, OthersKept
  <2> QED BY <1>4, <2>1, <2>2, <2>3 DEF Inv
<1>6. CASE Acknowledge(w)
  <2>1. Release(w)
    BY <1>6 DEF Acknowledge
  <2>2. TypeOK'
    BY <1>1, <1>3, <1>6, <2>1, ReleaseEffect, AcknowledgeEffect DEF TypeOK
  <2>3. WriterInv(w)'
    BY <1>1, <2>1, ReleaseEffect, IdleInv
  <2>4. ASSUME NEW v \in Writer, v # w PROVE WriterInv(v)'
    <3>1. pc[w] = "WRITTEN" /\ \A i \in Inode : ledger'[i] = ledger[i] /\ torn'[i] = torn[i]
      OBVIOUS
    <3> HIDE DEF Sync
    <3>2. /\ pc'[v] = pc[v] /\ opened'[v] = opened[v] /\ tail'[v] = tail[v]
          /\ \A i \in Inode : holder[i] = v => holder'[i] = v
      BY <1>1, <2>1, <2>4, ReleaseEffect
    <3>3. known'[v] = known[v]
      BY <1>6, <2>4, <3>1, AcknowledgeEffect
    <3> QED BY <2>4, <3>1, <3>2, <3>3, OthersKept
  <2> QED BY <1>4, <2>2, <2>3, <2>4 DEF Inv
<1> QED BY <1>5, <1>6

LEMMA SyncEntryStep ==
  ASSUME Inv, NEW w \in Writer, SyncEntry(w)
  PROVE  Inv'
<1> USE DEF SyncEntry
<1>1. TypeOK /\ Release(w) /\ Acknowledge(w) /\ opened[w] \in Inode
  BY DEF Inv, WriterInv, Acknowledge
<1>2. TypeOK'
  BY <1>1, ReleaseEffect, AcknowledgeEffect DEF TypeOK
<1>3. WriterInv(w)'
  BY <1>1, ReleaseEffect, IdleInv
<1>4. ASSUME NEW v \in Writer, v # w PROVE WriterInv(v)'
  <2>1. /\ pc'[v] = pc[v] /\ opened'[v] = opened[v] /\ tail'[v] = tail[v] /\ known'[v] = known[v]
        /\ \A i \in Inode : holder[i] = v => holder'[i] = v
    BY <1>1, <1>4, ReleaseEffect, AcknowledgeEffect
  <2>2. \A i \in Inode : ledger'[i] = ledger[i] /\ torn'[i] = torn[i]
    OBVIOUS
  <2> QED BY <1>4, <2>1, <2>2, OthersKept
<1>5. ChainInv'
  BY DEF Inv, ChainInv, Numbered
<1> QED BY <1>2, <1>3, <1>4, <1>5 DEF Inv

LEMMA CrashStep ==
  ASSUME Inv, NEW w \in Writer, Crash(w)
  PROVE  Inv'
<1> USE DEF Crash, files
<1>1. TypeOK
  BY DEF Inv
<1>2. known' \in [Writer -> [inode : Inode, size : Size] \cup {None}]
  BY <1>1 DEF TypeOK
<1>3. TypeOK'
  BY <1>1, <1>2, ReleaseEffect DEF TypeOK
<1>4. WriterInv(w)'
  BY <1>1, ReleaseEffect, IdleInv
<1>5. ASSUME NEW v \in Writer, v # w PROVE WriterInv(v)'
  <2>1. /\ pc'[v] = pc[v] /\ opened'[v] = opened[v] /\ tail'[v] = tail[v]
        /\ \A i \in Inode : holder[i] = v => holder'[i] = v
    BY <1>1, <1>5, ReleaseEffect
  <2>2. known'[v] = known[v]
    BY <1>1, <1>5 DEF TypeOK
  <2>3. \A i \in Inode : ledger'[i] = ledger[i] /\ torn'[i] = torn[i]
    OBVIOUS
  <2> QED BY <1>5, <2>1, <2>2, <2>3, OthersKept
<1>6. ChainInv'
  BY DEF Inv, ChainInv, Numbered
<1> QED BY <1>3, <1>4, <1>5, <1>6 DEF Inv

LEMMA SyncFailsStep ==
  ASSUME Inv, NEW w \in Writer, SyncFails(w)
  PROVE  Inv'
<1> USE DEF SyncFails, files
<1>1. TypeOK
  BY DEF Inv
<1>2. known' \in [Writer -> [inode : Inode, size : Size] \cup {None}]
  BY <1>1 DEF TypeOK
<1>3. TypeOK'
  BY <1>1, <1>2, ReleaseEffect DEF TypeOK
<1>4. WriterInv(w)'
  BY <1>1, ReleaseEffect, IdleInv
<1>5. ASSUME NEW v \in Writer, v # w PROVE WriterInv(v)'
  <2>1. /\ pc'[v] = pc[v] /\ opened'[v] = opened[v] /\ tail'[v] = tail[v]
        /\ \A i \in Inode : holder[i] = v => holder'[i] = v
    BY <1>1, <1>5, ReleaseEffect
  <2>2. known'[v] = known[v]
    BY <1>1, <1>5 DEF TypeOK
  <2>3. \A i \in Inode : ledger'[i] = ledger[i] /\ torn'[i] = torn[i]
    OBVIOUS
  <2> QED BY <1>5, <2>1, <2>2, <2>3, OthersKept
<1>6. ChainInv'
  BY DEF Inv, ChainInv, Numbered
<1> QED BY <1>3, <1>4, <1>5, <1>6 DEF Inv

-----------------------------------------------------------------------------
(* What happens to the file.                                               *)

\* Nothing that spares the files in use disturbs a writer.
LEMMA FilesInUse ==
  ASSUME Inv, UNCHANGED writers, NEW v \in Writer,
         Inside(v) => ledger'[opened[v]] = ledger[opened[v]] /\ torn'[opened[v]] = torn[opened[v]]
  PROVE  WriterInv(v)'
<1>1. WriterInv(v)
  BY DEF Inv
<1>2. pc' = pc /\ opened' = opened /\ tail' = tail /\ known' = known /\ holder' = holder
  BY DEF writers
<1>3. CASE Inside(v)
  <2>1. SizeOf(opened[v])' = SizeOf(opened[v])
    BY <1>2, <1>3 DEF SizeOf
  <2> QED BY <1>1, <1>2, <1>3, <2>1 DEF WriterInv, Inside
<1>4. CASE ~Inside(v)
  BY <1>1, <1>2, <1>4 DEF WriterInv, Inside
<1> QED BY <1>3, <1>4

\* The chains are valid after a cut of one file, or a beginning of one put into another.
LEMMA ChainInvKept ==
  ASSUME Inv, hashes' = hashes, NEW f \in Inode, NEW g \in Inode, NEW n \in 0..Len(ledger[g]),
         ledger' = [ledger EXCEPT ![f] = SubSeq(ledger[g], 1, n)]
  PROVE  ledger' \in [Inode -> Seq(Record)] /\ ChainInv'
<1>1. \A i \in Inode : ledger[i] \in Seq(Record) /\ Chained(ledger[i]) /\ Numbered(ledger[i])
  BY DEF Inv, TypeOK, ChainInv
<1>2. LET t == SubSeq(ledger[g], 1, n) IN t \in Seq(Record) /\ Chained(t) /\ Numbered(t)
  BY <1>1, PrefixChained
<1>3. \A i \in Inode : ledger'[i] = IF i = f THEN SubSeq(ledger[g], 1, n) ELSE ledger[i]
  BY DEF Inv, TypeOK
<1>4. ledger' \in [Inode -> Seq(Record)]
  BY <1>1, <1>2 DEF Inv, TypeOK
<1>5. ASSUME NEW i \in Inode PROVE (Chained(ledger[i]) /\ Numbered(ledger[i]))'
  <2>1. CASE i = f
    <3>1. PICK t : t = SubSeq(ledger[g], 1, n)
      OBVIOUS
    <3>2. Chained(t) /\ Numbered(t) /\ ledger'[i] = t
      BY <1>2, <1>3, <2>1, <3>1
    <3> QED BY <1>1, <3>2, ChainInFile DEF Numbered
  <2>2. CASE i # f
    BY <1>1, <1>3, <2>2 DEF Chained, Numbered
  <2> QED BY <2>1, <2>2
<1> QED BY <1>4, <1>5 DEF ChainInv

LEMMA PowerLossStep ==
  ASSUME Inv, PowerLoss
  PROVE  Inv'
<1>0. TypeOK /\ path \in Inode /\ ledger[path] \in Seq(Record) /\ synced[path] \in 0..MaxRecords
  BY DEF Inv, TypeOK
<1>1. /\ holder' = [i \in Inode |-> None] /\ opened' = [w \in Writer |-> None]
      /\ pc' = [w \in Writer |-> "IDLE"] /\ tail' = [w \in Writer |-> Genesis]
      /\ known' = [w \in Writer |-> None]
      /\ path' = path /\ frozen' = frozen /\ hashes' = hashes
  BY DEF PowerLoss
<1>2. Len(ledger[path]) \in 0..MaxRecords
  <2>1. Numbered(ledger[path]) /\ hashes \in 0..MaxRecords
    BY <1>0 DEF Inv, TypeOK, ChainInv
  <2> QED BY <1>0, <2>1, LastOf, MaxRecordsAssumption
<1>3. PICK n \in synced[path]..Len(ledger[path]), part \in BOOLEAN :
       \/ /\ ledger' = [ledger EXCEPT ![path] = SubSeq(@, 1, n)]
          /\ torn' = [torn EXCEPT ![path] = part /\ (@ \/ n < Len(ledger[path]))]
          /\ entry' = [entry EXCEPT ![path] = TRUE]
          /\ synced' = [synced EXCEPT ![path] = n]
          /\ acked' = acked
       \/ /\ ~entry[path]
          /\ ledger' = [ledger EXCEPT ![path] = <<>>]
          /\ torn' = [torn EXCEPT ![path] = FALSE]
          /\ synced' = [synced EXCEPT ![path] = 0]
          /\ acked' = {}
          /\ entry' = entry
  BY DEF PowerLoss
<1>4. n \in 0..Len(ledger[path]) /\ n \in 0..MaxRecords /\ 0 \in 0..MaxRecords
  BY <1>0, <1>2, MaxRecordsAssumption
<1>5. ledger' \in [Inode -> Seq(Record)] /\ ChainInv'
  <2>1. CASE ledger' = [ledger EXCEPT ![path] = SubSeq(@, 1, n)]
    BY <1>0, <1>1, <1>4, <2>1, ChainInvKept
  <2>2. CASE ledger' = [ledger EXCEPT ![path] = <<>>]
    <3>1. SubSeq(ledger[path], 1, 0) = <<>> /\ 0 \in 0..Len(ledger[path])
      BY <1>0
    <3> QED BY <1>0, <1>1, <2>2, <3>1, ChainInvKept
  <2> QED BY <1>3, <2>1, <2>2
<1>6. /\ torn' \in [Inode -> BOOLEAN] /\ entry' \in [Inode -> BOOLEAN]
      /\ synced' \in [Inode -> 0..MaxRecords] /\ acked' \subseteq Hash
  <2>1. torn' \in [Inode -> BOOLEAN]
    BY <1>0, <1>3 DEF TypeOK
  <2>2. entry' \in [Inode -> BOOLEAN]
    BY <1>0, <1>3 DEF TypeOK
  <2>3. synced' \in [Inode -> 0..MaxRecords]
    BY <1>0, <1>3, <1>4 DEF TypeOK
  <2>4. acked' \subseteq Hash
    BY <1>0, <1>3 DEF TypeOK
  <2> QED BY <2>1, <2>2, <2>3, <2>4
<1>7. TypeOK'
  BY <1>0, <1>1, <1>5, <1>6 DEF TypeOK, Place
<1>8. ASSUME NEW v \in Writer PROVE WriterInv(v)'
  BY <1>1, IdleInv
<1> QED BY <1>5, <1>7, <1>8 DEF Inv

LEMMA FreezeStep ==
  ASSUME Inv, Freeze
  PROVE  Inv'
<1> USE DEF Freeze, files
<1>1. TypeOK'
  BY DEF Inv, TypeOK, writers
<1>2. ASSUME NEW v \in Writer PROVE WriterInv(v)'
  BY FilesInUse
<1>3. ChainInv'
  BY DEF Inv, ChainInv, Numbered
<1> QED BY <1>1, <1>2, <1>3 DEF Inv

LEMMA TruncateStep ==
  ASSUME Inv, Truncate
  PROVE  Inv'
<1>0. TypeOK /\ path \in Inode /\ ledger[path] \in Seq(Record) /\ synced[path] \in 0..MaxRecords
  BY DEF Inv, TypeOK
<1>1. /\ holder[path] = None /\ acked' \subseteq acked
      /\ path' = path /\ torn' = torn /\ entry' = entry /\ frozen' = frozen /\ hashes' = hashes
      /\ UNCHANGED writers
  BY DEF Truncate
<1>2. PICK n \in 0..(Len(ledger[path]) - 1) :
        /\ ledger' = [ledger EXCEPT ![path] = SubSeq(@, 1, n)]
        /\ synced' = [synced EXCEPT ![path] = IF @ < n THEN @ ELSE n]
  BY DEF Truncate
<1>3. n \in 0..Len(ledger[path])
  BY <1>0
<1>4. ledger' \in [Inode -> Seq(Record)] /\ ChainInv'
  BY <1>0, <1>1, <1>2, <1>3, ChainInvKept
<1>5. synced' \in [Inode -> 0..MaxRecords]
  <2>1. (IF synced[path] < n THEN synced[path] ELSE n) \in 0..MaxRecords
    BY <1>0, <1>3, MaxRecordsAssumption
  <2> QED BY <1>0, <1>2, <2>1 DEF TypeOK
<1>6. TypeOK'
  BY <1>0, <1>1, <1>4, <1>5 DEF TypeOK, writers
<1>7. ASSUME NEW v \in Writer PROVE WriterInv(v)'
  <2>1. Inside(v) => opened[v] \in Inode /\ opened[v] # path
    BY <1>1, NoneAssumption DEF Inv, WriterInv, Inside
  <2>2. Inside(v) => ledger'[opened[v]] = ledger[opened[v]] /\ torn'[opened[v]] = torn[opened[v]]
    BY <1>0, <1>1, <1>2, <2>1 DEF TypeOK
  <2> QED BY <1>1, <2>2, FilesInUse
<1> QED BY <1>4, <1>6, <1>7 DEF Inv

LEMMA ReplaceStep ==
  ASSUME Inv, Replace
  PROVE  Inv'
<1>0. TypeOK /\ path \in Inode /\ ledger[path] \in Seq(Record)
  BY DEF Inv, TypeOK
<1>1. /\ acked' \subseteq acked
      /\ torn' = torn /\ frozen' = frozen /\ hashes' = hashes /\ UNCHANGED writers
  BY DEF Replace
<1>2. PICK i \in Inode \ {path}, n \in 0..Len(ledger[path]) :
        /\ \A w \in Writer : opened[w] # i
        /\ path' = i
        /\ ledger' = [ledger EXCEPT ![i] = SubSeq(ledger[path], 1, n)]
        /\ synced' = [synced EXCEPT ![i] = n]
        /\ entry' = [entry EXCEPT ![i] = TRUE]
  BY DEF Replace
<1>3. ledger' \in [Inode -> Seq(Record)] /\ ChainInv'
  BY <1>0, <1>1, <1>2, ChainInvKept
<1>4. n \in 0..MaxRecords
  <2>1. Numbered(ledger[path]) /\ hashes \in 0..MaxRecords
    BY <1>0 DEF Inv, TypeOK, ChainInv
  <2> QED BY <1>0, <2>1, LastOf, MaxRecordsAssumption
<1>5. TypeOK'
  BY <1>0, <1>1, <1>2, <1>3, <1>4 DEF TypeOK, writers
<1>6. ASSUME NEW v \in Writer PROVE WriterInv(v)'
  <2>1. ledger'[opened[v]] = ledger[opened[v]] \/ ~Inside(v)
    BY <1>0, <1>2 DEF Inv, TypeOK, WriterInv, Inside
  <2> QED BY <1>1, <2>1, FilesInUse
<1> QED BY <1>3, <1>5, <1>6 DEF Inv

-----------------------------------------------------------------------------
(* Theorems.                                                               *)

LEMMA InitInv == Init => Inv
<1> SUFFICES ASSUME Init PROVE Inv
  OBVIOUS
<1>1. TypeOK
  <2>1. <<>> \in Seq(Record) /\ 0 \in 0..MaxRecords
    BY MaxRecordsAssumption
  <2>2. ledger \in [Inode -> Seq(Record)]
    BY <2>1 DEF Init
  <2>3. synced \in [Inode -> 0..MaxRecords] /\ hashes \in 0..MaxRecords
    BY <2>1 DEF Init
  <2>4. /\ torn \in [Inode -> BOOLEAN] /\ entry \in [Inode -> BOOLEAN] /\ frozen \in BOOLEAN
        /\ acked \subseteq Hash /\ path \in Inode
    BY FirstAssumption DEF Init
  <2>5. /\ holder \in [Inode -> Writer \cup {None}] /\ opened \in [Writer -> Inode \cup {None}]
        /\ pc \in [Writer -> Place] /\ tail \in [Writer -> Record \cup {Genesis}]
        /\ known \in [Writer -> [inode : Inode, size : Size] \cup {None}]
    BY DEF Init, Place
  <2> QED BY <2>2, <2>3, <2>4, <2>5 DEF TypeOK
<1>2. \A w \in Writer : WriterInv(w)
  BY DEF Init, WriterInv, Inside
<1>3. ChainInv
  BY DEF Init, ChainInv, Chained, Numbered
<1> QED BY <1>1, <1>2, <1>3 DEF Inv

LEMMA InvStep == Inv /\ [Next]_vars => Inv'
<1> SUFFICES ASSUME Inv, [Next]_vars PROVE Inv'
  OBVIOUS
<1>1. CASE UNCHANGED vars
  BY <1>1 DEF vars, files, writers, Inv, TypeOK, WriterInv, Inside, SizeOf, ChainInv, Numbered
<1>2. CASE PowerLoss
  BY <1>2, PowerLossStep
<1>3. CASE Freeze
  BY <1>3, FreezeStep
<1>4. CASE Truncate
  BY <1>4, TruncateStep
<1>5. CASE Replace
  BY <1>5, ReplaceStep
<1>6. ASSUME NEW w \in Writer,
             \/ OpenFile(w) \/ Lock(w) \/ Refuse(w) \/ ReadTail(w) \/ Write(w) \/ WriteTorn(w)
             \/ Sync(w) \/ SyncEntry(w) \/ SyncFails(w) \/ Crash(w)
      PROVE  Inv'
  BY <1>6, OpenFileStep, LockStep, RefuseStep, ReadTailStep, WriteStep, WriteTornStep,
     SyncStep, SyncEntryStep, SyncFailsStep, CrashStep
<1> QED BY <1>1, <1>2, <1>3, <1>4, <1>5, <1>6 DEF Next

LEMMA AlwaysInv == Spec => []Inv
BY InitInv, InvStep, PTL DEF Spec

\* Types: every variable has its values; no more records are made than MaxRecords allows.
THEOREM Types == Spec => []TypeOK
<1>1. Inv => TypeOK
  BY DEF Inv
<1> QED BY <1>1, AlwaysInv, PTL

\* Whatever writers append, die or lose power, and whoever cuts or replaces the file: the complete
\* records of a file are one unforked chain.
THEOREM Chains == Spec => []ChainsAreValid
<1>1. Inv => ChainsAreValid
  BY DEF Inv, ChainInv, ChainsAreValid
<1> QED BY <1>1, AlwaysInv, PTL

\* In one life a writer appends to one file, and never to a shorter state of it.
THEOREM FileKept == Spec => WriterKeepsItsFile
<1> DEFINE A == \A w \in Writer : known[w] # None /\ known'[w] # None =>
                  known'[w].inode = known[w].inode /\ known'[w].size >= known[w].size
<1>1. ASSUME Inv, Next PROVE A
  <2> SUFFICES ASSUME NEW w \in Writer, known[w] # None, known'[w] # None, known'[w] # known[w]
               PROVE  known'[w].inode = known[w].inode /\ known'[w].size >= known[w].size
    <3>1. \A w \in Writer : known[w] # None => known[w].size \in Int
      BY <1>1, MaxRecordsAssumption DEF Inv, TypeOK, Size
    <3> QED BY <3>1
  <2>1. PICK v \in Writer : Acknowledge(v) /\ pc[v] \in {"WRITTEN", "SYNCED"}
    BY <1>1 DEF Next, PowerLoss, Freeze, Truncate, Replace, OpenFile, Lock, Refuse, ReadTail, Write,
         WriteTorn, Sync, SyncEntry, SyncFails, Crash, writers, Inv, TypeOK
  <2>2. v = w /\ known'[w] = [inode |-> opened[w], size |-> SizeOf(opened[w])]
    BY <1>1, <2>1, AcknowledgeEffect
  <2>3. known[w].inode = opened[w] /\ known[w].size <= SizeOf(opened[w]) /\ known[w].size \in Nat
    BY <1>1, <2>1, <2>2 DEF Inv, WriterInv, TypeOK, Size
  <2>4. SizeOf(opened[w]) \in Nat
    BY <1>1, <2>1, <2>2, SizeIsNumber DEF Inv, WriterInv
  <2> QED BY <2>2, <2>3, <2>4
<1>2. ASSUME Inv, UNCHANGED vars PROVE A
  BY <1>2 DEF Inv, TypeOK, Size, vars, writers
<1>3. Inv /\ [Next]_vars => [A]_vars
  BY <1>1, <1>2
<1> QED BY <1>3, AlwaysInv, PTL DEF Spec, WriterKeepsItsFile

\* A part of a record stays the end of its file whatever the writers do: no append goes on after it
\* and none takes it away; a loss of power may, and puts nothing in its place.
THEOREM TornKept == Spec => TornIsKept
<1> DEFINE Shorter == \A i \in Inode : torn[i] => Len(ledger'[i]) <= Len(ledger[i])
           Stays == \A i \in Inode : torn[i] => torn'[i] \/ PowerLoss
           A == \A i \in Inode : torn[i] => /\ Len(ledger'[i]) <= Len(ledger[i])
                                            /\ torn'[i] \/ PowerLoss
<1>1. ASSUME Inv, Next PROVE Shorter
  <2>0. \A i \in Inode : ledger[i] \in Seq(Record) /\ Len(ledger[i]) \in Nat
    BY <1>1 DEF Inv, TypeOK
  <2>1. ASSUME ledger' = ledger PROVE Shorter
    BY <2>0, <2>1
  <2>2. ASSUME NEW w \in Writer, Write(w) PROVE Shorter
    <3>1. ~torn[opened[w]]
      BY <1>1, <2>2 DEF Write, Inv, WriterInv
    <3>2. \A i \in Inode : torn[i] => ledger'[i] = ledger[i]
      BY <1>1, <2>2, <3>1 DEF Write, Inv, TypeOK
    <3> QED BY <2>0, <3>2
  <2>3. ASSUME NEW f \in Inode, NEW n \in 0..Len(ledger[f]),
               ledger' = [ledger EXCEPT ![f] = SubSeq(@, 1, n)]
        PROVE  Shorter
    <3>1. Len(SubSeq(ledger[f], 1, n)) = n /\ n <= Len(ledger[f])
      BY <2>0
    <3> QED BY <1>1, <2>0, <2>3, <3>1 DEF Inv, TypeOK
  <2>4. CASE PowerLoss
    <3>1. path \in Inode /\ synced[path] \in Nat
      BY <1>1 DEF Inv, TypeOK
    <3>2. PICK n \in synced[path]..Len(ledger[path]) :
            \/ ledger' = [ledger EXCEPT ![path] = SubSeq(@, 1, n)]
            \/ ledger' = [ledger EXCEPT ![path] = <<>>]
      BY <2>4 DEF PowerLoss
    <3>3. n \in 0..Len(ledger[path]) /\ 0 \in 0..Len(ledger[path])
      BY <2>0, <3>1
    <3>4. SubSeq(ledger[path], 1, 0) = <<>>
      BY <2>0, <3>1
    <3> QED BY <2>3, <3>1, <3>2, <3>3, <3>4
  <2>5. CASE Truncate
    <3>1. PICK n \in 0..(Len(ledger[path]) - 1) : ledger' = [ledger EXCEPT ![path] = SubSeq(@, 1, n)]
      BY <2>5 DEF Truncate
    <3>2. path \in Inode
      BY <1>1 DEF Inv, TypeOK
    <3>3. n \in 0..Len(ledger[path])
      BY <2>0, <3>2
    <3> QED BY <2>3, <3>1, <3>2, <3>3
  <2>6. CASE Replace
    <3>1. PICK f \in Inode \ {path}, n \in 0..Len(ledger[path]) :
            ~torn[f] /\ ledger' = [ledger EXCEPT ![f] = SubSeq(ledger[path], 1, n)]
      BY <2>6 DEF Replace
    <3>2. \A i \in Inode : torn[i] => ledger'[i] = ledger[i]
      BY <1>1, <3>1 DEF Inv, TypeOK
    <3> QED BY <2>0, <3>2
  <2> QED BY <1>1, <2>1, <2>2, <2>4, <2>5, <2>6 DEF Next, Freeze, OpenFile, Lock, Refuse, ReadTail,
       WriteTorn, Sync, SyncEntry, SyncFails, Crash, files
<1>2. ASSUME Inv, Next PROVE Stays
  <2>1. ASSUME NEW w \in Writer, WriteTorn(w) PROVE Stays
    BY <1>2, <2>1 DEF WriteTorn, Inv, TypeOK
  <2>2. CASE PowerLoss
    BY <2>2
  <2>3. ASSUME torn' = torn PROVE Stays
    BY <2>3
  <2> QED BY <1>2, <2>1, <2>2, <2>3 DEF Next, Freeze, Truncate, Replace, OpenFile, Lock, Refuse, ReadTail,
       Write, Sync, SyncEntry, SyncFails, Crash, files
<1>3. ASSUME Inv, UNCHANGED vars PROVE A
  BY <1>3 DEF Inv, TypeOK, vars, files
<1>4. Inv /\ [Next]_vars => [A]_vars
  BY <1>1, <1>2, <1>3
<1> QED BY <1>4, AlwaysInv, PTL DEF Spec, TornIsKept

-----------------------------------------------------------------------------
(* Acknowledged records.                                                   *)

\* What is synced of a file is in it, all of it once its writer has synced it, and the acknowledged
\* records are in the part of the ledger that is synced.
SyncInv ==
  /\ \A i \in Inode : synced[i] <= Len(ledger[i])
  /\ \A w \in Writer : pc[w] = "SYNCED" => synced[opened[w]] = Len(ledger[opened[w]])
  /\ \A h \in acked : \E k \in 1..synced[path] : ledger[path][k].hash = h

LEMMA PrefixHashes ==
  ASSUME NEW s \in Seq(Record), NEW n \in 0..Len(s)
  PROVE  /\ HashesIn(SubSeq(s, 1, n)) = {s[k].hash : k \in 1..n}
         /\ \A k \in 1..n : SubSeq(s, 1, n)[k] = s[k]
         /\ Len(SubSeq(s, 1, n)) = n
<1>1. DOMAIN SubSeq(s, 1, n) = 1..n /\ \A k \in 1..n : SubSeq(s, 1, n)[k] = s[k]
  OBVIOUS
<1> QED BY <1>1 DEF HashesIn

\* A step that leaves files and acknowledgements alone, and syncs nothing.
LEMMA NothingSynced ==
  ASSUME SyncInv, UNCHANGED <<path, ledger, synced, acked>>,
         \A w \in Writer : pc'[w] = "SYNCED" => pc[w] = "SYNCED" /\ opened'[w] = opened[w]
  PROVE  SyncInv'
BY DEF SyncInv

LEMMA WriteKeepsSynced ==
  ASSUME Inv, SyncInv, NEW w \in Writer, Write(w)
  PROVE  SyncInv'
<1>1. PICK f \in Inode : f = opened[w] /\ holder[f] = w
  BY DEF Write, Inv, WriterInv, Inside
<1>2. \A i \in Inode : ledger[i] \in Seq(Record) /\ synced[i] \in Nat /\ Len(ledger[i]) \in Nat
  BY DEF Inv, TypeOK
<1>3. PICK t : t = Append(ledger[f], NewRecord(w))
  OBVIOUS
<1>4. /\ UNCHANGED <<path, synced, acked, opened>>
      /\ \A i \in Inode : ledger'[i] = IF i = f THEN t ELSE ledger[i]
      /\ \A v \in Writer : pc'[v] = IF v = w THEN "WRITTEN" ELSE pc[v]
  BY <1>1, <1>3 DEF Write, Inv, TypeOK
<1>5. Len(t) = Len(ledger[f]) + 1 /\ \A k \in 1..Len(ledger[f]) : t[k] = ledger[f][k]
  BY <1>2, <1>3
<1>6. ASSUME NEW i \in Inode
      PROVE  synced'[i] <= Len(ledger'[i]) /\ \A k \in 1..synced[i] : ledger'[i][k] = ledger[i][k]
  BY <1>2, <1>4, <1>5 DEF SyncInv
<1>7. ASSUME NEW v \in Writer, pc'[v] = "SYNCED"
      PROVE  synced'[opened'[v]] = Len(ledger'[opened'[v]])
  <2>1. pc[v] = "SYNCED" /\ v # w
    BY <1>4, <1>7
  <2>2. opened[v] \in Inode /\ opened[v] # f
    BY <1>1, <2>1 DEF Inv, WriterInv, Inside
  <2> QED BY <1>4, <2>1, <2>2 DEF SyncInv
<1>8. path \in Inode
  BY DEF Inv, TypeOK
<1> QED BY <1>4, <1>6, <1>7, <1>8 DEF SyncInv

\* A return acknowledges the last record of a file all of which is synced.
LEMMA ReturnIsSynced ==
  ASSUME Inv, SyncInv, NEW w \in Writer, pc[w] \in {"WRITTEN", "SYNCED"}, Acknowledge(w),
         synced'[opened[w]] = Len(ledger[opened[w]]), UNCHANGED <<path, ledger>>,
         \A i \in Inode : i # opened[w] => synced'[i] = synced[i]
  PROVE  SyncInv'
<1>1. PICK f \in Inode : f = opened[w] /\ holder[f] = w /\ ledger[f] # <<>>
  BY DEF Inv, WriterInv, Inside
<1>2. \A i \in Inode : ledger[i] \in Seq(Record) /\ synced[i] \in Nat /\ Len(ledger[i]) \in Nat
  BY DEF Inv, TypeOK
<1>3. \A i \in Inode : synced'[i] <= Len(ledger[i]) /\ synced[i] <= synced'[i]
  BY <1>1, <1>2 DEF SyncInv
<1>4. ASSUME NEW v \in Writer, pc'[v] = "SYNCED"
      PROVE  synced'[opened'[v]] = Len(ledger[opened'[v]])
  <2>1. v # w /\ pc[v] = "SYNCED" /\ opened'[v] = opened[v]
    BY <1>4, ReleaseEffect DEF Acknowledge, Inv
  <2>2. opened[v] \in Inode /\ opened[v] # f
    BY <1>1, <2>1 DEF Inv, WriterInv, Inside
  <2> QED BY <1>1, <2>1, <2>2 DEF SyncInv
<1>5. ASSUME NEW h \in acked'
      PROVE  \E k \in 1..synced'[path] : ledger[path][k].hash = h
  <2>1. path \in Inode
    BY DEF Inv, TypeOK
  <2>2. CASE h \in acked
    BY <1>2, <1>3, <2>1, <2>2 DEF SyncInv
  <2>3. CASE h \notin acked
    <3>1. f = path /\ h = ledger[f][Len(ledger[f])].hash
      BY <1>1, <1>5, <2>3 DEF Acknowledge, Last
    <3>2. Len(ledger[f]) \in 1..synced'[path]
      BY <1>1, <1>2, <3>1
    <3> QED BY <3>1, <3>2
  <2> QED BY <2>2, <2>3
<1> QED BY <1>3, <1>4, <1>5 DEF SyncInv

LEMMA SyncKeepsSynced ==
  ASSUME Inv, SyncInv, NEW w \in Writer, Sync(w)
  PROVE  SyncInv'
<1>1. PICK f \in Inode : f = opened[w] /\ holder[f] = w
  BY DEF Sync, Inv, WriterInv, Inside
<1>2. \A i \in Inode : ledger[i] \in Seq(Record) /\ synced[i] \in Nat /\ Len(ledger[i]) \in Nat
  BY DEF Inv, TypeOK
<1>3. /\ UNCHANGED <<path, ledger>> /\ pc[w] = "WRITTEN"
      /\ \A i \in Inode : synced'[i] = IF i = f THEN Len(ledger[f]) ELSE synced[i]
  BY <1>1 DEF Sync, Flush, Inv, TypeOK
<1>4. CASE Acknowledge(w)
  BY <1>1, <1>3, <1>4, ReturnIsSynced
<1>5. CASE UNCHANGED <<holder, opened, tail, known, acked>> /\ pc' = [pc EXCEPT ![w] = "SYNCED"]
  <2>1. \A i \in Inode : synced'[i] <= Len(ledger[i]) /\ synced[i] <= synced'[i]
    BY <1>2, <1>3 DEF SyncInv
  <2>2. ASSUME NEW v \in Writer, pc'[v] = "SYNCED"
        PROVE  synced'[opened[v]] = Len(ledger[opened[v]])
    <3>1. CASE v = w
      BY <1>1, <1>3, <3>1
    <3>2. CASE v # w
      <4>1. pc[v] = "SYNCED"
        BY <1>5, <2>2, <3>2 DEF Inv, TypeOK
      <4>2. opened[v] \in Inode /\ opened[v] # f
        BY <1>1, <3>2, <4>1 DEF Inv, WriterInv, Inside
      <4> QED BY <1>3, <4>1, <4>2 DEF SyncInv
    <3> QED BY <3>1, <3>2
  <2>3. path \in Inode /\ 1..synced[path] \subseteq 1..synced'[path]
    <3>1. path \in Inode
      BY DEF Inv, TypeOK
    <3>2. synced'[path] \in Nat /\ synced[path] \in Nat /\ synced[path] <= synced'[path]
      BY <1>2, <1>3, <2>1, <3>1
    <3> QED BY <3>1, <3>2
  <2>4. \A h \in acked : \E k \in 1..synced'[path] : ledger[path][k].hash = h
    BY <2>3 DEF SyncInv
  <2> QED BY <1>3, <1>5, <2>1, <2>2, <2>4 DEF SyncInv
<1> QED BY <1>4, <1>5 DEF Sync

LEMMA PowerLossKeepsSynced ==
  ASSUME Inv, SyncInv, PowerLoss
  PROVE  SyncInv'
<1>1. /\ path \in Inode
      /\ \A i \in Inode : ledger[i] \in Seq(Record) /\ synced[i] \in Nat /\ Len(ledger[i]) \in Nat
  BY DEF Inv, TypeOK
<1>2. UNCHANGED path /\ pc' = [w \in Writer |-> "IDLE"]
  BY DEF PowerLoss
<1>3. PICK n \in synced[path]..Len(ledger[path]) :
       \/ /\ ledger' = [ledger EXCEPT ![path] = SubSeq(@, 1, n)]
          /\ synced' = [synced EXCEPT ![path] = n]
          /\ UNCHANGED acked
       \/ /\ ledger' = [ledger EXCEPT ![path] = <<>>]
          /\ synced' = [synced EXCEPT ![path] = 0]
          /\ acked' = {}
  BY DEF PowerLoss
<1>4. n \in 0..Len(ledger[path]) /\ synced[path] <= n
  BY <1>1
<1>5. PICK t : t = SubSeq(ledger[path], 1, n)
  OBVIOUS
<1>6. Len(t) = n /\ \A k \in 1..n : t[k] = ledger[path][k]
  BY <1>1, <1>4, <1>5, PrefixHashes
<1>7. CASE ledger' = [ledger EXCEPT ![path] = t] /\ synced' = [synced EXCEPT ![path] = n] /\ UNCHANGED acked
  <2>1. \A i \in Inode : /\ ledger'[i] = IF i = path THEN t ELSE ledger[i]
                         /\ synced'[i] = IF i = path THEN n ELSE synced[i]
    BY <1>7 DEF Inv, TypeOK
  <2>2. \A i \in Inode : synced'[i] <= Len(ledger'[i])
    BY <1>1, <1>4, <1>6, <2>1 DEF SyncInv
  <2>3. ASSUME NEW h \in acked PROVE \E k \in 1..n : ledger'[path][k].hash = h
    <3>1. PICK k \in 1..synced[path] : ledger[path][k].hash = h
      BY <2>3 DEF SyncInv
    <3>2. k \in 1..n
      BY <1>1, <1>4
    <3> QED BY <1>1, <1>6, <2>1, <3>1, <3>2
  <2> QED BY <1>1, <1>2, <1>7, <2>1, <2>2, <2>3 DEF SyncInv
<1>8. CASE ledger' = [ledger EXCEPT ![path] = <<>>] /\ synced' = [synced EXCEPT ![path] = 0] /\ acked' = {}
  <2>1. \A i \in Inode : /\ ledger'[i] = IF i = path THEN <<>> ELSE ledger[i]
                         /\ synced'[i] = IF i = path THEN 0 ELSE synced[i]
    BY <1>8 DEF Inv, TypeOK
  <2>2. \A i \in Inode : synced'[i] <= Len(ledger'[i])
    BY <1>1, <2>1 DEF SyncInv
  <2> QED BY <1>2, <1>8, <2>2 DEF SyncInv
<1> QED BY <1>3, <1>5, <1>7, <1>8

LEMMA TruncateKeepsSynced ==
  ASSUME Inv, SyncInv, Truncate
  PROVE  SyncInv'
<1>1. /\ path \in Inode
      /\ \A i \in Inode : ledger[i] \in Seq(Record) /\ synced[i] \in Nat /\ Len(ledger[i]) \in Nat
  BY DEF Inv, TypeOK
<1>2. PICK n \in 0..(Len(ledger[path]) - 1) :
        /\ ledger' = [ledger EXCEPT ![path] = SubSeq(@, 1, n)]
        /\ synced' = [synced EXCEPT ![path] = IF @ < n THEN @ ELSE n]
  BY DEF Truncate
<1>3. n \in 0..Len(ledger[path])
  BY <1>1
<1>4. PICK t : t = SubSeq(ledger[path], 1, n)
  OBVIOUS
<1>5. /\ Len(t) = n /\ HashesIn(t) = {ledger[path][k].hash : k \in 1..n}
      /\ \A k \in 1..n : t[k] = ledger[path][k]
  BY <1>1, <1>3, <1>4, PrefixHashes
<1>6. /\ \A i \in Inode : /\ ledger'[i] = IF i = path THEN t ELSE ledger[i]
                          /\ synced'[i] = IF i # path \/ synced[i] < n THEN synced[i] ELSE n
      /\ UNCHANGED <<path, pc, opened>> /\ holder[path] = None
  BY <1>2, <1>4 DEF Truncate, writers, Inv, TypeOK
<1>7. acked' = acked \cap HashesIn(t)
  BY <1>1, <1>6 DEF Truncate
<1>8. \A i \in Inode : synced'[i] <= Len(ledger'[i])
  BY <1>1, <1>3, <1>5, <1>6 DEF SyncInv
<1>9. ASSUME NEW v \in Writer, pc'[v] = "SYNCED"
      PROVE  synced'[opened'[v]] = Len(ledger'[opened'[v]])
  <2>1. opened[v] \in Inode /\ opened[v] # path
    BY <1>6, <1>9, NoneAssumption DEF Inv, WriterInv, Inside
  <2> QED BY <1>6, <1>9, <2>1 DEF SyncInv
<1>10. ASSUME NEW h \in acked' PROVE \E k \in 1..synced'[path] : ledger'[path][k].hash = h
  <2>1. PICK k \in 1..synced[path] : ledger[path][k].hash = h
    BY <1>7, <1>10 DEF SyncInv
  <2>2. PICK j \in 1..n : ledger[path][j].hash = h
    BY <1>5, <1>7, <1>10
  <2>3. CASE synced[path] < n
    <3>1. k \in 1..n /\ k \in 1..synced'[path]
      BY <1>1, <1>6, <2>3
    <3> QED BY <1>1, <1>5, <1>6, <2>1, <3>1
  <2>4. CASE ~(synced[path] < n)
    BY <1>1, <1>5, <1>6, <2>2, <2>4
  <2> QED BY <2>3, <2>4
<1> QED BY <1>6, <1>8, <1>9, <1>10 DEF SyncInv

LEMMA ReplaceKeepsSynced ==
  ASSUME Inv, SyncInv, Replace
  PROVE  SyncInv'
<1>1. /\ path \in Inode
      /\ \A i \in Inode : ledger[i] \in Seq(Record) /\ synced[i] \in Nat /\ Len(ledger[i]) \in Nat
  BY DEF Inv, TypeOK
<1>2. PICK f \in Inode \ {path}, n \in 0..Len(ledger[path]) :
        /\ \A w \in Writer : opened[w] # f
        /\ path' = f
        /\ ledger' = [ledger EXCEPT ![f] = SubSeq(ledger[path], 1, n)]
        /\ synced' = [synced EXCEPT ![f] = n]
  BY DEF Replace
<1>3. PICK t : t = SubSeq(ledger[path], 1, n)
  OBVIOUS
<1>4. /\ Len(t) = n /\ HashesIn(t) = {ledger[path][k].hash : k \in 1..n}
      /\ \A k \in 1..n : t[k] = ledger[path][k]
  BY <1>1, <1>3, PrefixHashes
<1>5. /\ \A i \in Inode : /\ ledger'[i] = IF i = f THEN t ELSE ledger[i]
                          /\ synced'[i] = IF i = f THEN n ELSE synced[i]
      /\ UNCHANGED <<pc, opened>>
  BY <1>2, <1>3 DEF Replace, writers, Inv, TypeOK
<1>6. \A h \in acked' : \E k \in 1..n : t[k].hash = h
  BY <1>2, <1>4, <1>5 DEF Replace
<1>7. \A i \in Inode : synced'[i] <= Len(ledger'[i])
  BY <1>1, <1>4, <1>5 DEF SyncInv
<1>8. ASSUME NEW v \in Writer, pc'[v] = "SYNCED"
      PROVE  synced'[opened'[v]] = Len(ledger'[opened'[v]])
  <2>1. opened[v] \in Inode /\ opened[v] # f
    BY <1>2, <1>5, <1>8 DEF Inv, WriterInv
  <2> QED BY <1>5, <1>8, <2>1 DEF SyncInv
<1>9. \A h \in acked' : \E k \in 1..synced'[path'] : ledger'[path'][k].hash = h
  BY <1>2, <1>5, <1>6
<1> QED BY <1>7, <1>8, <1>9 DEF SyncInv

LEMMA SyncInvStep ==
  ASSUME Inv, SyncInv, [Next]_vars
  PROVE  SyncInv'
<1>1. CASE UNCHANGED vars
  BY <1>1, NothingSynced DEF vars, files, writers
<1>2. CASE Freeze
  BY <1>2, NothingSynced DEF Freeze, files, writers
<1>3. ASSUME NEW w \in Writer,
             OpenFile(w) \/ Lock(w) \/ Refuse(w) \/ ReadTail(w) \/ WriteTorn(w)
             \/ SyncFails(w) \/ Crash(w)
      PROVE  SyncInv'
  <2>1. UNCHANGED <<path, ledger, synced, acked>>
    BY <1>3 DEF OpenFile, Lock, Refuse, ReadTail, WriteTorn, SyncFails, Crash, files
  <2>2. \A v \in Writer : pc'[v] = "SYNCED" => pc[v] = "SYNCED" /\ opened'[v] = opened[v]
    BY <1>3 DEF OpenFile, Lock, Refuse, ReadTail, WriteTorn, SyncFails, Crash, Release, Inv, TypeOK
  <2> QED BY <2>1, <2>2, NothingSynced
<1>4. ASSUME NEW w \in Writer, SyncEntry(w) PROVE SyncInv'
  BY <1>4, ReturnIsSynced DEF SyncEntry, SyncInv
<1> QED
  BY <1>1, <1>2, <1>3, <1>4, WriteKeepsSynced, SyncKeepsSynced, PowerLossKeepsSynced, TruncateKeepsSynced,
     ReplaceKeepsSynced DEF Next

LEMMA InitSyncInv == Init => SyncInv
<1> SUFFICES ASSUME Init PROVE SyncInv
  OBVIOUS
<1>1. \A i \in Inode : synced[i] = 0 /\ ledger[i] = <<>> /\ Len(<<>>) = 0
  BY DEF Init
<1>2. acked = {} /\ \A w \in Writer : pc[w] = "IDLE"
  BY DEF Init
<1> QED BY <1>1, <1>2 DEF SyncInv

\* AckedIsSynced: a record whose append returned is in the part of the ledger that a power loss spares,
\* as long as nobody from outside takes it away (audit.py, append: fsync comes before the return).
THEOREM ReturnedAreSynced == Spec => []AckedIsSynced
<1>1. Inv /\ SyncInv => AckedIsSynced
  <2> SUFFICES ASSUME Inv, SyncInv PROVE AckedIsSynced
    OBVIOUS
  <2>1. path \in Inode /\ ledger[path] \in Seq(Record) /\ synced[path] \in 0..Len(ledger[path])
    BY DEF Inv, TypeOK, SyncInv
  <2>2. HashesIn(SubSeq(ledger[path], 1, synced[path])) = {ledger[path][k].hash : k \in 1..synced[path]}
    BY <2>1, PrefixHashes
  <2>3. \A h \in acked : \E k \in 1..synced[path] : ledger[path][k].hash = h
    BY DEF SyncInv
  <2> QED BY <2>2, <2>3 DEF AckedIsSynced
<1>2. Inv /\ SyncInv /\ [Next]_vars => SyncInv'
  BY SyncInvStep
<1> QED BY <1>1, <1>2, InitSyncInv, AlwaysInv, PTL DEF Spec

=============================================================================
