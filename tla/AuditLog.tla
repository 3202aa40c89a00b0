------------------------------ MODULE AuditLog ------------------------------
(***************************************************************************)
(* HashChainedAuditLog (audit.py): a chain of records in one file, several *)
(* writers in several processes, an advisory lock on the open file.  A     *)
(* writer may die between any two system calls and the host may lose       *)
(* power; the file may also be truncated or replaced from outside.         *)
(*                                                                         *)
(* A record is its place in the chain; its hash is a number no other       *)
(* record has.  The lock, the length and the identity belong to the open   *)
(* file (inode), the name to whatever file is there at the time.           *)
(***************************************************************************)
EXTENDS Integers, Sequences, FiniteSets

CONSTANTS
  Writer,      \* log objects, each in a process of its own
  Inode,       \* files that may be found under the name of the ledger
  First,       \* the file that is there at first (os.open creates it)
  MaxRecords,  \* bound: records ever made
  None

ASSUME FirstAssumption == First \in Inode
ASSUME MaxRecordsAssumption == MaxRecords \in Nat
ASSUME NoneAssumption == None \notin Writer \cup Inode

VARIABLES
  path,    \* the file that has the ledger's name
  ledger,  \* complete records of a file
  torn,    \* the file ends in a part of a record
  synced,  \* records of a file that survive a power loss (fsync of the file)
  entry,   \* its name survives a power loss (fsync of the directory)
  holder,  \* the writer that has the lock of a file
  opened,  \* the file that a writer has open
  pc,      \* what an append of a writer does next
  tail,    \* hash, sequence and chain of the last record, as _tail read it
  known,   \* _identity and _size: file and length after a writer's last append
  frozen,  \* FROZEN.json exists
  acked,   \* hashes of records whose append returned and that nobody took away with their file
  hashes   \* records ever made

files == <<path, ledger, torn, synced, entry>>
writers == <<holder, opened, pc, tail, known>>
vars == <<files, writers, frozen, acked, hashes>>

Hash == 1..MaxRecords
Record == [seq : Hash, chain : Hash, prev : 0..MaxRecords, hash : Hash]
Genesis == [seq |-> 0, chain |-> 0, prev |-> 0, hash |-> 0]
Size == 0..(MaxRecords + 1)
Place == {"IDLE", "OPEN", "LOCKED", "READY", "WRITTEN", "SYNCED"}

TypeOK ==
  /\ path \in Inode
  /\ ledger \in [Inode -> Seq(Record)]
  /\ torn \in [Inode -> BOOLEAN]
  /\ synced \in [Inode -> 0..MaxRecords]
  /\ entry \in [Inode -> BOOLEAN]
  /\ holder \in [Inode -> Writer \cup {None}]
  /\ opened \in [Writer -> Inode \cup {None}]
  /\ pc \in [Writer -> Place]
  /\ tail \in [Writer -> Record \cup {Genesis}]
  /\ known \in [Writer -> [inode : Inode, size : Size] \cup {None}]
  /\ frozen \in BOOLEAN
  /\ acked \subseteq Hash
  /\ hashes \in 0..MaxRecords

Init ==
  /\ path = First
  /\ ledger = [i \in Inode |-> <<>>]
  /\ torn = [i \in Inode |-> FALSE]
  /\ synced = [i \in Inode |-> 0]
  /\ entry = [i \in Inode |-> FALSE]
  /\ holder = [i \in Inode |-> None]
  /\ opened = [w \in Writer |-> None]
  /\ pc = [w \in Writer |-> "IDLE"]
  /\ tail = [w \in Writer |-> Genesis]
  /\ known = [w \in Writer |-> None]
  /\ frozen = FALSE
  /\ acked = {}
  /\ hashes = 0

-----------------------------------------------------------------------------

HashesIn(s) == {s[k].hash : k \in DOMAIN s}

SizeOf(i) == Len(ledger[i]) + IF torn[i] THEN 1 ELSE 0

Last(s) == IF s = <<>> THEN Genesis ELSE s[Len(s)]

\* What a full verification accepts: each record carries the hash and the chain of the one before it.
Chained(s) ==
  \A k \in DOMAIN s :
    LET before == IF k = 1 THEN Genesis ELSE s[k - 1] IN
      /\ s[k].seq = before.seq + 1
      /\ s[k].prev = before.hash
      /\ k > 1 => s[k].chain = before.chain

\* Mutant of LockFree: the lock is on the log object, not on the file.
LockFreeForAnyone(i) == TRUE

LockFree(i) == holder[i] = None

\* The end of an append: the descriptor is closed, and with it the lock is released.
Release(w) ==
  /\ pc' = [pc EXCEPT ![w] = "IDLE"]
  /\ opened' = [opened EXCEPT ![w] = None]
  /\ holder' = [i \in Inode |-> IF holder[i] = w THEN None ELSE holder[i]]
  /\ tail' = [tail EXCEPT ![w] = Genesis]

\* Mutant of Acceptable: only the length of the file is looked at.
AcceptableByLength(w) ==
  /\ ~frozen
  /\ known[w] # None => known[w].size <= SizeOf(opened[w])
  /\ known[w] = None => Chained(ledger[opened[w]])
  /\ ~torn[opened[w]]

\* What append checks under the lock: no freeze, the file it knows and not a shorter one, whole
\* records.  The first append of a writer verifies the whole chain.
Acceptable(w) ==
  /\ ~frozen
  /\ known[w] # None => known[w].inode = opened[w] /\ known[w].size <= SizeOf(opened[w])
  /\ known[w] = None => Chained(ledger[opened[w]])
  /\ ~torn[opened[w]]

OpenFile(w) ==
  /\ pc[w] = "IDLE"
  /\ pc' = [pc EXCEPT ![w] = "OPEN"]
  /\ opened' = [opened EXCEPT ![w] = path]
  /\ UNCHANGED <<files, holder, tail, known, frozen, acked, hashes>>

Lock(w) ==
  /\ pc[w] = "OPEN" /\ LockFree(opened[w])
  /\ pc' = [pc EXCEPT ![w] = "LOCKED"]
  /\ holder' = [holder EXCEPT ![opened[w]] = w]
  /\ UNCHANGED <<files, opened, tail, known, frozen, acked, hashes>>

\* Mutant of Refuse: a file that ends in a part of a record is repaired for the next append.
RefuseAndRepair(w) ==
  /\ pc[w] = "LOCKED" /\ ~Acceptable(w)
  /\ torn' = [torn EXCEPT ![opened[w]] = FALSE]
  /\ Release(w)
  /\ UNCHANGED <<path, ledger, synced, entry, known, frozen, acked, hashes>>

Refuse(w) ==
  /\ pc[w] = "LOCKED" /\ ~Acceptable(w)
  /\ Release(w)
  /\ UNCHANGED <<files, known, frozen, acked, hashes>>

ReadTail(w) ==
  /\ pc[w] = "LOCKED" /\ Acceptable(w)
  /\ pc' = [pc EXCEPT ![w] = "READY"]
  /\ tail' = [tail EXCEPT ![w] = Last(ledger[opened[w]])]
  /\ UNCHANGED <<files, holder, opened, known, frozen, acked, hashes>>

\* Mutant of NewRecord: the sequence is not counted on.
NewRecordUncounted(w) ==
  [seq |-> tail[w].seq,
   chain |-> IF tail[w] = Genesis THEN hashes + 1 ELSE tail[w].chain,
   prev |-> tail[w].hash,
   hash |-> hashes + 1]

NewRecord(w) ==
  [seq |-> tail[w].seq + 1,
   chain |-> IF tail[w] = Genesis THEN hashes + 1 ELSE tail[w].chain,
   prev |-> tail[w].hash,
   hash |-> hashes + 1]

Write(w) ==
  /\ pc[w] = "READY" /\ hashes < MaxRecords
  /\ hashes' = hashes + 1
  /\ ledger' = [ledger EXCEPT ![opened[w]] = Append(@, NewRecord(w))]
  /\ pc' = [pc EXCEPT ![w] = "WRITTEN"]
  /\ UNCHANGED <<path, torn, synced, entry, holder, opened, tail, known, frozen, acked>>

\* SHORT_WRITE, or the process dies in the write: the part that was written stays.
WriteTorn(w) ==
  /\ pc[w] = "READY"
  /\ torn' = [torn EXCEPT ![opened[w]] = TRUE]
  /\ Release(w)
  /\ known' \in {known, [known EXCEPT ![w] = None]}
  /\ UNCHANGED <<path, ledger, synced, entry, frozen, acked, hashes>>

\* The append returns, and the writer remembers the file as it is now.
Acknowledge(w) ==
  /\ known' = [known EXCEPT ![w] = [inode |-> opened[w], size |-> SizeOf(opened[w])]]
  /\ acked' = IF opened[w] = path THEN acked \cup {Last(ledger[path]).hash} ELSE acked
  /\ Release(w)

\* Mutant of Flush: the record is left to the page cache.
FlushLater(w) == UNCHANGED synced

Flush(w) == synced' = [synced EXCEPT ![opened[w]] = Len(ledger[opened[w]])]

\* fsync; the directory follows only if the file was empty before.
Sync(w) ==
  /\ pc[w] = "WRITTEN"
  /\ Flush(w)
  /\ IF tail[w] = Genesis
       THEN /\ pc' = [pc EXCEPT ![w] = "SYNCED"]
            /\ UNCHANGED <<holder, opened, tail, known, acked>>
       ELSE Acknowledge(w)
  /\ UNCHANGED <<path, ledger, torn, entry, frozen, hashes>>

SyncEntry(w) ==
  /\ pc[w] = "SYNCED"
  /\ entry' = [entry EXCEPT ![opened[w]] = TRUE]
  /\ Acknowledge(w)
  /\ UNCHANGED <<path, ledger, torn, synced, frozen, hashes>>

\* An fsync reports an error: the append raises, the record stays where it is, and the writer goes
\* on knowing the file as it was before.
SyncFails(w) ==
  /\ pc[w] \in {"WRITTEN", "SYNCED"}
  /\ Release(w)
  /\ UNCHANGED <<files, known, frozen, acked, hashes>>

-----------------------------------------------------------------------------
(* What may happen to the writers and the file.                            *)

\* A process dies; another life of the writer knows nothing of the file.
Crash(w) ==
  /\ Release(w)
  /\ known' = [known EXCEPT ![w] = None]
  /\ UNCHANGED <<files, frozen, acked, hashes>>

\* The host loses power: of what was not synced a beginning is left, be it a part of a record (which
\* no fsync ever follows), and of a file without an entry perhaps nothing.
PowerLoss ==
  /\ \E n \in synced[path]..Len(ledger[path]), part \in BOOLEAN :
       \/ /\ ledger' = [ledger EXCEPT ![path] = SubSeq(@, 1, n)]
          /\ torn' = [torn EXCEPT ![path] = part /\ (@ \/ n < Len(ledger[path]))]
          /\ entry' = [entry EXCEPT ![path] = TRUE]
          /\ synced' = [synced EXCEPT ![path] = n]
          /\ UNCHANGED acked
       \/ /\ ~entry[path]
          /\ ledger' = [ledger EXCEPT ![path] = <<>>]
          /\ torn' = [torn EXCEPT ![path] = FALSE]
          /\ synced' = [synced EXCEPT ![path] = 0]
          /\ acked' = {}
          /\ UNCHANGED entry
  /\ holder' = [i \in Inode |-> None]
  /\ opened' = [w \in Writer |-> None]
  /\ pc' = [w \in Writer |-> "IDLE"]
  /\ tail' = [w \in Writer |-> Genesis]
  /\ known' = [w \in Writer |-> None]
  /\ UNCHANGED <<path, frozen, hashes>>

Freeze ==
  /\ frozen' = TRUE
  /\ UNCHANGED <<files, writers, acked, hashes>>

\* Somebody cuts the file at the end of a record while no append is going on.
Truncate ==
  /\ holder[path] = None /\ ~torn[path]
  /\ \E n \in 0..(Len(ledger[path]) - 1) :
       /\ ledger' = [ledger EXCEPT ![path] = SubSeq(@, 1, n)]
       /\ synced' = [synced EXCEPT ![path] = IF @ < n THEN @ ELSE n]
  /\ acked' = acked \cap HashesIn(ledger'[path])
  /\ UNCHANGED <<path, torn, entry, writers, frozen, hashes>>

\* An earlier copy of the ledger is put in its place, whoever has the old file open.
Replace ==
  /\ \E i \in Inode \ {path}, n \in 0..Len(ledger[path]) :
       /\ ledger[i] = <<>> /\ ~torn[i] /\ \A w \in Writer : opened[w] # i
       /\ path' = i
       /\ ledger' = [ledger EXCEPT ![i] = SubSeq(ledger[path], 1, n)]
       /\ synced' = [synced EXCEPT ![i] = n]
       /\ entry' = [entry EXCEPT ![i] = TRUE]
  /\ acked' = acked \cap HashesIn(ledger'[path'])
  /\ UNCHANGED <<torn, writers, frozen, hashes>>

Next ==
  \/ PowerLoss \/ Freeze \/ Truncate \/ Replace
  \/ \E w \in Writer :
       \/ OpenFile(w) \/ Lock(w) \/ Refuse(w) \/ ReadTail(w) \/ Write(w) \/ WriteTorn(w)
       \/ Sync(w) \/ SyncEntry(w) \/ SyncFails(w) \/ Crash(w)

Spec == Init /\ [][Next]_vars

-----------------------------------------------------------------------------
(* Properties.                                                             *)

\* Whatever writers, crashes and cuts came together, the complete records of every file are one
\* unforked chain.
ChainsAreValid == \A i \in Inode : Chained(ledger[i])

\* A part of a record is evidence: whatever the writers do, it stays the end of its file.  Nobody
\* writes after it, and only the loss of power, which it was never synced against, takes it away,
\* with nothing in its place.
TornIsKept ==
  [][\A i \in Inode : torn[i] =>
       /\ Len(ledger'[i]) <= Len(ledger[i])
       /\ torn'[i] \/ PowerLoss]_vars

\* A writer that has appended to a file never appends to another one, nor to a shorter state of it,
\* in the same life.
WriterKeepsItsFile ==
  [][\A w \in Writer : known[w] # None /\ known'[w] # None =>
       known'[w].inode = known[w].inode /\ known'[w].size >= known[w].size]_vars

\* A record whose append returned is synced: no power loss cuts it off its file.
AckedIsSynced == acked \subseteq HashesIn(SubSeq(ledger[path], 1, synced[path]))

\* The class is a "durable JSONL chain": a record whose append returned survives a power loss.  Not
\* so if the writer of the first record died between the two fsyncs: the next one syncs no directory.
AckedIsDurable == acked # {} => entry[path]

=============================================================================
