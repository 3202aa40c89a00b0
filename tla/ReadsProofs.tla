------------------------------ MODULE ReadsProofs ------------------------------
(***************************************************************************)
(* Theorems about Reads, for any names and objects, policies and number of *)
(* changes.  Places are those of the first three levels (FileTree).        *)
(*                                                                         *)
(* A digest: content and time of writing only grow.  What is known of the  *)
(* file when it is opened is not above what is hashed of it, and that is   *)
(* not above what the file has now; a digest is complete only if the file  *)
(* has what was known of it at first, so all three are one.                *)
(*                                                                         *)
(* What is taken: every directory that a call holds, and every one that it *)
(* still has to visit, lies where the names it was reached by say, however *)
(* these are spelled, because directories are not moved; a file lies under *)
(* the name it was opened by, or has more than one and is taken only where *)
(* nothing is denied; so what the call's view allows for its names, it     *)
(* allows for the place; and the view is of a policy that was in force     *)
(* while the call went on.                                                 *)
(*                                                                         *)
(* What is stable: the directories on the way to such a file and their     *)
(* names stay what they are, so a step that takes one of them off the list *)
(* puts the next one on it: while no limit and no error is noted, the file *)
(* is reported, in the batch, or there is something to visit that leads to *)
(* it, a directory, the file, or an allowed scope's place inside of a      *)
(* denied one.                                                             *)
(***************************************************************************)
EXTENDS Reads, ScopesProofs

TextInv ==
  /\ changes \in Nat
  /\ DOMAIN text = File
  /\ \A f \in File : text[f] \in Nat /\ text[f] <= changes

\* What was hashed lies between what was known of the file at first and what the file has.
Held ==
  /\ call.held \in File
  /\ call.version \in Nat /\ call.version <= text[call.held]
  /\ call.chunks \in Seq(Nat)
  /\ \A i \in DOMAIN call.chunks : call.version <= call.chunks[i] /\ call.chunks[i] <= text[call.held]

Fresh == call.chunks = <<>> /\ ~call.again

\* The steps at which the call has been through its file.
Through == {"bytes", "return", "answered"}

CallInv ==
  /\ DOMAIN call = DOMAIN NoCall
  /\ {call.again, call.complete} \subseteq BOOLEAN
  /\ Fresh \/ Held
  /\ call.step = "bytes" => Held
  /\ call.again => call.kind = "digest"
  /\ call.step \notin Through => Fresh \/ call.again
  /\ call.complete => /\ call.step \in {"return", "answered"}
                      /\ \A i \in DOMAIN call.chunks : call.chunks[i] = call.version

Inv == TextInv /\ CallInv

-----------------------------------------------------------------------------

\* The fields that a digest depends on.
Digested == {"kind", "chunks", "held", "version", "again", "complete"}

LEMMA RefusedOK == ASSUME Refused PROVE CallInv'
  BY DEF Refused, NoCall, CallInv, Fresh, Through

\* A step before the file is read, or beside it.
LEMMA AsideOK ==
  ASSUME CallInv, UNCHANGED text, NEW fields, Proceeds(fields),
         DOMAIN fields \subseteq DOMAIN NoCall \ Digested,
         call.step \notin Through, "step" \in DOMAIN fields => fields.step # "bytes"
  PROVE  CallInv'
<1> DEFINE c == With(fields, call)
<1>1. DOMAIN call = DOMAIN NoCall
  BY DEF CallInv
<1>2. DOMAIN c = DOMAIN NoCall
  BY <1>1 DEF With
<1>3. \A x \in Digested : x \in DOMAIN NoCall /\ x \notin DOMAIN fields
  BY DEF NoCall, Digested
<1>4. \A x \in Digested : c[x] = call[x]
  BY <1>1, <1>3 DEF With
<1>5. c.step = IF "step" \in DOMAIN fields THEN fields.step ELSE call.step
  BY <1>1 DEF With, NoCall
<1>6. /\ c.chunks = call.chunks /\ c.held = call.held /\ c.version = call.version
      /\ c.again = call.again /\ c.complete = call.complete /\ c.kind = call.kind
  BY <1>4 DEF Digested
<1>7. call' = c
  BY DEF Proceeds
<1> HIDE DEF c
<1>8. Held' <=> Held
  BY <1>6, <1>7 DEF Held
<1>9. Fresh' <=> Fresh
  BY <1>6, <1>7 DEF Fresh
<1> QED
  BY <1>2, <1>5, <1>6, <1>7, <1>8, <1>9 DEF CallInv, Through, Fresh

LEMMA AstrayOK ==
  ASSUME CallInv, UNCHANGED text, Astray, call.step \notin Through
  PROVE  CallInv'
<1>1. DOMAIN [step |-> "return"] \subseteq DOMAIN NoCall \ Digested
  BY DEF NoCall, Digested
<1> QED
  BY <1>1, AsideOK, RefusedOK DEF Astray

LEMMA ArrivesOK ==
  ASSUME Inv, UNCHANGED text, NEW object, NEW parts, Arrives(object, parts),
         call.step \in {"stat", "open"}, ~call.again, OpensFile(call.kind) => object \in File
  PROVE  CallInv'
<1> DEFINE read == OpensFile(call.kind)
           fields == [step |-> IF read THEN "bytes" ELSE "list", held |-> object, parts |-> parts,
                      version |-> IF read THEN text[object] ELSE 0,
                      got |-> IF read THEN {Taken(parts, object)} ELSE {}]
           c == With(fields, call)
<1>1. DOMAIN call = DOMAIN NoCall /\ call.chunks = <<>> /\ call.complete = FALSE /\ call.again = FALSE
  BY DEF Inv, CallInv, Through, Fresh
<1>2. Refused \/ Proceeds(fields)
  BY DEF Arrives
<1>3. ASSUME Proceeds(fields) PROVE CallInv'
  <2> HIDE DEF read
  <2>1. DOMAIN c = DOMAIN NoCall
    BY <1>1 DEF With, NoCall
  <2>2. /\ c.step = (IF read THEN "bytes" ELSE "list") /\ c.held = object
        /\ c.version = (IF read THEN text[object] ELSE 0)
        /\ c.chunks = <<>> /\ c.again = FALSE /\ c.complete = FALSE
    BY <1>1 DEF With, NoCall
  <2>3. call' = c
    BY <1>3 DEF Proceeds
  <2> HIDE DEF c
  <2>4. Fresh'
    BY <2>2, <2>3 DEF Fresh
  <2>5. ASSUME read PROVE Held'
    <3>1. object \in File
      BY <2>5 DEF read
    <3>2. text[object] \in Nat
      BY <3>1 DEF Inv, TextInv
    <3>3. call'.held = object /\ call'.version = text[object] /\ call'.chunks = <<>>
      BY <2>2, <2>3, <2>5
    <3> QED
      BY <3>1, <3>2, <3>3 DEF Held
  <2> QED
    BY <2>1, <2>2, <2>3, <2>4, <2>5 DEF CallInv, Through
<1> QED
  BY <1>2, <1>3, RefusedOK

LEMMA StatOK == ASSUME Inv, Stat PROVE CallInv'
<1>1. CallInv /\ UNCHANGED text /\ call.step = "stat" /\ call.step \notin Through
  BY DEF Stat, Inv, tree, Through
<1> DEFINE here == Last(call.at)
           name == Head(call.pending)
           object == At(here, name)
           back == [at |-> Front(call.at), below |-> Front(call.below), pending |-> Tail(call.pending)]
           link == [hops |-> call.hops + 1,
                    at |-> IF object \in Absolute THEN <<call.at[1]>> ELSE call.at,
                    below |-> IF object \in Absolute THEN <<>> ELSE call.below,
                    pending |-> Target[object] \o Tail(call.pending)]
<1>2. \/ Astray
      \/ ~OpensFile(call.kind) /\ Arrives(here, call.below)
      \/ Proceeds(back)
      \/ Proceeds(link)
      \/ Proceeds([step |-> "open"])
  BY Zenon DEF Stat
<1>3. ASSUME Arrives(here, call.below), ~OpensFile(call.kind) PROVE CallInv'
  <2>1. ~call.again
    BY <1>1, <1>3 DEF CallInv, OpensFile
  <2> QED
    BY <1>1, <1>3, <2>1, ArrivesOK
<1>4. /\ DOMAIN back \subseteq DOMAIN NoCall \ Digested /\ "step" \notin DOMAIN back
      /\ DOMAIN link \subseteq DOMAIN NoCall \ Digested /\ "step" \notin DOMAIN link
      /\ DOMAIN [step |-> "open"] \subseteq DOMAIN NoCall \ Digested
  BY DEF NoCall, Digested
<1> HIDE DEF back, link
<1>5. ASSUME Proceeds(back) \/ Proceeds(link) \/ Proceeds([step |-> "open"]) PROVE CallInv'
  BY <1>1, <1>4, <1>5, AsideOK
<1> QED
  BY <1>1, <1>2, <1>3, <1>5, AstrayOK

\* The end of a digest: its file has what was known of it at first.
LEMMA CompleteOK ==
  ASSUME Inv, UNCHANGED text, NEW complete \in BOOLEAN,
         Proceeds([step |-> "return", complete |-> complete]), call.step \notin Through,
         complete => call.again /\ text[call.held] = call.version
  PROVE  CallInv'
<1> DEFINE c == With([step |-> "return", complete |-> complete], call)
<1>1. DOMAIN call = DOMAIN NoCall
  BY DEF Inv, CallInv
<1>2. DOMAIN c = DOMAIN NoCall
  BY <1>1 DEF With, NoCall
<1>3. /\ c.step = "return" /\ c.complete = complete /\ c.chunks = call.chunks /\ c.held = call.held
      /\ c.version = call.version /\ c.again = call.again /\ c.kind = call.kind
  BY <1>1 DEF With, NoCall
<1>4. call' = c
  BY DEF Proceeds
<1> HIDE DEF c
<1>5. (Held' <=> Held) /\ (Fresh' <=> Fresh)
  BY <1>3, <1>4 DEF Held, Fresh
<1>6. ASSUME complete, NEW i \in DOMAIN call.chunks PROVE call.chunks[i] = call.version
  <2>1. Held
    BY <1>6 DEF Inv, CallInv, Fresh, Through
  <2>2. call.chunks[i] \in Nat
    BY <1>6, <2>1 DEF Held
  <2>3. call.version \in Nat /\ call.version <= call.chunks[i] /\ call.chunks[i] <= call.version
    BY <1>6, <2>1 DEF Held
  <2> QED
    BY <2>2, <2>3
<1> QED
  BY <1>2, <1>3, <1>4, <1>5, <1>6 DEF Inv, CallInv, Through

LEMMA OpenOK == ASSUME Inv, Open PROVE CallInv'
<1>1. CallInv /\ UNCHANGED text /\ call.step = "open" /\ call.step \notin Through
  BY DEF Open, Inv, tree, Through
<1> DEFINE name == Head(call.pending)
           object == Opens(Last(call.at), name)
           last == Len(call.pending) = 1
           parts == Append(call.below, name)
           wanted == IF last /\ OpensFile(call.kind) THEN File ELSE Directory
           on == [step |-> "stat", at |-> Append(call.at, object), below |-> parts,
                  pending |-> Tail(call.pending)]
<1>2. \/ Astray
      \/ Proceeds([step |-> "return", complete |-> FALSE])
      \/ Proceeds(on)
      \/ call.again /\ Proceeds([step |-> "return", complete |-> SameFile(object)])
      \/ ~call.again /\ last /\ object \in wanted /\ Arrives(object, parts)
  BY Zenon DEF Open
<1>3. DOMAIN on \subseteq DOMAIN NoCall \ Digested /\ on.step = "stat"
  BY DEF NoCall, Digested
<1>4. ASSUME Proceeds(on) PROVE CallInv'
  <2> HIDE DEF on
  <2> QED
    BY <1>1, <1>3, <1>4, AsideOK
<1>5. ASSUME call.again, Proceeds([step |-> "return", complete |-> SameFile(object)]) PROVE CallInv'
  <2> DEFINE same == SameFile(object)
  <2>1. same \in BOOLEAN
    BY DEF SameFile
  <2>2. same => text[call.held] = call.version
    BY DEF SameFile
  <2> HIDE DEF same
  <2> QED
    BY <1>1, <1>5, <2>1, <2>2, CompleteOK DEF same
<1>6. ASSUME ~call.again, last, object \in wanted, Arrives(object, parts) PROVE CallInv'
  BY <1>1, <1>6, ArrivesOK
<1>7. ASSUME Proceeds([step |-> "return", complete |-> FALSE]) PROVE CallInv'
  BY <1>1, <1>7, CompleteOK
<1> QED
  BY <1>1, <1>2, <1>4, <1>5, <1>6, <1>7, AstrayOK

\* One more chunk is hashed.
LEMMA ChunkOK ==
  ASSUME Inv, UNCHANGED text, call.step = "bytes", NEW fields, Proceeds(fields),
         DOMAIN fields \subseteq (DOMAIN NoCall \ Digested) \cup {"chunks", "again"},
         {"chunks", "step"} \subseteq DOMAIN fields, fields.chunks = Chunks,
         fields.step \in {"bytes", "return", "stat"},
         fields.step = "stat" => "again" \in DOMAIN fields,
         "again" \in DOMAIN fields => fields.again = TRUE /\ call.kind = "digest"
  PROVE  CallInv'
<1> DEFINE c == With(fields, call)
<1>1. DOMAIN call = DOMAIN NoCall /\ Held /\ call.complete = FALSE /\ call.again \in BOOLEAN
      /\ (call.again => call.kind = "digest")
  BY DEF Inv, CallInv
<1>2. DOMAIN c = DOMAIN NoCall
  BY <1>1 DEF With, NoCall
<1>3. /\ c.step = fields.step /\ c.chunks = Chunks /\ c.held = call.held /\ c.version = call.version
      /\ c.complete = FALSE /\ c.kind = call.kind
      /\ c.again = IF "again" \in DOMAIN fields THEN TRUE ELSE call.again
  BY <1>1 DEF With, NoCall, Digested
<1>4. call' = c
  BY DEF Proceeds
<1>5. Held'
  <2> DEFINE more == Append(call.chunks, text[call.held])
  <2>1. text[call.held] \in Nat
    BY <1>1 DEF Inv, TextInv, Held
  <2>2. /\ more \in Seq(Nat)
        /\ \A i \in DOMAIN more : \/ i \in DOMAIN call.chunks /\ more[i] = call.chunks[i]
                                 \/ more[i] = text[call.held]
    BY <1>1, <2>1, AppendProperties DEF Held
  <2>3. \A i \in DOMAIN more : call.version <= more[i] /\ more[i] <= text[call.held]
    BY <1>1, <2>1, <2>2 DEF Held
  <2>4. c.chunks = more
    BY <1>3 DEF Chunks
  <2> HIDE DEF c, more
  <2> QED
    BY <1>1, <1>3, <1>4, <2>2, <2>3, <2>4 DEF Held
<1> HIDE DEF c
<1> QED
  BY <1>1, <1>2, <1>3, <1>4, <1>5 DEF CallInv, Through, Fresh

LEMMA ReadBytesOK == ASSUME Inv, ReadBytes PROVE CallInv'
<1> DEFINE fields == [chunks |-> Chunks, step |-> IF Len(Chunks) = 1 THEN "bytes" ELSE "return"]
<1>1. UNCHANGED text /\ call.step = "bytes" /\ (Proceeds(fields) \/ Refused)
  BY DEF ReadBytes, tree
<1>2. DOMAIN fields \subseteq (DOMAIN NoCall \ Digested) \cup {"chunks", "again"}
      /\ {"chunks", "step"} \subseteq DOMAIN fields /\ "again" \notin DOMAIN fields
      /\ fields.chunks = Chunks /\ fields.step \in {"bytes", "return"}
  BY DEF NoCall, Digested
<1> HIDE DEF fields
<1> QED
  BY <1>1, <1>2, ChunkOK, RefusedOK

LEMMA HashBytesOK == ASSUME Inv, HashBytes PROVE CallInv'
<1> DEFINE again == [chunks |-> Chunks, step |-> "stat", again |-> TRUE, at |-> <<call.at[1]>>,
                     below |-> <<>>, hops |-> 0, pending |-> call.parts]
<1>1. UNCHANGED text /\ call.step = "bytes" /\ call.kind = "digest"
  BY DEF HashBytes, tree
<1>2. \/ Proceeds([chunks |-> Chunks])
      \/ Proceeds(again)
      \/ Proceeds([step |-> "return"])
  BY DEF HashBytes
<1>3. ASSUME Proceeds(again) PROVE CallInv'
  <2>1. DOMAIN again \subseteq (DOMAIN NoCall \ Digested) \cup {"chunks", "again"}
        /\ {"chunks", "step"} \subseteq DOMAIN again /\ again.again = TRUE
        /\ again.chunks = Chunks /\ again.step = "stat" /\ "again" \in DOMAIN again
    BY DEF NoCall, Digested
  <2> HIDE DEF again
  <2> QED
    BY <1>1, <1>3, <2>1, ChunkOK
<1>4. ASSUME Proceeds([chunks |-> Chunks]) PROVE CallInv'
  <2> DEFINE fields == [chunks |-> Chunks, step |-> "bytes"]
  <2>1. DOMAIN call = DOMAIN NoCall
    BY DEF Inv, CallInv
  <2>2. With([chunks |-> Chunks], call) = With(fields, call)
    BY <1>1, <2>1 DEF With, NoCall
  <2>3. Proceeds(fields)
    BY <1>4, <2>2 DEF Proceeds
  <2>4. DOMAIN fields \subseteq (DOMAIN NoCall \ Digested) \cup {"chunks", "again"}
        /\ {"chunks", "step"} \subseteq DOMAIN fields /\ "again" \notin DOMAIN fields
        /\ fields.chunks = Chunks /\ fields.step = "bytes"
    BY DEF NoCall, Digested
  <2> HIDE DEF fields
  <2> QED
    BY <1>1, <2>3, <2>4, ChunkOK
<1>5. ASSUME Proceeds([step |-> "return"]) PROVE CallInv'
  <2>1. DOMAIN call = DOMAIN NoCall
    BY DEF Inv, CallInv
  <2>2. /\ DOMAIN call' = DOMAIN NoCall /\ call'.step = "return" /\ call'.chunks = call.chunks
        /\ call'.held = call.held /\ call'.version = call.version /\ call'.again = call.again
        /\ call'.complete = call.complete /\ call'.kind = call.kind
    BY <1>5, <2>1 DEF Proceeds, With, NoCall
  <2>3. (Held' <=> Held) /\ (Fresh' <=> Fresh)
    BY <1>1, <2>2 DEF Held, Fresh
  <2> QED
    BY <1>1, <2>2, <2>3 DEF Inv, CallInv, Through
<1> QED
  BY <1>2, <1>3, <1>4, <1>5

\* Every other step of a reader.
LEMMA ListOK ==
  ASSUME CallInv, UNCHANGED text, call.step \notin Through, NEW directory, NEW parts, NEW rest,
         List(directory, parts, rest)
  PROVE  CallInv'
<1>1. ASSUME NEW withheld, NEW todo, NEW got,
             Proceeds([step |-> "visit", withheld |-> withheld, todo |-> todo]) \/
             Proceeds([step |-> "visit", todo |-> todo, withheld |-> withheld, got |-> got])
      PROVE CallInv'
  <2>1. /\ DOMAIN [step |-> "visit", withheld |-> withheld, todo |-> todo] \subseteq DOMAIN NoCall \ Digested
        /\ DOMAIN [step |-> "visit", todo |-> todo, withheld |-> withheld, got |-> got]
             \subseteq DOMAIN NoCall \ Digested
    BY DEF NoCall, Digested
  <2> QED
    BY <1>1, <2>1, AsideOK
<1> QED
  BY <1>1, Zenon DEF List, ListTree, ListSearch

LEMMA ReturnOK == ASSUME Inv, Return PROVE CallInv'
<1>1. UNCHANGED text /\ call.step = "return" /\ (Proceeds([step |-> "answered"]) \/ Refused)
  BY DEF Return, tree
<1>2. ASSUME Proceeds([step |-> "answered"]) PROVE CallInv'
  <2>1. DOMAIN call = DOMAIN NoCall
    BY DEF Inv, CallInv
  <2>2. /\ DOMAIN call' = DOMAIN NoCall /\ call'.step = "answered" /\ call'.chunks = call.chunks
        /\ call'.held = call.held /\ call'.version = call.version /\ call'.again = call.again
        /\ call'.complete = call.complete /\ call'.kind = call.kind
    BY <1>2, <2>1 DEF Proceeds, With, NoCall
  <2>3. (Held' <=> Held) /\ (Fresh' <=> Fresh)
    BY <1>1, <2>2 DEF Held, Fresh
  <2> QED
    BY <1>1, <2>2, <2>3 DEF Inv, CallInv, Through
<1> QED
  BY <1>1, <1>2, RefusedOK

\* A call begins without a file.
LEMMA BeginOK ==
  ASSUME NEW step \in {"view", "snapshot"}, NEW kind, NEW workspace, NEW path, NEW bound,
         \/ call' = [NoCall EXCEPT !.step = step, !.kind = kind, !.workspace = workspace,
                                   !.path = path, !.bound = bound]
         \/ call' = [NoCall EXCEPT !.step = step, !.kind = kind]
  PROVE  CallInv'
  BY DEF NoCall, CallInv, Fresh, Through

LEMMA ReaderOK == ASSUME Inv, ReaderNext PROVE CallInv'
<1>0. CallInv /\ UNCHANGED text
  BY DEF Inv, ReaderNext, Begin, TakeView, Session, OpenRoot, Stat, Open, ReadBytes, HashBytes, ListBase,
         EnterDirectory, SearchFile, Limit, WalkEnds, Return, Done, tree
<1>1. ASSUME NEW kind \in Kind, NEW workspace \in Workspace, NEW path \in Paths, Begin(kind, workspace, path)
      PROVE CallInv'
  BY <1>1, BeginOK, RefusedOK DEF Begin
<1>2. ASSUME TakeView PROVE CallInv'
  <2> DEFINE fields == [step |-> "session", view |-> PathPolicy(call.workspace)]
  <2>1. DOMAIN fields \subseteq DOMAIN NoCall \ Digested /\ fields.step = "session"
    BY DEF NoCall, Digested
  <2>2. Proceeds(fields) /\ call.step = "view"
    BY <1>2 DEF TakeView
  <2> HIDE DEF fields
  <2> QED
    BY <1>0, <2>1, <2>2, AsideOK DEF Through
<1>3. ASSUME Session PROVE CallInv'
  <2>1. DOMAIN [step |-> "root"] \subseteq DOMAIN NoCall \ Digested
    BY DEF NoCall, Digested
  <2> QED
    BY <1>0, <1>3, <2>1, AsideOK, RefusedOK DEF Session, Through
<1>4. ASSUME OpenRoot PROVE CallInv'
  <2> DEFINE fields == [step |-> "stat", at |-> <<top>>, pending |-> call.path]
  <2>1. DOMAIN fields \subseteq DOMAIN NoCall \ Digested /\ fields.step = "stat"
    BY DEF NoCall, Digested
  <2>2. (Proceeds(fields) \/ Refused) /\ call.step = "root"
    BY <1>4 DEF OpenRoot
  <2> HIDE DEF fields
  <2> QED
    BY <1>0, <2>1, <2>2, AsideOK, RefusedOK DEF Through
<1>5. ASSUME ListBase PROVE CallInv'
  BY <1>0, <1>5, ListOK DEF ListBase, Through
<1>6. ASSUME EnterDirectory PROVE CallInv'
  <2>1. DOMAIN [todo |-> Tail(call.todo)] \subseteq DOMAIN NoCall \ Digested
        /\ "step" \notin DOMAIN [todo |-> Tail(call.todo)]
    BY DEF NoCall, Digested
  <2> QED
    BY <1>0, <1>6, <2>1, ListOK, AsideOK DEF EnterDirectory, Through
<1>7. ASSUME SearchFile PROVE CallInv'
  <2>1. ASSUME NEW todo, NEW got,
               \/ Proceeds([withheld |-> TRUE, todo |-> todo])
               \/ Proceeds([skipped |-> TRUE, todo |-> todo])
               \/ Proceeds([got |-> got, todo |-> todo])
               \/ Proceeds([todo |-> todo])
        PROVE  CallInv'
    <3>1. /\ DOMAIN [withheld |-> TRUE, todo |-> todo] \subseteq DOMAIN NoCall \ Digested
          /\ DOMAIN [skipped |-> TRUE, todo |-> todo] \subseteq DOMAIN NoCall \ Digested
          /\ DOMAIN [got |-> got, todo |-> todo] \subseteq DOMAIN NoCall \ Digested
          /\ DOMAIN [todo |-> todo] \subseteq DOMAIN NoCall \ Digested
          /\ "step" \notin {"withheld", "skipped", "got", "todo"}
      BY DEF NoCall, Digested
    <3>2. call.step \notin Through
      BY <1>7 DEF SearchFile, Through
    <3> QED
      BY <1>0, <2>1, <3>1, <3>2, AsideOK
  <2> QED
    BY <1>7, <2>1, Zenon DEF SearchFile
<1>8. ASSUME Limit \/ WalkEnds PROVE CallInv'
  <2> DEFINE cut == [step |-> "return", cut |-> TRUE, todo |-> <<>>]
  <2>1. /\ DOMAIN cut \subseteq DOMAIN NoCall \ Digested /\ cut.step = "return"
        /\ DOMAIN [step |-> "return"] \subseteq DOMAIN NoCall \ Digested
    BY DEF NoCall, Digested
  <2>2. call.step \notin Through /\ (Proceeds(cut) \/ Proceeds([step |-> "return"]))
    BY <1>8 DEF Limit, WalkEnds, Through
  <2> HIDE DEF cut
  <2> QED
    BY <1>0, <2>1, <2>2, AsideOK
<1>9. ASSUME Done PROVE CallInv'
  BY <1>9, RefusedOK DEF Done
<1> QED
  BY <1>1, <1>2, <1>3, <1>4, <1>5, <1>6, <1>7, <1>8, <1>9, StatOK, OpenOK, ReadBytesOK, HashBytesOK, ReturnOK
  DEF ReaderNext

\* A search of a scope reads no file by itself.
LEMMA ScopeSearchOK == ASSUME Inv, ScopeSearchNext PROVE CallInv'
<1>1. CallInv /\ UNCHANGED text
  BY DEF Inv, ScopeSearchNext, BeginScope, Snapshot, MayScope, Scan, Enter, EnterPocket, Consider, Exhaust,
         Walked, Flush, Filter, tree
<1>2. ASSUME NEW scope \in Scope, BeginScope(scope) PROVE CallInv'
  BY <1>2, BeginOK DEF BeginScope
<1>3. ASSUME NEW x, NEW y, NEW z, NEW w, NEW step \in {"may", "scan", "filter", "visit", "flush", "answered"},
             \/ Proceeds([step |-> step]) \/ Proceeds([step |-> step, view |-> x])
             \/ Proceeds([step |-> step, cut |-> x]) \/ Proceeds([step |-> step, todo |-> x])
             \/ Proceeds([todo |-> x]) \/ Proceeds([skipped |-> x, todo |-> y])
             \/ Proceeds([batch |-> x, step |-> step, todo |-> y])
             \/ Proceeds([cut |-> x, todo |-> y, batch |-> z, step |-> step])
             \/ Proceeds([batch |-> x, got |-> y, step |-> step])
             \/ Proceeds([batch |-> x, todo |-> y, got |-> z, cut |-> w, step |-> step])
             \/ Proceeds([step |-> step, got |-> x, withheld |-> y]),
             call.step \notin Through
      PROVE  CallInv'
  <2>1. {"step", "view", "cut", "todo", "skipped", "batch", "got", "withheld"}
          \subseteq DOMAIN NoCall \ Digested
    BY DEF NoCall, Digested
  <2> QED
    BY <1>1, <1>3, <2>1, AsideOK
<1>4. ASSUME ~(\E scope \in Scope : BeginScope(scope)) PROVE call.step \notin Through
  BY <1>4 DEF ScopeSearchNext, Snapshot, MayScope, Scan, Enter, EnterPocket, Consider, Exhaust, Walked,
              Flush, Filter, Visiting, Through
<1>5. ASSUME Snapshot \/ MayScope \/ Scan \/ Walked \/ Filter, call.step \notin Through PROVE CallInv'
  BY <1>3, <1>5, RefusedOK DEF Snapshot, MayScope, Scan, Walked, Filter
<1>6. ASSUME Enter \/ EnterPocket \/ Consider, call.step \notin Through PROVE CallInv'
  <2>1. ASSUME NEW object, Missed(object) PROVE CallInv'
    BY <1>3, <1>6, <2>1 DEF Missed
  <2> QED
    BY <1>3, <1>6, <2>1, Zenon DEF Enter, EnterPocket, Consider
<1>7. ASSUME Exhaust, call.step \notin Through PROVE CallInv'
  <2>1. PICK late \in BOOLEAN :
          Proceeds([cut |-> TRUE, todo |-> <<>>, batch |-> IF late THEN <<>> ELSE call.batch,
                    step |-> IF late THEN "filter" ELSE "flush"])
    BY <1>7 DEF Exhaust
  <2> QED
    BY <1>3, <1>7, <2>1
<1>8. ASSUME Flush, call.step \notin Through PROVE CallInv'
  <2> DEFINE found == {b \in ToSet(call.batch) : Holds(b.object)}
  <2>1. \/ Proceeds([batch |-> <<>>, got |-> call.got \cup found,
                     step |-> IF call.todo = <<>> THEN "filter" ELSE "visit"])
        \/ \E some \in SUBSET found :
             Proceeds([batch |-> <<>>, todo |-> <<>>, got |-> call.got \cup some,
                       cut |-> TRUE, step |-> "filter"])
    BY <1>8 DEF Flush
  <2> HIDE DEF found
  <2>2. (IF call.todo = <<>> THEN "filter" ELSE "visit") \in {"filter", "visit"}
    OBVIOUS
  <2> QED
    BY <1>3, <1>8, <2>1, <2>2
<1> QED
  BY <1>2, <1>4, <1>5, <1>6, <1>7, <1>8 DEF ScopeSearchNext

-----------------------------------------------------------------------------

LEMMA InitInv == Init => Inv
  BY DEF Init, TreeInit, NoCall, Inv, TextInv, CallInv, Fresh, Through

\* Whatever others do, content only moves on.
LEMMA OthersInv ==
  ASSUME Inv, Others, UNCHANGED call PROVE Inv'
<1>1. /\ changes' \in Nat /\ DOMAIN text' = File
      /\ \A f \in File : text'[f] \in Nat /\ text'[f] <= changes' /\ text[f] <= text'[f]
  <2>1. changes' = changes + 1 /\ (UNCHANGED text \/ \E f \in File : text' = [text EXCEPT ![f] = changes + 1])
    BY DEF Others, TreeNext, Turn, Rewrite, Forbid, ReplaceRoot, EditPolicy, EditRegistry, Change
  <2> QED
    BY <2>1 DEF Inv, TextInv
<1>2. Held => Held'
  <2> SUFFICES ASSUME Held PROVE Held'
    OBVIOUS
  <2>1. call.held \in File /\ text[call.held] \in Nat /\ text'[call.held] \in Nat
        /\ text[call.held] <= text'[call.held]
    BY <1>1 DEF Held, Inv, TextInv
  <2>2. ASSUME NEW i \in DOMAIN call.chunks
        PROVE call.version <= call.chunks[i] /\ call.chunks[i] <= text'[call.held]
    <3>1. call.chunks[i] \in Nat
      BY <2>2 DEF Held
    <3> QED
      BY <2>1, <2>2, <3>1 DEF Held
  <2> QED
    BY <2>1, <2>2 DEF Held
<1> QED
  BY <1>1, <1>2 DEF Inv, TextInv, CallInv, Fresh

LEMMA StepInv == Inv /\ [Next]_vars => Inv'
<1> SUFFICES ASSUME Inv, [Next]_vars PROVE Inv'
  OBVIOUS
<1>1. CASE UNCHANGED vars
  BY <1>1 DEF vars, tree, Inv, TextInv, CallInv, Held, Fresh
<1>2. ASSUME ReaderNext \/ ScopeSearchNext PROVE Inv'
  <2>1. CallInv'
    BY <1>2, ReaderOK, ScopeSearchOK
  <2>2. UNCHANGED <<text, changes>>
    BY <1>2 DEF ReaderNext, Begin, TakeView, Session, OpenRoot, Stat, Open, ReadBytes, HashBytes, ListBase,
                EnterDirectory, SearchFile, Limit, WalkEnds, Return, Done, ScopeSearchNext, BeginScope,
                Snapshot, MayScope, Scan, Enter, EnterPocket, Consider, Exhaust, Walked, Flush, Filter, tree
  <2> QED
    BY <2>1, <2>2 DEF Inv, TextInv
<1> QED
  BY <1>1, <1>2, OthersInv DEF Next

\* A digest that is given as complete is of one content (file_digest.py, digest_opened_file): what was
\* known of the file before the first byte, each chunk, and what is there after the last are the same.
THEOREM DigestWasOneContent == Spec => []DigestIsOneContent
<1>1. Inv => DigestIsOneContent
  BY DEF Inv, CallInv, DigestIsOneContent
<1> QED
  BY <1>1, InitInv, StepInv, PTL DEF Spec

-----------------------------------------------------------------------------
(* What a call takes is allowed.                                           *)

\* What the file system takes for one name, and for one path.
SameName(n, m) == IF CaseBlind THEN Fold[n] = Fold[m] ELSE n = m
Like(p, q) == IF CaseBlind THEN Folded(p) = Folded(q) ELSE p = q

\* What the tree and its root are, whatever others have done.
NamesInv(home) ==
  /\ names \in [Directory -> [Name -> Directory \cup File \cup Link \cup {None}]]
  /\ top \in {Root, Spare}
  /\ \A d \in Directory, n \in Name :
       /\ names[d][n] # None => MayName(d, n)
       /\ names[d][n] \in Directory => home[names[d][n]] = Append(home[d], n)

LEMMA LikeGoesOn ==
  ASSUME NEW p \in Seq(Name), NEW q \in Seq(Name), Like(p, q), NEW n \in Name, NEW m \in Name, SameName(n, m)
  PROVE  Like(Append(p, n), Append(q, m))
<1>1. CASE ~CaseBlind
  BY <1>1 DEF Like, SameName
<1>2. CASE CaseBlind
  <2> DEFINE a == Append(p, n)
             b == Append(q, m)
  <2>1. Folded(p) = Folded(q) /\ Fold[n] = Fold[m]
    BY <1>2 DEF Like, SameName
  <2>2. Len(p) = Len(q) /\ \A i \in 1..Len(p) : Fold[p[i]] = Fold[q[i]]
    BY <2>1, FoldedPath
  <2>3. /\ a \in Seq(Name) /\ b \in Seq(Name) /\ Len(a) = Len(p) + 1 /\ Len(b) = Len(p) + 1
        /\ \A i \in 1..Len(p) : a[i] = p[i] /\ b[i] = q[i]
        /\ a[Len(p) + 1] = n /\ b[Len(p) + 1] = m
    BY <2>2
  <2> HIDE DEF a, b
  <2>4. \A i \in 1..(Len(p) + 1) : Fold[a[i]] = Fold[b[i]]
    BY <2>1, <2>2, <2>3
  <2>5. /\ Folded(a) \in Seq(Name) /\ Len(Folded(a)) = Len(p) + 1
        /\ Folded(b) \in Seq(Name) /\ Len(Folded(b)) = Len(p) + 1
        /\ \A i \in 1..(Len(p) + 1) : Folded(a)[i] = Fold[a[i]] /\ Folded(b)[i] = Fold[b[i]]
    BY <2>3, FoldedPath
  <2>6. Folded(a) = Folded(b)
    BY <2>4, <2>5, SeqEqual
  <2> QED
    BY <1>2, <2>6 DEF Like, a, b
<1> QED
  BY <1>1, <1>2

\* What is found under a name is there under a name that is the same for the file system.
LEMMA FoundUnder ==
  ASSUME NEW d \in Directory, NEW n \in Name, At(d, n) # None
  PROVE  \E m \in Name : names[d][m] = At(d, n) /\ SameName(n, m)
<1>1. CASE ~CaseBlind
  BY <1>1 DEF At, SameName
<1>2. CASE CaseBlind
  <2> DEFINE same == {m \in Name : Fold[m] = Fold[n] /\ names[d][m] # None}
  <2>1. At(d, n) = IF same = {} THEN None ELSE names[d][CHOOSE m \in same : TRUE]
    BY <1>2 DEF At
  <2>2. (CHOOSE m \in same : TRUE) \in same
    BY <2>1
  <2> QED
    BY <1>2, <2>1, <2>2 DEF SameName
<1> QED
  BY <1>1, <1>2

\* A directory that is opened under a name is in its place.
LEMMA OpenedInPlace ==
  ASSUME NEW home, Settled(home), NamesInv(home), NEW d \in Directory, NEW n \in Name,
         At(d, n) \in Directory, NEW above \in Seq(Name), Like(above, home[d])
  PROVE  Like(Append(above, n), home[At(d, n)])
<1>1. PICK m \in Name : names[d][m] = At(d, n) /\ SameName(n, m)
  BY FoundUnder, TreeAssumption
<1>2. home[At(d, n)] = Append(home[d], m) /\ home[d] \in Seq(Name)
  BY <1>1 DEF NamesInv, Settled
<1> QED
  BY <1>1, <1>2, LikeGoesOn

\* What is allowed under one spelling is allowed where it is.
LEMMA AllowedInPlace ==
  ASSUME NEW home, Settled(home), SpelledAlike(home), NEW d \in Directory, NEW n \in Name, MayName(d, n),
         NEW view, DOMAIN view \subseteq Scope, NEW operation, NEW path \in Seq(Name),
         Like(path, Append(home[d], n)), Allows(view, operation, path)
  PROVE  Allows(view, operation, Append(home[d], n))
<1> DEFINE q == Append(home[d], n)
<1>1. q \in Seq(Name)
  BY DEF Settled
<1>2. CASE ~CaseBlind
  BY <1>2 DEF Like
<1>3. CASE CaseBlind
  <2>1. \A s \in DOMAIN view : (CoversFolded(s, q) <=> CoversFolded(s, path))
    BY <1>3 DEF Like, CoversFolded
  <2>2. \A s \in DOMAIN view : (Covers(s, q) <=> CoversFolded(s, q))
    BY <1>1, <1>3, CoversAsItFolds DEF SpelledAlike, ScopesSpelled
  <2> HIDE DEF q
  <2>3. {s \in DOMAIN view : CoversFolded(s, q)} = {s \in DOMAIN view : CoversFolded(s, path)}
    BY <2>1
  <2>4. {s \in DOMAIN view : Covers(s, q)} = {s \in DOMAIN view : CoversFolded(s, path)}
    BY <2>1, <2>2
  <2>5. Governing(view, q) \subseteq Governing(view, path)
    BY <2>3, <2>4 DEF Governing
  <2> QED
    BY <2>5 DEF Allows, q
<1> QED
  BY <1>2, <1>3

\* Everything that has a place lies there under a name of a directory.
LEMMA PlacedUnder ==
  ASSUME NEW home, Settled(home), NamesInv(home), NEW e \in Placed
  PROVE  \E d \in Directory, n \in Name : /\ names[d][n] = e[2] /\ e[2] # None
                                          /\ e[1] = Append(home[d], n)
<1> DEFINE Within(places) ==
             UNION {{<<Append(d[1], n), names[d[2]][n], Append(d[3], d[2])>> :
                       n \in {m \in Name : names[d[2]][m] # None}} :
                    d \in {f \in places : f[2] \in Directory}}
           InPlace(f) == f[2] \in Directory => home[f[2]] = f[1]
           Under(f) == \E d \in Directory, n \in Name : /\ names[d][n] = f[2] /\ f[2] # None
                                                         /\ f[1] = Append(home[d], n)
           zero == {<<<<>>, top, <<>>>>}
           one == Within(zero)
           two == Within(one)
<1>1. ASSUME NEW places, \A f \in places : InPlace(f), NEW f \in Within(places)
      PROVE  Under(f) /\ InPlace(f)
  <2>1. PICK d \in places, n \in Name :
          /\ d[2] \in Directory /\ names[d[2]][n] # None
          /\ f = <<Append(d[1], n), names[d[2]][n], Append(d[3], d[2])>>
    BY <1>1
  <2>2. home[d[2]] = d[1]
    BY <1>1, <2>1
  <2>3. f[1] = Append(home[d[2]], n) /\ f[2] = names[d[2]][n]
    BY <2>1, <2>2
  <2>4. f[2] \in Directory => home[f[2]] = f[1]
    BY <2>1, <2>3 DEF NamesInv
  <2> QED
    BY <2>1, <2>3, <2>4
<1>2. Placed = one \cup two \cup Within(two)
  BY DEF Placed
<1>3. \A f \in zero : InPlace(f)
  BY DEF Settled, NamesInv
<1> HIDE DEF Within, InPlace, Under, zero
<1>4. \A f \in one : Under(f) /\ InPlace(f)
  BY <1>1, <1>3
<1>5. \A f \in two : Under(f) /\ InPlace(f)
  BY <1>1, <1>4
<1>6. \A f \in Within(two) : Under(f)
  BY <1>1, <1>5
<1>7. Under(e)
  BY <1>2, <1>4, <1>5, <1>6
<1> QED
  BY <1>7 DEF Under

\* A directory has no place but its own.
LEMMA DirectoryPlaces ==
  ASSUME NEW home, Settled(home), NamesInv(home), NEW d \in Directory
  PROVE  PlacesOf(d) \subseteq {home[d]}
<1>1. ASSUME NEW e \in Placed, e[2] = d PROVE e[1] = home[d]
  <2>1. PICK f \in Directory, n \in Name : names[f][n] = d /\ e[1] = Append(home[f], n)
    BY <1>1, PlacedUnder
  <2> QED
    BY <2>1 DEF NamesInv
<1>2. d = top => home[d] = <<>>
  BY DEF Settled, NamesInv
<1> QED
  BY <1>1, <1>2 DEF PlacesOf

\* A file of one link has one name.
LEMMA OneName ==
  ASSUME NEW object, ~(Links(object) > 1), NEW d \in Directory, NEW n \in Name, NEW e \in Directory, NEW m \in Name,
         names[d][n] = object, names[e][m] = object
  PROVE  d = e /\ n = m
<1> DEFINE all == {x \in Directory \X Name : names[x[1]][x[2]] = object}
           some == {<<d, n>>, <<e, m>>}
<1>1. some \subseteq all
  OBVIOUS
<1>2. IsFiniteSet(all)
  BY TreeAssumption, FS_Product, FS_Subset
<1>3. Cardinality(all) \in Nat /\ Cardinality(some) <= Cardinality(all)
  BY <1>1, <1>2, FS_Subset, FS_CardinalityType
<1>4. ~(Cardinality(all) > 1)
  BY DEF Links
<1>5. <<d, n>> # <<e, m>> => Cardinality(some) = 2
  <2>1. IsFiniteSet({<<d, n>>}) /\ Cardinality({<<d, n>>}) = 1
    BY FS_Singleton
  <2>2. Cardinality({<<d, n>>} \cup {<<e, m>>})
          = IF <<e, m>> \in {<<d, n>>} THEN Cardinality({<<d, n>>}) ELSE Cardinality({<<d, n>>}) + 1
    BY <2>1, FS_AddElement, Zenon
  <2>3. some = {<<d, n>>} \cup {<<e, m>>}
    OBVIOUS
  <2> QED
    BY <2>1, <2>2, <2>3
<1> HIDE DEF some, all
<1>6. <<d, n>> = <<e, m>>
  BY <1>3, <1>4, <1>5
<1> QED
  BY <1>6

\* A file that is opened under an allowed path and not refused for its other names is allowed
\* wherever it lies.
LEMMA FileAllowed ==
  ASSUME NEW home, Settled(home), SpelledAlike(home), NamesInv(home), NEW d \in Directory, NEW n \in Name,
         At(d, n) \in File, NEW above \in Seq(Name), Like(above, home[d]),
         NEW view, DOMAIN view \subseteq Scope, NEW operation, Allows(view, operation, Append(above, n)),
         ~RefusesOtherNames(view, operation, Links(At(d, n))), NEW place \in PlacesOf(At(d, n))
  PROVE  place \in Seq(Name) /\ Allows(view, operation, place)
<1> DEFINE object == At(d, n)
<1>1. object # None /\ object \notin Directory /\ object # top
  BY TreeAssumption DEF NamesInv
<1>2. PICK e \in Directory, m \in Name : names[e][m] = object /\ place = Append(home[e], m)
  <2>1. PICK x \in Placed : x[2] = object /\ place = x[1]
    BY <1>1 DEF PlacesOf
  <2> QED
    BY <2>1, PlacedUnder
<1>3. home[e] \in Seq(Name) /\ home[d] \in Seq(Name) /\ MayName(e, m)
  BY <1>1, <1>2 DEF Settled, NamesInv
<1>4. place \in Seq(Name)
  BY <1>2, <1>3
<1>5. CASE ~Denies(view, operation)
  BY <1>4, <1>5, GoverningScopes DEF Denies, Allows
<1>6. CASE ~(Links(object) > 1)
  <2>1. PICK k \in Name : names[d][k] = object /\ SameName(n, k)
    BY <1>1, FoundUnder
  <2>2. d = e /\ k = m
    BY <1>2, <1>6, <2>1, OneName
  <2>3. Like(Append(above, n), place) /\ Append(above, n) \in Seq(Name)
    BY <1>2, <1>3, <2>1, <2>2, LikeGoesOn
  <2> QED
    BY <1>2, <1>3, <1>4, <2>3, AllowedInPlace
<1> QED
  BY <1>5, <1>6 DEF RefusesOtherNames

-----------------------------------------------------------------------------

\* The steps of WorkspaceReader, and those of a search of a scope (at "visit" both are).
ReaderSteps == {"view", "session", "root", "stat", "open", "bytes", "list", "return"}
ScopeSteps == {"snapshot", "may", "scan", "flush", "filter"}

KindInv ==
  /\ call.kind \in Kind \cup {"scope_search", None}
  /\ call.step \in ReaderSteps => call.kind \in Kind
  /\ call.step # "idle" /\ call.kind \in Kind => call.workspace \in Workspace
  /\ call.step \in ScopeSteps => call.kind = "scope_search"
  /\ call.kind = "scope_search" => call.workspace = None /\ call.path = <<>>
  /\ call.workspace = "derived" => call.bound # None
  /\ call.path \in Seq(Name \cup {".."})

\* A call decides by one view: of a policy that was in force after the call began.  What a derived
\* workspace answers is answered under the policy that it was bound with.
ViewInv ==
  /\ policy \in Policies
  /\ call.step \in {"view", "snapshot"} => call.view = NoPolicy
  /\ IsFiniteSet(DOMAIN call.view) /\ DOMAIN call.view \subseteq Scope
  /\ call.step \notin {"idle", "view", "snapshot"} /\ call.workspace # "static" =>
       \E p \in during.policies : call.view = Beneath(Loaded(p), <<>>)
  /\ call.step = "answered" /\ call.workspace = "derived" => policy = call.bound.generation

\* Each directory on the way lies where the names before it say, however these are spelled.
Way(home, at, below) ==
  /\ at \in Seq(Directory) /\ below \in Seq(Name) /\ Len(at) = Len(below) + 1
  /\ \A i \in 1..Len(at) :
       Len(home[at[i]]) = i - 1 /\ \A j \in 1..(i - 1) : SameName(below[j], home[at[i]][j])

WayInv(home) ==
  /\ call.step \in {"view", "session", "root"} => call.below = <<>>
  /\ call.step \in {"stat", "open", "bytes"} => Way(home, call.at, call.below)
  /\ call.step \in {"stat", "open"} => call.pending \in Seq(Name \cup {".."})
  /\ call.step = "open" => call.pending # <<>> /\ Head(call.pending) \in Name
  /\ call.step = "bytes" => call.parts \in Seq(Name)
  /\ call.step = "list" => /\ call.held \in Directory
                           /\ call.parts \in Seq(Name)
                           /\ Like(call.parts, home[call.held])

\* What is still to be visited: a name in a directory, or the rest of the way to a pocket, that leads
\* to what the parts say; a search of a scope asked for it before.
Leads(home, directory, parts, way) ==
  \E above \in Seq(Name) : parts = above \o way /\ Like(above, home[directory])

ToVisit(home, kind, view) ==
  {frame \in [kind : {"dir", "file"}, directory : Directory, name : Name, parts : Seq(Name)] :
     /\ Leads(home, frame.directory, frame.parts, <<frame.name>>)
     /\ kind = "scope_search" => Allows(view, "scope_search", frame.parts)}
  \cup
  {frame \in [kind : {"pocket"}, directory : Directory, name : Seq(Name), parts : Seq(Name)] :
     frame.name # <<>> /\ Leads(home, frame.directory, frame.parts, frame.name)}

TodoInv(home) ==
  /\ call.step \in {"view", "snapshot"} => call.todo = <<>>
  /\ call.todo \in Seq(ToVisit(home, call.kind, call.view))

\* What is taken is allowed wherever it lay.
Take == [path : Seq(Name), object : Directory \cup File, places : SUBSET Seq(Name)]

AllowedTake(kind, view) == {g \in Take : \A place \in g.places : Allows(view, OperationOf(kind), place)}

GotInv ==
  /\ call.step \in {"view", "snapshot"} => call.got = {} /\ call.batch = <<>>
  /\ call.got \subseteq AllowedTake(call.kind, call.view)
  /\ call.batch \in Seq(AllowedTake(call.kind, call.view))

AllowedInv(home) ==
  NamesInv(home) /\ KindInv /\ ViewInv /\ WayInv(home) /\ TodoInv(home) /\ GotInv

LEMMA LikeElementwise ==
  ASSUME NEW p \in Seq(Name), NEW q \in Seq(Name)
  PROVE  Like(p, q) <=> Len(p) = Len(q) /\ \A i \in 1..Len(p) : SameName(p[i], q[i])
<1>1. CASE ~CaseBlind
  BY <1>1, SeqEqual DEF Like, SameName
<1>2. CASE CaseBlind
  <2>1. /\ Folded(p) \in Seq(Name) /\ Len(Folded(p)) = Len(p) /\ \A i \in 1..Len(p) : Folded(p)[i] = Fold[p[i]]
        /\ Folded(q) \in Seq(Name) /\ Len(Folded(q)) = Len(q) /\ \A i \in 1..Len(q) : Folded(q)[i] = Fold[q[i]]
    BY FoldedPath
  <2>2. ASSUME Len(p) = Len(q), \A i \in 1..Len(p) : Fold[p[i]] = Fold[q[i]] PROVE Folded(p) = Folded(q)
    <3>1. \A i \in 1..Len(Folded(p)) : Folded(p)[i] = Folded(q)[i]
      BY <2>1, <2>2
    <3> QED
      BY <2>1, <2>2, <3>1, SeqEqual
  <2> QED
    BY <1>2, <2>1, <2>2 DEF Like, SameName
<1> QED
  BY <1>1, <1>2

LEMMA FrontOf ==
  ASSUME NEW S, NEW s \in Seq(S), s # <<>>
  PROVE  Front(s) \in Seq(S) /\ Len(Front(s)) = Len(s) - 1 /\ \A i \in 1..Len(Front(s)) : Front(s)[i] = s[i]
<1>1. Len(s) \in Nat /\ Len(s) # 0 /\ \A i \in 1..Len(s) : s[i] \in S
  OBVIOUS
<1> DEFINE n == Len(s) - 1
           front == SubSeq(s, 1, n)
<1>2. n \in Nat
  BY <1>1
<1>3. \A i \in 1..n : s[i] \in S
  BY <1>1
<1> HIDE DEF n
<1>4. /\ front \in Seq(S)
      /\ Len(front) = IF 1 <= n THEN n - 1 + 1 ELSE 0
      /\ \A i \in 1..(n - 1 + 1) : front[i] = s[1 + i - 1]
  BY <1>2, <1>3, SubSeqProperties
<1> HIDE DEF front
<1>5. Len(front) = n /\ \A i \in 1..n : front[i] = s[i]
  BY <1>2, <1>4
<1>6. Front(s) = front
  BY DEF Front, front, n
<1> QED
  BY <1>4, <1>5, <1>6 DEF n

LEMMA WayArrives ==
  ASSUME NEW home, Settled(home), NEW at, NEW below, Way(home, at, below)
  PROVE  Last(at) \in Directory /\ Like(below, home[Last(at)])
<1>1. Len(at) \in 1..Len(at) /\ Len(below) \in Nat /\ at[Len(at)] \in Directory
  BY DEF Way
<1>2. home[Last(at)] \in Seq(Name)
  BY <1>1 DEF Settled, Last
<1>3. Len(home[Last(at)]) = Len(below) /\ \A j \in 1..Len(below) : SameName(below[j], home[Last(at)][j])
  BY <1>1 DEF Way, Last
<1> QED
  BY <1>1, <1>2, <1>3, LikeElementwise DEF Way, Last

LEMMA WayGoesOn ==
  ASSUME NEW home, Settled(home), NEW at, NEW below, Way(home, at, below),
         NEW n \in Name, NEW d \in Directory, Like(Append(below, n), home[d])
  PROVE  Way(home, Append(at, d), Append(below, n))
<1> DEFINE way == Append(at, d)
           path == Append(below, n)
<1>1. /\ way \in Seq(Directory) /\ Len(way) = Len(at) + 1 /\ Len(at) \in Nat
      /\ way[Len(at) + 1] = d /\ \A i \in 1..Len(at) : way[i] = at[i]
  BY DEF Way
<1>2. /\ path \in Seq(Name) /\ Len(path) = Len(below) + 1 /\ Len(below) \in Nat
      /\ \A j \in 1..Len(below) : path[j] = below[j]
  BY DEF Way
<1>3. home[d] \in Seq(Name)
  BY DEF Settled
<1>4. Len(home[d]) = Len(path) /\ \A j \in 1..Len(path) : SameName(path[j], home[d][j])
  BY <1>2, <1>3, LikeElementwise
<1> HIDE DEF way, path
<1>5. ASSUME NEW i \in 1..Len(way)
      PROVE  Len(home[way[i]]) = i - 1 /\ \A j \in 1..(i - 1) : SameName(path[j], home[way[i]][j])
  <2>1. CASE i = Len(at) + 1
    BY <1>1, <1>2, <1>4, <2>1 DEF Way
  <2>2. CASE i \in 1..Len(at)
    <3>1. way[i] = at[i] /\ \A j \in 1..(i - 1) : path[j] = below[j]
      BY <1>1, <1>2, <2>2 DEF Way
    <3> QED
      BY <2>2, <3>1 DEF Way
  <2> QED
    BY <1>1, <2>1, <2>2
<1>6. Way(home, way, path)
  BY <1>1, <1>2, <1>5 DEF Way
<1> QED
  BY <1>6 DEF way, path

LEMMA WayBack ==
  ASSUME NEW home, NEW at, NEW below, Way(home, at, below), below # <<>>
  PROVE  Way(home, Front(at), Front(below))
<1> DEFINE way == Front(at)
           path == Front(below)
<1>1. Len(below) \in Nat /\ Len(below) # 0 /\ Len(at) = Len(below) + 1
  BY DEF Way
<1>2. way \in Seq(Directory) /\ Len(way) = Len(at) - 1 /\ \A i \in 1..Len(way) : way[i] = at[i]
  BY <1>1, FrontOf, EmptySeq DEF Way
<1>3. path \in Seq(Name) /\ Len(path) = Len(below) - 1 /\ \A i \in 1..Len(path) : path[i] = below[i]
  BY <1>1, FrontOf DEF Way
<1> HIDE DEF way, path
<1>4. ASSUME NEW i \in 1..Len(way)
      PROVE  Len(home[way[i]]) = i - 1 /\ \A j \in 1..(i - 1) : SameName(path[j], home[way[i]][j])
  <2>1. i \in 1..Len(at) /\ way[i] = at[i] /\ \A j \in 1..(i - 1) : path[j] = below[j]
    BY <1>1, <1>2, <1>3
  <2> QED
    BY <2>1 DEF Way
<1>5. Way(home, way, path)
  BY <1>1, <1>2, <1>3, <1>4 DEF Way
<1> QED
  BY <1>5 DEF way, path

LEMMA WayStarts ==
  ASSUME NEW home, NEW d \in Directory, home[d] = <<>>
  PROVE  Way(home, <<d>>, <<>>)
BY DEF Way

LEMMA WayRestarts ==
  ASSUME NEW home, Settled(home), NEW at, NEW below, Way(home, at, below)
  PROVE  Way(home, <<at[1]>>, <<>>)
<1>1. at[1] \in Directory /\ Len(home[at[1]]) = 0
  BY DEF Way
<1>2. home[at[1]] = <<>>
  BY <1>1, EmptySeq DEF Settled
<1> QED
  BY <1>1, <1>2, WayStarts

-----------------------------------------------------------------------------

LEMMA LeadsThere ==
  ASSUME NEW home, NEW d \in Directory, NEW parts \in Seq(Name), Like(parts, home[d]), NEW n \in Name
  PROVE  Append(parts, n) \in Seq(Name) /\ Leads(home, d, Append(parts, n), <<n>>)
<1>1. Append(parts, n) = parts \o <<n>>
  OBVIOUS
<1> QED
  BY <1>1 DEF Leads

LEMMA LedByOneName ==
  ASSUME NEW home, NEW d \in Directory, NEW n \in Name, NEW parts, Leads(home, d, parts, <<n>>)
  PROVE  \E above \in Seq(Name) : parts = Append(above, n) /\ Like(above, home[d])
<1>1. PICK above \in Seq(Name) : parts = above \o <<n>> /\ Like(above, home[d])
  BY DEF Leads
<1>2. parts = Append(above, n)
  BY <1>1
<1> QED
  BY <1>1, <1>2

LEMMA LedInPlace ==
  ASSUME NEW home, Settled(home), NamesInv(home), NEW d \in Directory, NEW n \in Name,
         At(d, n) \in Directory, NEW parts, Leads(home, d, parts, <<n>>)
  PROVE  Like(parts, home[At(d, n)])
<1>1. PICK above \in Seq(Name) : parts = Append(above, n) /\ Like(above, home[d])
  BY LedByOneName
<1> QED
  BY <1>1, OpenedInPlace

\* What is listed leads to where it says.
LEMMA FramesLead ==
  ASSUME NEW home, NEW kind \in {"dir", "file"}, NEW d \in Directory, NEW parts \in Seq(Name),
         Like(parts, home[d]), NEW some \in SUBSET Name, NEW view, NEW walk, walk # "scope_search"
  PROVE  Frames(kind, d, parts, some) \in Seq(ToVisit(home, walk, view))
<1> DEFINE order == SetToSeq(some)
<1>1. order \in Seq(some)
  BY InSomeOrder, FS_Subset, TreeAssumption
<1> HIDE DEF order
<1>2. ASSUME NEW i \in DOMAIN order
      PROVE  Frame(kind, d, order[i], Append(parts, order[i])) \in ToVisit(home, walk, view)
  <2>1. order[i] \in Name
    BY <1>1, <1>2
  <2>2. Append(parts, order[i]) \in Seq(Name) /\ Leads(home, d, Append(parts, order[i]), <<order[i]>>)
    BY <2>1, LeadsThere
  <2> QED
    BY <2>1, <2>2 DEF Frame, ToVisit
<1>3. Frames(kind, d, parts, some)
        = [i \in 1..Len(order) |-> Frame(kind, d, order[i], Append(parts, order[i]))]
  BY <1>1 DEF Frames, order
<1>4. DOMAIN order = 1..Len(order) /\ Len(order) \in Nat
  BY <1>1
<1> QED
  BY <1>2, <1>3, <1>4

LEMMA VisitsLead ==
  ASSUME NEW home, NEW d \in Directory, NEW parts \in Seq(Name), Like(parts, home[d])
  PROVE  Visits(d, parts) \in Seq(ToVisit(home, "scope_search", call.view))
<1> DEFINE some == Considered(d, parts)
           order == SetToSeq(some)
           KindOf(n) == IF names[d][n] \in File THEN "file" ELSE "dir"
<1>1. some \subseteq Name /\ \A n \in some : Allows(call.view, "scope_search", Append(parts, n))
  BY DEF Considered, Entries
<1>2. order \in Seq(some)
  BY <1>1, InSomeOrder, FS_Subset, TreeAssumption
<1>3. Visits(d, parts)
        = [i \in 1..Len(order) |-> Frame(KindOf(order[i]), d, order[i], Append(parts, order[i]))]
  BY <1>2 DEF Visits
<1>4. DOMAIN order = 1..Len(order) /\ Len(order) \in Nat
  BY <1>2
<1>5. \A n : KindOf(n) \in {"dir", "file"}
  OBVIOUS
<1> HIDE DEF order, some, KindOf
<1>6. ASSUME NEW i \in DOMAIN order
      PROVE  Frame(KindOf(order[i]), d, order[i], Append(parts, order[i]))
               \in ToVisit(home, "scope_search", call.view)
  <2>1. order[i] \in Name /\ Allows(call.view, "scope_search", Append(parts, order[i]))
    BY <1>1, <1>2, <1>6
  <2>2. Append(parts, order[i]) \in Seq(Name) /\ Leads(home, d, Append(parts, order[i]), <<order[i]>>)
    BY <2>1, LeadsThere
  <2>3. KindOf(order[i]) \in {"dir", "file"}
    BY <1>5
  <2> QED
    BY <2>1, <2>2, <2>3 DEF Frame, ToVisit
<1> QED
  BY <1>3, <1>4, <1>6

LEMMA FinitelyManyRoots ==
  ASSUME NEW some, IsFiniteSet(some) PROVE IsFiniteSet({ScopeRoot[s] : s \in some})
<1> DEFINE roots == {ScopeRoot[s] : s \in some}
<1>1. PICK n \in Nat : ExistsBijection(1..n, some)
  BY FS_NatBijection
<1>2. PICK f \in [1..n -> some] : \A s \in some : \E i \in 1..n : f[i] = s
  BY <1>1 DEF ExistsBijection, Bijection, Surjection
<1> DEFINE g == [i \in 1..n |-> ScopeRoot[f[i]]]
<1>3. g \in [1..n -> roots] /\ \A r \in roots : \E i \in 1..n : g[i] = r
  BY <1>2
<1>4. ExistsSurjection(1..n, roots)
  BY <1>3 DEF ExistsSurjection, Surjection
<1> QED
  BY <1>4, FS_NatSurjection

\* The way to a pocket is that of its scope.
LEMMA PocketsLead ==
  ASSUME NEW home, NEW d \in Directory, home[d] = <<>>, NEW P, call.view = Beneath(P, <<>>),
         IsFiniteSet(DOMAIN call.view), DOMAIN call.view \subseteq Scope
  PROVE  PocketVisits(d) \in Seq(ToVisit(home, "scope_search", call.view))
<1> DEFINE some == Pockets(call.view, "scope_search")
           order == SetToSeq(some)
           inner == {t \in DOMAIN call.view : /\ Allows(call.view, "scope_search", ScopeRoot[t])
                                              /\ ~Allows(call.view, "scope_search", Front(ScopeRoot[t]))}
<1>1. IsFiniteSet(some)
  <2>1. IsFiniteSet(inner)
    BY FS_Subset
  <2>2. IsFiniteSet({ScopeRoot[s] : s \in inner})
    BY <2>1, FinitelyManyRoots
  <2> QED
    BY <2>2 DEF Pockets
<1>2. ASSUME NEW root \in some PROVE root \in Seq(Name) /\ root # <<>>
  <2>1. PICK s \in DOMAIN call.view : root = ScopeRoot[s]
    BY DEF Pockets
  <2>2. s \in NestedScopes(P, <<>>)
    BY <2>1 DEF Beneath
  <2>3. Len(ScopeRoot[s]) > 0 /\ ScopeRoot[s] \in Seq(Name)
    BY <2>2, ScopeRootAssumption DEF NestedScopes
  <2> QED
    BY <2>1, <2>3
<1>3. order \in Seq(some)
  BY <1>1, InSomeOrder
<1>4. PocketVisits(d) = [i \in 1..Len(order) |-> Frame("pocket", d, order[i], order[i])]
  BY <1>3 DEF PocketVisits
<1>5. DOMAIN order = 1..Len(order) /\ Len(order) \in Nat
  BY <1>3
<1> HIDE DEF order, some
<1>6. ASSUME NEW i \in DOMAIN order
      PROVE  Frame("pocket", d, order[i], order[i]) \in ToVisit(home, "scope_search", call.view)
  <2>1. order[i] \in Seq(Name) /\ order[i] # <<>>
    BY <1>2, <1>3, <1>6
  <2>2. order[i] = <<>> \o order[i] /\ <<>> \in Seq(Name)
    BY <2>1, ConcatEmptySeq, EmptySeq
  <2>3. Like(<<>>, home[d])
    BY DEF Like
  <2>4. Leads(home, d, order[i], order[i])
    BY <2>2, <2>3 DEF Leads
  <2> QED
    BY <2>1, <2>4 DEF Frame, ToVisit
<1> QED
  BY <1>4, <1>5, <1>6

\* One name farther on the way to a pocket.
LEMMA PocketGoesOn ==
  ASSUME NEW home, Settled(home), NamesInv(home), NEW d \in Directory, NEW way \in Seq(Name), way # <<>>,
         NEW parts \in Seq(Name), Leads(home, d, parts, way), At(d, Head(way)) \in Directory
  PROVE  /\ Leads(home, At(d, Head(way)), parts, Tail(way))
         /\ Len(way) = 1 => Like(parts, home[At(d, Head(way))])
<1>1. PICK above \in Seq(Name) : parts = above \o way /\ Like(above, home[d])
  BY DEF Leads
<1>2. /\ Head(way) \in Name /\ Tail(way) \in Seq(Name) /\ Len(Tail(way)) = Len(way) - 1
      /\ Append(above, Head(way)) \in Seq(Name)
  BY HeadTailProperties
<1>3. Like(Append(above, Head(way)), home[At(d, Head(way))])
  BY <1>1, <1>2, OpenedInPlace
<1>4. way = <<Head(way)>> \o Tail(way)
  <2>1. Len(way) \in Nat \ {0} /\ Tail(way) \in Seq(Name) /\ <<Head(way)>> \in Seq(Name)
    BY <1>2, EmptySeq
  <2> DEFINE other == <<Head(way)>> \o Tail(way)
  <2>2. other \in Seq(Name) /\ Len(other) = 1 + Len(Tail(way))
        /\ \A i \in 1..(1 + Len(Tail(way))) : other[i] = IF i <= 1 THEN <<Head(way)>>[i] ELSE Tail(way)[i - 1]
    BY <2>1, ConcatProperties
  <2>3. \A i \in 1..Len(Tail(way)) : Tail(way)[i] = way[i + 1]
    BY HeadTailProperties
  <2>4. Head(way) = way[1] /\ <<Head(way)>>[1] = Head(way)
    OBVIOUS
  <2> HIDE DEF other
  <2>5. Len(other) = Len(way) /\ \A i \in 1..Len(way) : way[i] = other[i]
    <3>1. Len(other) = Len(way)
      BY <1>2, <2>1, <2>2
    <3>2. ASSUME NEW i \in 1..Len(way), i # 1 PROVE way[i] = other[i]
      <4>1. i - 1 \in 1..Len(Tail(way)) /\ i \in 1..(1 + Len(Tail(way))) /\ ~(i <= 1)
        BY <1>2, <2>1, <3>2
      <4>2. Tail(way)[i - 1] = way[(i - 1) + 1]
        BY <2>3, <4>1
      <4>3. other[i] = Tail(way)[i - 1]
        BY <2>2, <4>1
      <4> QED
        BY <2>1, <4>1, <4>2, <4>3
    <3>3. way[1] = other[1]
      BY <1>2, <2>1, <2>2, <2>4
    <3> QED
      BY <3>1, <3>2, <3>3
  <2> QED
    BY <2>2, <2>5, SeqEqual DEF other
<1>5. parts = Append(above, Head(way)) \o Tail(way)
  <2>1. above \o (<<Head(way)>> \o Tail(way)) = (above \o <<Head(way)>>) \o Tail(way)
    <3>1. <<Head(way)>> \in Seq(Name)
      BY <1>2
    <3> QED
      BY <1>2, <3>1, ConcatAssociative
  <2>2. above \o <<Head(way)>> = Append(above, Head(way))
    BY <1>2
  <2> QED
    BY <1>1, <1>4, <2>1, <2>2
<1>6. ASSUME Len(way) = 1 PROVE parts = Append(above, Head(way))
  <2>1. Tail(way) = <<>>
    <3>1. Tail(way) \in Seq(Name) /\ Len(Tail(way)) = 0
      BY <1>2, <1>6
    <3> QED
      BY <3>1, EmptySeq
  <2>2. Append(above, Head(way)) \o <<>> = Append(above, Head(way))
    BY <1>2
  <2> QED
    BY <1>5, <2>1, <2>2
<1> QED
  BY <1>2, <1>3, <1>5, <1>6 DEF Leads

-----------------------------------------------------------------------------

LEMMA Values ==
  ASSUME CallInv, NEW fields, Proceeds(fields), DOMAIN fields \subseteq DOMAIN NoCall
  PROVE  \A x \in DOMAIN NoCall : call'[x] = IF x \in DOMAIN fields THEN fields[x] ELSE call[x]
BY DEF CallInv, Proceeds, With

\* No call is under way.
LEMMA IdleAllowed ==
  ASSUME NEW home, AllowedInv(home), UNCHANGED <<names, top, policy>>, call' = NoCall
  PROVE  AllowedInv(home)'
<1>1. NamesInv(home)'
  BY DEF AllowedInv, NamesInv
<1>2. KindInv'
  BY NoneAssumption, EmptySeq DEF NoCall, KindInv, ReaderSteps, ScopeSteps, Workspace
<1>3. ViewInv'
  <2>1. DOMAIN NoPolicy = {} /\ IsFiniteSet({})
    BY FS_EmptySet DEF NoPolicy
  <2> QED
    BY <2>1 DEF NoCall, ViewInv, AllowedInv
<1>4. WayInv(home)' /\ TodoInv(home)' /\ GotInv'
  BY EmptySeq DEF NoCall, WayInv, TodoInv, GotInv
<1> QED
  BY <1>1, <1>2, <1>3, <1>4 DEF AllowedInv

\* The steps that may follow, by whose call it is.
Follows(step) ==
  /\ step \notin {"idle", "view", "snapshot"}
  /\ step \in ReaderSteps => call.kind \in Kind
  /\ step \in ScopeSteps => call.kind = "scope_search"
  /\ step = "answered" /\ call.workspace = "derived" => policy = call.bound.generation

\* The fields that say whose call it is and by what it decides.
Bound == {"kind", "workspace", "path", "bound", "view"}

LEMMA Goes ==
  ASSUME NEW home, AllowedInv(home), CallInv, UNCHANGED <<names, top, policy>>, Observes,
         NEW fields, Proceeds(fields), DOMAIN fields \subseteq DOMAIN NoCall \ Bound,
         call.step \notin {"idle", "view", "snapshot"}, "step" \in DOMAIN fields => Follows(fields.step),
         WayInv(home)', TodoInv(home)', GotInv'
  PROVE  AllowedInv(home)'
<1>1. \A x \in DOMAIN NoCall : call'[x] = IF x \in DOMAIN fields THEN fields[x] ELSE call[x]
  BY Values
<1>2. /\ {"kind", "workspace", "path", "bound", "view", "step"} \subseteq DOMAIN NoCall
      /\ \A x \in Bound : x \notin DOMAIN fields
  BY DEF NoCall, Bound
<1>3. /\ call'.kind = call.kind /\ call'.workspace = call.workspace /\ call'.path = call.path
      /\ call'.bound = call.bound /\ call'.view = call.view
      /\ call'.step = IF "step" \in DOMAIN fields THEN fields.step ELSE call.step
  BY <1>1, <1>2 DEF Bound
<1>4. Follows(call'.step) \/ call'.step = call.step
  BY <1>3
<1>5. call' # NoCall
  BY <1>3, <1>4 DEF Follows, NoCall
<1>6. during.policies \subseteq during'.policies
  BY <1>5 DEF Observes
<1>7. NamesInv(home)'
  BY DEF AllowedInv, NamesInv
<1>8. KindInv'
  BY <1>3, <1>4 DEF AllowedInv, KindInv, Follows
<1>9. ViewInv'
  BY <1>3, <1>4, <1>6 DEF AllowedInv, ViewInv, Follows
<1> QED
  BY <1>7, <1>8, <1>9 DEF AllowedInv

LEMMA WayAside ==
  ASSUME NEW home, WayInv(home), CallInv, NEW fields, Proceeds(fields),
         DOMAIN fields \subseteq DOMAIN NoCall \ {"at", "below", "pending", "held", "parts"},
         "step" \in DOMAIN fields => fields.step \notin {"view", "session", "root", "stat", "open", "bytes", "list"}
  PROVE  WayInv(home)'
<1>1. \A x \in DOMAIN NoCall : call'[x] = IF x \in DOMAIN fields THEN fields[x] ELSE call[x]
  BY Values
<1>2. {"at", "below", "pending", "held", "parts", "step"} \subseteq DOMAIN NoCall
  BY DEF NoCall
<1>3. /\ call'.at = call.at /\ call'.below = call.below /\ call'.pending = call.pending
      /\ call'.held = call.held /\ call'.parts = call.parts
      /\ call'.step = IF "step" \in DOMAIN fields THEN fields.step ELSE call.step
  BY <1>1, <1>2
<1> QED
  BY <1>3 DEF WayInv

LEMMA TodoAside ==
  ASSUME NEW home, TodoInv(home), CallInv, NEW fields, Proceeds(fields),
         DOMAIN fields \subseteq DOMAIN NoCall \ {"kind", "view"},
         "step" \in DOMAIN fields => fields.step \notin {"view", "snapshot"},
         "todo" \in DOMAIN fields => fields.todo \in Seq(ToVisit(home, call.kind, call.view))
                                     /\ call.step \notin {"view", "snapshot"}
  PROVE  TodoInv(home)'
<1>1. \A x \in DOMAIN NoCall : call'[x] = IF x \in DOMAIN fields THEN fields[x] ELSE call[x]
  BY Values
<1>2. {"kind", "view", "todo", "step"} \subseteq DOMAIN NoCall
  BY DEF NoCall
<1>3. /\ call'.kind = call.kind /\ call'.view = call.view
      /\ call'.todo = IF "todo" \in DOMAIN fields THEN fields.todo ELSE call.todo
      /\ call'.step = IF "step" \in DOMAIN fields THEN fields.step ELSE call.step
  BY <1>1, <1>2
<1> QED
  BY <1>3 DEF TodoInv

LEMMA GotAside ==
  ASSUME GotInv, CallInv, NEW fields, Proceeds(fields),
         DOMAIN fields \subseteq DOMAIN NoCall \ {"kind", "view"}, call.step \notin {"view", "snapshot"},
         "step" \in DOMAIN fields => fields.step \notin {"view", "snapshot"},
         "got" \in DOMAIN fields => fields.got \subseteq AllowedTake(call.kind, call.view),
         "batch" \in DOMAIN fields => fields.batch \in Seq(AllowedTake(call.kind, call.view))
  PROVE  GotInv'
<1>1. \A x \in DOMAIN NoCall : call'[x] = IF x \in DOMAIN fields THEN fields[x] ELSE call[x]
  BY Values
<1>2. {"kind", "view", "got", "batch", "step"} \subseteq DOMAIN NoCall
  BY DEF NoCall
<1>3. /\ call'.kind = call.kind /\ call'.view = call.view
      /\ call'.got = IF "got" \in DOMAIN fields THEN fields.got ELSE call.got
      /\ call'.batch = IF "batch" \in DOMAIN fields THEN fields.batch ELSE call.batch
      /\ call'.step = IF "step" \in DOMAIN fields THEN fields.step ELSE call.step
  BY <1>1, <1>2
<1> QED
  BY <1>3 DEF GotInv

\* The steps of a walk: what is left to visit leads where it says, what is taken is allowed.
LEMMA Walks ==
  ASSUME NEW home, AllowedInv(home), CallInv, UNCHANGED <<names, top, policy>>, Observes,
         NEW fields, Proceeds(fields),
         DOMAIN fields \subseteq {"step", "todo", "got", "batch", "cut", "skipped", "withheld"},
         call.step \notin {"idle", "view", "snapshot"},
         "step" \in DOMAIN fields => Follows(fields.step)
              /\ fields.step \notin {"view", "session", "root", "stat", "open", "bytes", "list"},
         "todo" \in DOMAIN fields => fields.todo \in Seq(ToVisit(home, call.kind, call.view)),
         "got" \in DOMAIN fields => fields.got \subseteq AllowedTake(call.kind, call.view),
         "batch" \in DOMAIN fields => fields.batch \in Seq(AllowedTake(call.kind, call.view))
  PROVE  AllowedInv(home)'
<1>1. /\ DOMAIN fields \subseteq DOMAIN NoCall
      /\ DOMAIN fields \subseteq DOMAIN NoCall \ Bound
      /\ DOMAIN fields \subseteq DOMAIN NoCall \ {"at", "below", "pending", "held", "parts"}
      /\ DOMAIN fields \subseteq DOMAIN NoCall \ {"kind", "view"}
  BY DEF NoCall, Bound
<1>2. "step" \in DOMAIN fields => fields.step \notin {"view", "snapshot"}
  BY DEF Follows
<1>3. WayInv(home)'
  BY <1>1, WayAside DEF AllowedInv
<1>4. TodoInv(home)'
  BY <1>1, <1>2, TodoAside DEF AllowedInv
<1>5. GotInv'
  BY <1>1, <1>2, GotAside DEF AllowedInv
<1> QED
  BY <1>1, <1>3, <1>4, <1>5, Goes

\* Any other step of a call that has its view.
LEMMA Moves ==
  ASSUME NEW home, AllowedInv(home), CallInv, UNCHANGED <<names, top, policy>>, Observes,
         NEW fields, Proceeds(fields), DOMAIN fields \subseteq DOMAIN NoCall \ (Bound \cup {"todo", "batch"}),
         call.step \notin {"idle", "view", "snapshot"}, "step" \in DOMAIN fields => Follows(fields.step),
         "got" \in DOMAIN fields => fields.got \subseteq AllowedTake(call.kind, call.view),
         WayInv(home)'
  PROVE  AllowedInv(home)'
<1>1. /\ DOMAIN fields \subseteq DOMAIN NoCall \ Bound
      /\ DOMAIN fields \subseteq DOMAIN NoCall \ {"kind", "view"}
      /\ "todo" \notin DOMAIN fields /\ "batch" \notin DOMAIN fields
  BY DEF Bound
<1>2. "step" \in DOMAIN fields => fields.step \notin {"view", "snapshot"}
  BY DEF Follows
<1>3. TodoInv(home)'
  BY <1>1, <1>2, TodoAside DEF AllowedInv
<1>4. GotInv'
  BY <1>1, <1>2, GotAside DEF AllowedInv
<1> QED
  BY <1>1, <1>3, <1>4, Goes

LEMMA TakenIsAllowed ==
  ASSUME NEW home, Settled(home), SpelledAlike(home), NamesInv(home), NEW d \in Directory, NEW n \in Name,
         At(d, n) \in File, NEW parts \in Seq(Name), Leads(home, d, parts, <<n>>),
         NEW view, DOMAIN view \subseteq Scope, NEW kind, Allows(view, OperationOf(kind), parts),
         ~RefusesOtherNames(view, OperationOf(kind), Links(At(d, n)))
  PROVE  Taken(parts, At(d, n)) \in AllowedTake(kind, view)
<1>1. PICK above \in Seq(Name) : parts = Append(above, n) /\ Like(above, home[d])
  BY LedByOneName
<1>2. \A place \in PlacesOf(At(d, n)) : place \in Seq(Name) /\ Allows(view, OperationOf(kind), place)
  BY <1>1, FileAllowed
<1> QED
  BY <1>2 DEF Taken, AllowedTake, Take

LEMMA ListAllowed ==
  ASSUME NEW home, Settled(home), SpelledAlike(home), AllowedInv(home), CallInv,
         UNCHANGED <<names, top, policy>>, Observes,
         NEW d \in Directory, NEW parts \in Seq(Name), Like(parts, home[d]),
         NEW rest \in Seq(ToVisit(home, call.kind, call.view)),
         call.step \in {"list", "visit"}, call.kind \in Kind, List(d, parts, rest)
  PROVE  AllowedInv(home)'
<1>1. call.kind # "scope_search" /\ Follows("visit")
  BY DEF Kind, Follows, ReaderSteps, ScopeSteps
<1>2. CASE call.kind = "tree"
  <2> DEFINE deeper == Len(parts) - Len(call.parts) < TreeDepth
             dirs == IF deeper THEN Entries(d, Directory) ELSE {}
             into == {n \in dirs : Descends(call.view, "enumerate", Append(parts, n))}
             shown == {n \in into \cup Entries(d, File) : Allows(call.view, "enumerate", Append(parts, n))}
             hidden == (dirs \cup Entries(d, File)) \ shown
             todo == Frames("dir", d, parts, into) \o rest
             new == {[path |-> Append(parts, n), object |-> names[d][n],
                      places |-> {Append(p, n) : p \in PlacesOf(d)}] : n \in shown}
             fields == [step |-> "visit", todo |-> todo, withheld |-> call.withheld \/ hidden # {},
                        got |-> call.got \cup new]
  <2>1. Proceeds(fields)
    BY <1>2 DEF List, ListTree
  <2>2. into \subseteq Name /\ shown \subseteq Entries(d, Directory) \cup Entries(d, File)
        /\ \A n \in shown : Allows(call.view, "enumerate", Append(parts, n))
    BY DEF Entries
  <2> HIDE DEF into, shown, hidden
  <2>3. todo \in Seq(ToVisit(home, call.kind, call.view))
    <3>1. Frames("dir", d, parts, into) \in Seq(ToVisit(home, call.kind, call.view))
      BY <1>1, <2>2, FramesLead
    <3> QED
      BY <3>1
  <2>4. ASSUME NEW n \in shown
        PROVE  [path |-> Append(parts, n), object |-> names[d][n],
                places |-> {Append(p, n) : p \in PlacesOf(d)}] \in AllowedTake(call.kind, call.view)
    <3>1. n \in Name /\ names[d][n] \in Directory \cup File /\ names[d][n] # None
      BY <2>2, TreeAssumption DEF Entries
    <3>2. home[d] \in Seq(Name) /\ MayName(d, n) /\ PlacesOf(d) \subseteq {home[d]}
      BY <3>1, DirectoryPlaces DEF Settled, NamesInv, AllowedInv
    <3>3. Append(parts, n) \in Seq(Name) /\ Append(home[d], n) \in Seq(Name)
          /\ Like(Append(parts, n), Append(home[d], n))
      BY <3>1, <3>2, LikeGoesOn DEF SameName
    <3>4. Allows(call.view, "enumerate", Append(home[d], n))
      BY <2>2, <3>1, <3>2, <3>3, AllowedInPlace DEF AllowedInv, ViewInv
    <3>5. OperationOf(call.kind) = "enumerate"
      BY <1>2 DEF OperationOf, OpensFile
    <3> QED
      BY <3>1, <3>2, <3>3, <3>4, <3>5 DEF AllowedTake, Take
  <2>5. fields.got \subseteq AllowedTake(call.kind, call.view)
    BY <2>4 DEF AllowedInv, GotInv
  <2>6. fields.todo = todo /\ fields.step = "visit"
        /\ DOMAIN fields = {"step", "todo", "withheld", "got"}
    OBVIOUS
  <2> HIDE DEF fields, todo
  <2> QED
    BY <1>1, <2>1, <2>3, <2>5, <2>6, Walks
<1>3. CASE call.kind # "tree"
  <2> DEFINE dirs == Entries(d, Directory)
             into == {n \in dirs : Descends(call.view, "search", Append(parts, n))}
             todo == Frames("file", d, parts, Entries(d, File)) \o Frames("dir", d, parts, into) \o rest
             fields == [step |-> "visit", withheld |-> call.withheld \/ into # dirs, todo |-> todo]
  <2>1. Proceeds(fields)
    BY <1>3 DEF List, ListSearch
  <2>2. into \subseteq Name /\ Entries(d, File) \subseteq Name
    BY DEF Entries
  <2> HIDE DEF into
  <2>3. todo \in Seq(ToVisit(home, call.kind, call.view))
    <3>1. /\ Frames("file", d, parts, Entries(d, File)) \in Seq(ToVisit(home, call.kind, call.view))
          /\ Frames("dir", d, parts, into) \in Seq(ToVisit(home, call.kind, call.view))
      BY <1>1, <2>2, FramesLead
    <3> QED
      BY <3>1
  <2>4. fields.todo = todo /\ fields.step = "visit" /\ DOMAIN fields = {"step", "todo", "withheld"}
    OBVIOUS
  <2> HIDE DEF fields, todo
  <2> QED
    BY <1>1, <2>1, <2>3, <2>4, Walks
<1> QED
  BY <1>2, <1>3

LEMMA AstrayAllowed ==
  ASSUME NEW home, AllowedInv(home), CallInv, UNCHANGED <<names, top, policy>>, Observes,
         call.step \in {"stat", "open"}, Astray
  PROVE  AllowedInv(home)'
<1>1. CASE Refused
  BY <1>1, IdleAllowed DEF Refused
<1>2. CASE Proceeds([step |-> "return"])
  <2>1. Follows("return")
    BY DEF Follows, AllowedInv, KindInv, ReaderSteps, ScopeSteps
  <2> QED
    BY <1>2, <2>1, Walks
<1> QED
  BY <1>1, <1>2 DEF Astray

LEMMA ArrivesAllowed ==
  ASSUME NEW home, Settled(home), SpelledAlike(home), AllowedInv(home), CallInv,
         UNCHANGED <<names, top, policy>>, Observes,
         call.step \in {"stat", "open"}, NEW object, NEW parts \in Seq(Name), Arrives(object, parts),
         IF OpensFile(call.kind)
         THEN \E d \in Directory, n \in Name :
                object = At(d, n) /\ object \in File /\ Leads(home, d, parts, <<n>>)
         ELSE object \in Directory /\ Like(parts, home[object])
  PROVE  AllowedInv(home)'
<1> DEFINE read == OpensFile(call.kind)
           fields == [step |-> IF read THEN "bytes" ELSE "list", held |-> object, parts |-> parts,
                      version |-> IF read THEN text[object] ELSE 0,
                      got |-> IF read THEN {Taken(parts, object)} ELSE {}]
<1>1. CASE Refused
  BY <1>1, IdleAllowed DEF Refused
<1>2. CASE Proceeds(fields) /\ Allows(call.view, OperationOf(call.kind), parts)
           /\ ~(read /\ RefusesOtherNames(call.view, "read", Links(object)))
  <2>1. fields.step \in {"bytes", "list"} /\ (fields.step = "bytes" <=> read)
        /\ DOMAIN fields = {"step", "held", "parts", "version", "got"}
        /\ fields.held = object /\ fields.parts = parts
        /\ fields.got = IF read THEN {Taken(parts, object)} ELSE {}
    OBVIOUS
  <2>2. fields.got \subseteq AllowedTake(call.kind, call.view)
    <3>1. CASE read
      <4>1. OperationOf(call.kind) = "read"
        BY <3>1 DEF OperationOf
      <4>2. Taken(parts, object) \in AllowedTake(call.kind, call.view)
        BY <1>2, <3>1, <4>1, TakenIsAllowed DEF AllowedInv, ViewInv
      <4> QED
        BY <2>1, <3>1, <4>2
    <3> QED
      BY <2>1, <3>1
  <2>3. Follows(fields.step)
    BY <2>1 DEF Follows, AllowedInv, KindInv, ReaderSteps, ScopeSteps
  <2> HIDE DEF fields
  <2>4. DOMAIN fields \subseteq DOMAIN NoCall \ (Bound \cup {"todo", "batch"})
    BY <2>1 DEF NoCall, Bound
  <2>5. WayInv(home)'
    <3>1. \A x \in DOMAIN NoCall : call'[x] = IF x \in DOMAIN fields THEN fields[x] ELSE call[x]
      BY <1>2, <2>4, Values
    <3>2. call'.step = fields.step /\ call'.held = object /\ call'.parts = parts
          /\ call'.at = call.at /\ call'.below = call.below
      BY <2>1, <3>1 DEF NoCall
    <3> HIDE DEF read
    <3> QED
      BY <2>1, <3>2 DEF read, AllowedInv, WayInv
  <2> QED
    BY <1>2, <2>1, <2>2, <2>3, <2>4, <2>5, Moves
<1> QED
  BY <1>1, <1>2 DEF Arrives

-----------------------------------------------------------------------------
(* One lemma for each operation of WorkspaceReader.                        *)

LEMMA ViewOfPolicy ==
  ASSUME NEW p \in Policies, NEW root
  PROVE  /\ IsFiniteSet(DOMAIN Beneath(Loaded(p), root))
         /\ DOMAIN Beneath(Loaded(p), root) \subseteq Scope
<1>1. IsFiniteSet(DOMAIN Loaded(p)) /\ DOMAIN Loaded(p) \subseteq Scope
  BY WorkspacesAssumption, FS_EmptySet DEF Loaded, NoPolicy, IsPolicy
<1>2. DOMAIN Beneath(Loaded(p), root) \subseteq DOMAIN Loaded(p)
  BY DEF Beneath, NestedScopes
<1> QED
  BY <1>1, <1>2, FS_Subset

\* The call has its kind, its workspace and its path.
LEMMA BeginAllowed ==
  ASSUME NEW home, AllowedInv(home), UNCHANGED <<names, top, policy>>,
         call'.view = NoPolicy, call'.below = <<>>, call'.todo = <<>>, call'.got = {}, call'.batch = <<>>,
         \/ /\ call'.step = "view" /\ call'.kind \in Kind /\ call'.workspace \in Workspace
            /\ call'.path \in Paths /\ call'.bound # None
         \/ /\ call'.step = "snapshot" /\ call'.kind = "scope_search"
            /\ call'.workspace = None /\ call'.path = <<>>
  PROVE  AllowedInv(home)'
<1>1. NamesInv(home)'
  BY DEF AllowedInv, NamesInv
<1>2. KindInv'
  <2>1. call'.path \in Seq(Name \cup {".."})
    BY PathsAssumption, EmptySeq
  <2> QED
    BY <2>1, NoneAssumption DEF KindInv, ReaderSteps, ScopeSteps, Workspace, Kind
<1>3. ViewInv'
  <2>1. DOMAIN NoPolicy = {} /\ IsFiniteSet({})
    BY FS_EmptySet DEF NoPolicy
  <2> QED
    BY <2>1 DEF ViewInv, AllowedInv
<1>4. WayInv(home)' /\ TodoInv(home)' /\ GotInv'
  BY EmptySeq DEF WayInv, TodoInv, GotInv
<1> QED
  BY <1>1, <1>2, <1>3, <1>4 DEF AllowedInv

\* The call has its view.
LEMMA ViewAllowed ==
  ASSUME NEW home, AllowedInv(home), CallInv, UNCHANGED <<names, top, policy>>, Observes,
         NEW step, NEW view, Proceeds([step |-> step, view |-> view]),
         \/ call.step = "view" /\ step = "session" /\ view = PathPolicy(call.workspace)
         \/ call.step = "snapshot" /\ step = "may" /\ view = Beneath(Loaded(policy), call.path)
  PROVE  AllowedInv(home)'
<1> DEFINE fields == [step |-> step, view |-> view]
<1>1. DOMAIN fields \subseteq DOMAIN NoCall
  BY DEF NoCall
<1>2. \A x \in DOMAIN NoCall : call'[x] = IF x \in DOMAIN fields THEN fields[x] ELSE call[x]
  BY <1>1, Values
<1>3. /\ call'.step = step /\ call'.view = view
      /\ call'.kind = call.kind /\ call'.workspace = call.workspace /\ call'.path = call.path
      /\ call'.bound = call.bound /\ call'.below = call.below
      /\ call'.todo = call.todo /\ call'.got = call.got /\ call'.batch = call.batch
  BY <1>2 DEF NoCall
<1>4. call.todo = <<>> /\ call.got = {} /\ call.batch = <<>>
  BY DEF AllowedInv, TodoInv, GotInv
<1>5. NamesInv(home)'
  BY DEF AllowedInv, NamesInv
<1>6. KindInv'
  BY <1>3 DEF AllowedInv, KindInv, ReaderSteps, ScopeSteps
<1>7. ViewInv'
  <2>1. policy \in during'.policies
    <3>1. call' # NoCall
      BY <1>3 DEF NoCall
    <3> QED
      BY <3>1 DEF Observes
  <2>2. call.workspace = "static" \/ view = Beneath(Loaded(policy), <<>>)
    BY DEF PathPolicy, AllowedInv, KindInv, ScopeSteps
  <2>3. IsFiniteSet(DOMAIN view) /\ DOMAIN view \subseteq Scope
    <3>1. CASE view = Unrestricted
      BY <3>1, FS_EmptySet DEF Unrestricted, NoPolicy
    <3>2. CASE \E root : view = Beneath(Loaded(policy), root)
      BY <3>2, ViewOfPolicy DEF AllowedInv, ViewInv
    <3> QED
      BY <3>1, <3>2 DEF PathPolicy
  <2> QED
    BY <1>3, <2>1, <2>2, <2>3 DEF AllowedInv, ViewInv
<1>8. WayInv(home)'
  BY <1>3 DEF AllowedInv, WayInv
<1>9. TodoInv(home)' /\ GotInv'
  BY <1>3, <1>4, EmptySeq DEF TodoInv, GotInv
<1> QED
  BY <1>5, <1>6, <1>7, <1>8, <1>9 DEF AllowedInv

LEMMA SessionAllowed ==
  ASSUME NEW home, AllowedInv(home), CallInv, Observes, Session
  PROVE  AllowedInv(home)'
<1>1. UNCHANGED <<names, top, policy>> /\ call.step = "session"
  BY DEF Session, tree
<1>2. CASE Refused
  BY <1>1, <1>2, IdleAllowed DEF Refused
<1>3. CASE Proceeds([step |-> "root"])
  <2>1. DOMAIN [step |-> "root"] \subseteq DOMAIN NoCall \ (Bound \cup {"todo", "batch"})
    BY DEF NoCall, Bound
  <2>2. \A x \in DOMAIN NoCall : call'[x] = IF x = "step" THEN "root" ELSE call[x]
    BY <1>3, <2>1, Values
  <2>3. call'.step = "root" /\ call'.below = call.below
    BY <2>2 DEF NoCall
  <2>4. WayInv(home)'
    BY <1>1, <2>3 DEF AllowedInv, WayInv
  <2>5. Follows("root")
    BY <1>1 DEF Follows, AllowedInv, KindInv, ReaderSteps, ScopeSteps
  <2> QED
    BY <1>1, <1>3, <2>1, <2>4, <2>5, Moves
<1> QED
  BY <1>2, <1>3 DEF Session

LEMMA OpenRootAllowed ==
  ASSUME NEW home, Settled(home), AllowedInv(home), CallInv, Observes, OpenRoot
  PROVE  AllowedInv(home)'
<1> DEFINE fields == [step |-> "stat", at |-> <<top>>, pending |-> call.path]
<1>1. UNCHANGED <<names, top, policy>> /\ call.step = "root" /\ (Refused \/ Proceeds(fields))
  BY DEF OpenRoot, tree, files
<1>2. CASE Refused
  BY <1>1, <1>2, IdleAllowed DEF Refused
<1>3. CASE Proceeds(fields)
  <2>1. DOMAIN fields \subseteq DOMAIN NoCall \ (Bound \cup {"todo", "batch"})
    BY DEF NoCall, Bound
  <2>2. \A x \in DOMAIN NoCall : call'[x] = IF x \in DOMAIN fields THEN fields[x] ELSE call[x]
    BY <1>3, <2>1, Values
  <2>3. call'.step = "stat" /\ call'.at = <<top>> /\ call'.pending = call.path /\ call'.below = <<>>
    BY <1>1, <2>2 DEF NoCall, AllowedInv, WayInv
  <2>4. Way(home, <<top>>, <<>>)
    BY TreeAssumption, WayStarts DEF Settled, AllowedInv, NamesInv
  <2>5. WayInv(home)'
    BY <2>3, <2>4 DEF AllowedInv, WayInv, KindInv
  <2>6. Follows("stat")
    BY <1>1 DEF Follows, AllowedInv, KindInv, ReaderSteps, ScopeSteps
  <2> QED
    BY <1>1, <1>3, <2>1, <2>5, <2>6, Moves
<1> QED
  BY <1>1, <1>2, <1>3

LEMMA StatAllowed ==
  ASSUME NEW home, Settled(home), SpelledAlike(home), AllowedInv(home), CallInv, Observes, Stat
  PROVE  AllowedInv(home)'
<1> DEFINE here == Last(call.at)
           name == Head(call.pending)
           object == At(here, name)
           last == Len(call.pending) = 1
           wanted == IF last /\ OpensFile(call.kind) THEN File ELSE Directory
           back == [at |-> Front(call.at), below |-> Front(call.below), pending |-> Tail(call.pending)]
           link == [hops |-> call.hops + 1,
                    at |-> IF object \in Absolute THEN <<call.at[1]>> ELSE call.at,
                    below |-> IF object \in Absolute THEN <<>> ELSE call.below,
                    pending |-> Target[object] \o Tail(call.pending)]
<1>1. UNCHANGED <<names, top, policy>> /\ call.step = "stat"
  BY DEF Stat, tree, files
<1>2. /\ Way(home, call.at, call.below) /\ call.pending \in Seq(Name \cup {".."})
      /\ call.below \in Seq(Name)
  BY <1>1 DEF AllowedInv, WayInv, Way
<1>3. here \in Directory /\ Like(call.below, home[here])
  BY <1>2, WayArrives
<1>4. \/ Astray
      \/ ~OpensFile(call.kind) /\ Arrives(here, call.below)
      \/ call.pending # <<>> /\ call.below # <<>> /\ Proceeds(back)
      \/ call.pending # <<>> /\ object \in Link /\ Proceeds(link)
      \/ call.pending # <<>> /\ name # ".." /\ Proceeds([step |-> "open"])
  BY DEF Stat
<1> HIDE DEF here, name, object
<1>5. CASE Astray
  BY <1>1, <1>5, AstrayAllowed
<1>6. CASE ~OpensFile(call.kind) /\ Arrives(here, call.below)
  BY <1>1, <1>2, <1>3, <1>6, ArrivesAllowed
<1>7. CASE call.pending # <<>> /\ call.below # <<>> /\ Proceeds(back)
  <2>1. DOMAIN back \subseteq DOMAIN NoCall \ (Bound \cup {"todo", "batch"})
        /\ "step" \notin DOMAIN back /\ "got" \notin DOMAIN back
    BY DEF NoCall, Bound
  <2>2. \A x \in DOMAIN NoCall : call'[x] = IF x \in DOMAIN back THEN back[x] ELSE call[x]
    BY <1>7, <2>1, Values
  <2>3. /\ call'.step = "stat" /\ call'.at = Front(call.at) /\ call'.below = Front(call.below)
        /\ call'.pending = Tail(call.pending)
    BY <1>1, <2>2 DEF NoCall
  <2>4. Tail(call.pending) \in Seq(Name \cup {".."})
    BY <1>2, <1>7, HeadTailProperties
  <2>5. WayInv(home)'
    BY <1>2, <1>7, <2>3, <2>4, WayBack DEF WayInv
  <2> HIDE DEF back
  <2> QED
    BY <1>1, <1>7, <2>1, <2>5, Moves
<1>8. CASE call.pending # <<>> /\ object \in Link /\ Proceeds(link)
  <2>1. DOMAIN link \subseteq DOMAIN NoCall \ (Bound \cup {"todo", "batch"})
        /\ "step" \notin DOMAIN link /\ "got" \notin DOMAIN link
    BY DEF NoCall, Bound
  <2>2. \A x \in DOMAIN NoCall : call'[x] = IF x \in DOMAIN link THEN link[x] ELSE call[x]
    BY <1>8, <2>1, Values
  <2>3. /\ call'.step = "stat" /\ call'.pending = Target[object] \o Tail(call.pending)
        /\ \/ call'.at = <<call.at[1]>> /\ call'.below = <<>>
           \/ call'.at = call.at /\ call'.below = call.below
    BY <1>1, <2>2 DEF NoCall
  <2>4. Target[object] \o Tail(call.pending) \in Seq(Name \cup {".."})
    <3>1. Tail(call.pending) \in Seq(Name \cup {".."}) /\ Target[object] \in Seq(Name \cup {".."})
      BY <1>2, <1>8, HeadTailProperties, TreeAssumption
    <3> QED
      BY <3>1, ConcatProperties
  <2>5. Way(home, call'.at, call'.below)
    BY <1>2, <2>3, WayRestarts
  <2>6. WayInv(home)'
    BY <2>3, <2>4, <2>5 DEF WayInv
  <2> HIDE DEF link
  <2> QED
    BY <1>1, <1>8, <2>1, <2>6, Moves
<1>9. CASE call.pending # <<>> /\ name # ".." /\ Proceeds([step |-> "open"])
  <2>1. DOMAIN [step |-> "open"] \subseteq DOMAIN NoCall \ (Bound \cup {"todo", "batch"})
    BY DEF NoCall, Bound
  <2>2. \A x \in DOMAIN NoCall : call'[x] = IF x = "step" THEN "open" ELSE call[x]
    BY <1>9, <2>1, Values
  <2>3. call'.step = "open" /\ call'.at = call.at /\ call'.below = call.below /\ call'.pending = call.pending
    BY <2>2 DEF NoCall
  <2>4. name \in Name
    BY <1>2, <1>9, HeadTailProperties DEF name
  <2>5. WayInv(home)'
    BY <1>2, <1>9, <2>3, <2>4 DEF WayInv, name
  <2>6. Follows("open")
    BY <1>1 DEF Follows, AllowedInv, KindInv, ReaderSteps, ScopeSteps
  <2> QED
    BY <1>1, <1>9, <2>1, <2>5, <2>6, Moves
<1> QED
  BY <1>4, <1>5, <1>6, <1>7, <1>8, <1>9

LEMMA OpenAllowed ==
  ASSUME NEW home, Settled(home), SpelledAlike(home), AllowedInv(home), CallInv, Observes, Open
  PROVE  AllowedInv(home)'
<1> DEFINE here == Last(call.at)
           name == Head(call.pending)
           object == Opens(here, name)
           last == Len(call.pending) = 1
           parts == Append(call.below, name)
           onward == [step |-> "stat", at |-> Append(call.at, object), below |-> parts,
                      pending |-> Tail(call.pending)]
<1>1. UNCHANGED <<names, top, policy>> /\ call.step = "open"
  BY DEF Open, tree, files
<1>2. /\ Way(home, call.at, call.below) /\ call.pending \in Seq(Name \cup {".."})
      /\ call.pending # <<>> /\ name \in Name /\ call.below \in Seq(Name)
  BY <1>1 DEF AllowedInv, WayInv, Way
<1>3. here \in Directory /\ Like(call.below, home[here])
  BY <1>2, WayArrives
<1>4. parts \in Seq(Name) /\ object = At(here, name)
  BY <1>2 DEF Opens
<1>5. \/ Astray
      \/ \E complete : Proceeds([step |-> "return", complete |-> complete])
      \/ ~last /\ object \in Directory /\ Proceeds(onward)
      \/ /\ object \in (IF OpensFile(call.kind) THEN File ELSE Directory)
         /\ Arrives(object, parts)
  BY DEF Open
<1> HIDE DEF here, name, object
<1>6. CASE Astray
  BY <1>1, <1>6, AstrayAllowed
<1>7. ASSUME NEW complete, Proceeds([step |-> "return", complete |-> complete]) PROVE AllowedInv(home)'
  <2> DEFINE fields == [step |-> "return", complete |-> complete]
  <2>1. DOMAIN fields \subseteq DOMAIN NoCall \ (Bound \cup {"todo", "batch"}) /\ "got" \notin DOMAIN fields
        /\ DOMAIN fields \subseteq DOMAIN NoCall \ {"at", "below", "pending", "held", "parts"}
    BY DEF NoCall, Bound
  <2>2. Follows("return") /\ fields.step = "return"
    BY <1>1 DEF Follows, AllowedInv, KindInv, ReaderSteps, ScopeSteps
  <2> HIDE DEF fields
  <2>3. Proceeds(fields)
    BY <1>7 DEF fields
  <2>4. WayInv(home)'
    BY <2>1, <2>2, <2>3, WayAside DEF AllowedInv
  <2> QED
    BY <1>1, <2>1, <2>2, <2>3, <2>4, Moves
<1>8. CASE object \in Directory /\ Proceeds(onward)
  <2>1. DOMAIN onward \subseteq DOMAIN NoCall \ (Bound \cup {"todo", "batch"})
        /\ "got" \notin DOMAIN onward /\ onward.step = "stat"
    BY DEF NoCall, Bound
  <2>2. \A x \in DOMAIN NoCall : call'[x] = IF x \in DOMAIN onward THEN onward[x] ELSE call[x]
    BY <1>8, <2>1, Values
  <2>3. /\ call'.step = "stat" /\ call'.at = Append(call.at, object) /\ call'.below = parts
        /\ call'.pending = Tail(call.pending)
    BY <2>2 DEF NoCall
  <2>4. Tail(call.pending) \in Seq(Name \cup {".."})
    BY <1>2, HeadTailProperties
  <2>5. Like(parts, home[object])
    BY <1>2, <1>3, <1>4, <1>8, OpenedInPlace DEF AllowedInv
  <2>6. Way(home, Append(call.at, object), parts)
    BY <1>2, <1>8, <2>5, WayGoesOn
  <2>7. WayInv(home)'
    BY <2>3, <2>4, <2>6 DEF WayInv
  <2>8. Follows("stat")
    BY <1>1 DEF Follows, AllowedInv, KindInv, ReaderSteps, ScopeSteps
  <2> HIDE DEF onward
  <2> QED
    BY <1>1, <1>8, <2>1, <2>7, <2>8, Moves
<1>9. CASE /\ object \in (IF OpensFile(call.kind) THEN File ELSE Directory)
           /\ Arrives(object, parts)
  <2>1. Leads(home, here, parts, <<name>>)
    BY <1>2, <1>3, LeadsThere
  <2>2. object \in Directory => Like(parts, home[object])
    BY <1>2, <1>3, <1>4, OpenedInPlace DEF AllowedInv
  <2>3. IF OpensFile(call.kind)
        THEN \E d \in Directory, n \in Name :
               object = At(d, n) /\ object \in File /\ Leads(home, d, parts, <<n>>)
        ELSE object \in Directory /\ Like(parts, home[object])
    BY <1>2, <1>3, <1>4, <1>9, <2>1, <2>2
  <2> QED
    BY <1>1, <1>4, <1>9, <2>3, ArrivesAllowed
<1> QED
  BY <1>5, <1>6, <1>7, <1>8, <1>9

LEMMA ReadBytesAllowed ==
  ASSUME NEW home, AllowedInv(home), CallInv, Observes, ReadBytes
  PROVE  AllowedInv(home)'
<1> DEFINE fields == [chunks |-> Chunks, step |-> IF Len(Chunks) = 1 THEN "bytes" ELSE "return"]
<1>1. UNCHANGED <<names, top, policy>> /\ call.step = "bytes" /\ (Refused \/ Proceeds(fields))
  BY DEF ReadBytes, tree, files
<1>2. CASE Refused
  BY <1>1, <1>2, IdleAllowed DEF Refused
<1>3. CASE Proceeds(fields)
  <2>1. DOMAIN fields \subseteq DOMAIN NoCall \ (Bound \cup {"todo", "batch"})
        /\ "got" \notin DOMAIN fields /\ fields.step \in {"bytes", "return"}
    BY DEF NoCall, Bound
  <2>2. DOMAIN fields = {"chunks", "step"}
    OBVIOUS
  <2> HIDE DEF fields
  <2>3. \A x \in DOMAIN NoCall : call'[x] = IF x \in DOMAIN fields THEN fields[x] ELSE call[x]
    BY <1>3, <2>1, Values
  <2>4. /\ call'.step \in {"bytes", "return"} /\ call'.at = call.at /\ call'.below = call.below
        /\ call'.parts = call.parts
    BY <2>1, <2>2, <2>3 DEF NoCall
  <2>5. WayInv(home)'
    BY <1>1, <2>4 DEF AllowedInv, WayInv
  <2>6. Follows(fields.step)
    BY <1>1, <2>1 DEF Follows, AllowedInv, KindInv, ReaderSteps, ScopeSteps
  <2> QED
    BY <1>1, <1>3, <2>1, <2>5, <2>6, Moves
<1> QED
  BY <1>1, <1>2, <1>3

LEMMA HashBytesAllowed ==
  ASSUME NEW home, Settled(home), AllowedInv(home), CallInv, Observes, HashBytes
  PROVE  AllowedInv(home)'
<1> DEFINE once == [chunks |-> Chunks]
           twice == [chunks |-> Chunks, step |-> "stat", again |-> TRUE, at |-> <<call.at[1]>>,
                     below |-> <<>>, hops |-> 0, pending |-> call.parts]
<1>1. /\ UNCHANGED <<names, top, policy>> /\ call.step = "bytes"
      /\ Proceeds(once) \/ Proceeds(twice) \/ Proceeds([step |-> "return"])
  BY DEF HashBytes, tree, files
<1>2. Way(home, call.at, call.below) /\ call.parts \in Seq(Name)
  BY <1>1 DEF AllowedInv, WayInv
<1>3. CASE Proceeds(once)
  <2>1. DOMAIN once \subseteq DOMAIN NoCall \ (Bound \cup {"todo", "batch"})
        /\ "got" \notin DOMAIN once /\ "step" \notin DOMAIN once
    BY DEF NoCall, Bound
  <2>2. \A x \in DOMAIN NoCall : x # "chunks" => call'[x] = call[x]
    BY <1>3, <2>1, Values
  <2>3. /\ call'.step = "bytes" /\ call'.at = call.at /\ call'.below = call.below
        /\ call'.parts = call.parts
    BY <1>1, <2>2 DEF NoCall
  <2>4. WayInv(home)'
    BY <1>2, <2>3 DEF WayInv
  <2> HIDE DEF once
  <2> QED
    BY <1>1, <1>3, <2>1, <2>4, Moves
<1>4. CASE Proceeds(twice)
  <2>1. DOMAIN twice \subseteq DOMAIN NoCall \ (Bound \cup {"todo", "batch"})
        /\ "got" \notin DOMAIN twice /\ twice.step = "stat"
    BY DEF NoCall, Bound
  <2>2. \A x \in DOMAIN NoCall : call'[x] = IF x \in DOMAIN twice THEN twice[x] ELSE call[x]
    BY <1>4, <2>1, Values
  <2>3. /\ call'.step = "stat" /\ call'.at = <<call.at[1]>> /\ call'.below = <<>>
        /\ call'.pending = call.parts
    BY <2>2 DEF NoCall
  <2>4. call.parts \in Seq(Name \cup {".."})
    BY <1>2, SeqMonotonic
  <2>5. WayInv(home)'
    BY <1>2, <2>3, <2>4, WayRestarts DEF WayInv
  <2>6. Follows("stat")
    BY <1>1 DEF Follows, AllowedInv, KindInv, ReaderSteps, ScopeSteps
  <2> HIDE DEF twice
  <2> QED
    BY <1>1, <1>4, <2>1, <2>5, <2>6, Moves
<1>5. CASE Proceeds([step |-> "return"])
  <2>1. Follows("return")
    BY <1>1 DEF Follows, AllowedInv, KindInv, ReaderSteps, ScopeSteps
  <2> QED
    BY <1>1, <1>5, <2>1, Walks
<1> QED
  BY <1>1, <1>3, <1>4, <1>5

LEMMA ListBaseAllowed ==
  ASSUME NEW home, Settled(home), SpelledAlike(home), AllowedInv(home), CallInv, Observes, ListBase
  PROVE  AllowedInv(home)'
<1>1. UNCHANGED <<names, top, policy>> /\ call.step = "list" /\ List(call.held, call.parts, <<>>)
  BY DEF ListBase, tree, files
<1>2. call.kind \in Kind /\ call.held \in Directory /\ call.parts \in Seq(Name)
      /\ Like(call.parts, home[call.held])
  BY <1>1 DEF AllowedInv, KindInv, ReaderSteps, WayInv
<1>3. <<>> \in Seq(ToVisit(home, call.kind, call.view))
  BY EmptySeq
<1> QED
  BY <1>1, <1>2, <1>3, ListAllowed

\* What is visited next leads to where it says, and so does the rest.
LEMMA VisitsNext ==
  ASSUME NEW home, AllowedInv(home), call.todo # <<>>
  PROVE  /\ Head(call.todo) \in ToVisit(home, call.kind, call.view)
         /\ Tail(call.todo) \in Seq(ToVisit(home, call.kind, call.view))
  BY HeadTailProperties DEF AllowedInv, TodoInv

LEMMA EnterDirectoryAllowed ==
  ASSUME NEW home, Settled(home), SpelledAlike(home), AllowedInv(home), CallInv, Observes, EnterDirectory
  PROVE  AllowedInv(home)'
<1> DEFINE frame == Head(call.todo)
           rest == Tail(call.todo)
           object == Opens(frame.directory, frame.name)
<1>1. /\ UNCHANGED <<names, top, policy>> /\ call.step = "visit" /\ call.todo # <<>> /\ frame.kind = "dir"
      /\ call.kind \in {"tree", "search"}
      /\ \/ object \in Directory /\ List(object, frame.parts, rest)
         \/ Proceeds([todo |-> rest])
  BY DEF EnterDirectory, tree, files
<1>2. frame \in ToVisit(home, call.kind, call.view) /\ rest \in Seq(ToVisit(home, call.kind, call.view))
  BY <1>1, VisitsNext
<1> HIDE DEF frame, rest
<1>3. /\ frame.directory \in Directory /\ frame.name \in Name /\ frame.parts \in Seq(Name)
      /\ Leads(home, frame.directory, frame.parts, <<frame.name>>)
  BY <1>1, <1>2 DEF ToVisit
<1>4. CASE object \in Directory /\ List(object, frame.parts, rest)
  <2>1. Like(frame.parts, home[object])
    BY <1>3, <1>4, LedInPlace DEF Opens, AllowedInv
  <2> QED
    BY <1>1, <1>2, <1>3, <1>4, <2>1, ListAllowed DEF Kind
<1>5. CASE Proceeds([todo |-> rest])
  BY <1>1, <1>2, <1>5, Walks
<1> QED
  BY <1>1, <1>4, <1>5

LEMMA SearchFileAllowed ==
  ASSUME NEW home, Settled(home), SpelledAlike(home), AllowedInv(home), CallInv, Observes, SearchFile
  PROVE  AllowedInv(home)'
<1> DEFINE frame == Head(call.todo)
           rest == Tail(call.todo)
           object == Opens(frame.directory, frame.name)
           found == call.got \cup {Taken(frame.parts, object)}
<1>1. /\ UNCHANGED <<names, top, policy>> /\ call.step = "visit" /\ call.todo # <<>> /\ frame.kind = "file"
      /\ call.kind = "search"
      /\ \/ Proceeds([withheld |-> TRUE, todo |-> rest])
         \/ Proceeds([skipped |-> TRUE, todo |-> rest])
         \/ Proceeds([todo |-> rest])
         \/ /\ Allows(call.view, "search", frame.parts) /\ object \in File
            /\ ~RefusesOtherNames(call.view, "search", Links(object))
            /\ Proceeds([got |-> found, todo |-> rest])
  BY DEF SearchFile, tree, files
<1>2. frame \in ToVisit(home, call.kind, call.view) /\ rest \in Seq(ToVisit(home, call.kind, call.view))
  BY <1>1, VisitsNext
<1> HIDE DEF frame, rest, found
<1>3. /\ frame.directory \in Directory /\ frame.name \in Name /\ frame.parts \in Seq(Name)
      /\ Leads(home, frame.directory, frame.parts, <<frame.name>>)
  BY <1>1, <1>2 DEF ToVisit
<1>4. CASE \/ Proceeds([withheld |-> TRUE, todo |-> rest])
           \/ Proceeds([skipped |-> TRUE, todo |-> rest])
           \/ Proceeds([todo |-> rest])
  BY <1>1, <1>2, <1>4, Walks
<1>5. CASE /\ Allows(call.view, "search", frame.parts) /\ object \in File
           /\ ~RefusesOtherNames(call.view, "search", Links(object))
           /\ Proceeds([got |-> found, todo |-> rest])
  <2>1. OperationOf(call.kind) = "search"
    BY <1>1 DEF OperationOf, OpensFile
  <2>2. Taken(frame.parts, object) \in AllowedTake(call.kind, call.view)
    BY <1>3, <1>5, <2>1, TakenIsAllowed DEF Opens, AllowedInv, ViewInv
  <2>3. found \subseteq AllowedTake(call.kind, call.view)
    BY <2>2 DEF found, AllowedInv, GotInv
  <2> QED
    BY <1>1, <1>2, <1>5, <2>3, Walks
<1> QED
  BY <1>1, <1>4, <1>5

LEMMA WalkStopsAllowed ==
  ASSUME NEW home, AllowedInv(home), CallInv, Observes, Limit \/ WalkEnds
  PROVE  AllowedInv(home)'
<1>1. /\ UNCHANGED <<names, top, policy>> /\ call.step = "visit" /\ call.kind \in {"tree", "search"}
      /\ \/ Proceeds([step |-> "return", cut |-> TRUE, todo |-> <<>>])
         \/ Proceeds([step |-> "return"])
  BY DEF Limit, WalkEnds, tree, files
<1>2. Follows("return") /\ <<>> \in Seq(ToVisit(home, call.kind, call.view))
  BY <1>1, EmptySeq DEF Follows, Kind, ReaderSteps, ScopeSteps
<1>3. CASE Proceeds([step |-> "return", cut |-> TRUE, todo |-> <<>>])
  BY <1>1, <1>2, <1>3, Walks
<1>4. CASE Proceeds([step |-> "return"])
  BY <1>1, <1>2, <1>4, Walks
<1> QED
  BY <1>1, <1>3, <1>4

LEMMA ReturnAllowed ==
  ASSUME NEW home, AllowedInv(home), CallInv, Observes, Return
  PROVE  AllowedInv(home)'
<1>1. /\ UNCHANGED <<names, top, policy>> /\ call.step = "return"
      /\ Refused \/ (StillBound /\ Proceeds([step |-> "answered"]))
  BY DEF Return, tree
<1>2. CASE Refused
  BY <1>1, <1>2, IdleAllowed DEF Refused
<1>3. CASE StillBound /\ Proceeds([step |-> "answered"])
  <2>1. ASSUME call.workspace = "derived" PROVE policy = call.bound.generation
    <3>1. call.bound # None /\ call.bound = Derived
      BY <1>3, <2>1 DEF AllowedInv, KindInv, StillBound, Bind
    <3> QED
      BY <3>1 DEF Derived
  <2>2. Follows("answered")
    BY <2>1 DEF Follows, ReaderSteps, ScopeSteps
  <2> QED
    BY <1>1, <1>3, <2>2, Walks
<1> QED
  BY <1>1, <1>2, <1>3

-----------------------------------------------------------------------------
(* One lemma for each operation of a search of a scope.                    *)

LEMMA MayScopeAllowed ==
  ASSUME NEW home, AllowedInv(home), CallInv, Observes, MayScope
  PROVE  AllowedInv(home)'
<1>1. /\ UNCHANGED <<names, top, policy>> /\ call.step = "may"
      /\ Refused \/ Proceeds([step |-> "scan"])
  BY DEF MayScope, tree, files
<1>2. Follows("scan")
  BY <1>1 DEF Follows, AllowedInv, KindInv, ReaderSteps, ScopeSteps
<1>3. CASE Refused
  BY <1>1, <1>3, IdleAllowed DEF Refused
<1>4. CASE Proceeds([step |-> "scan"])
  BY <1>1, <1>2, <1>4, Walks
<1> QED
  BY <1>1, <1>3, <1>4

LEMMA ScanAllowed ==
  ASSUME NEW home, Settled(home), AllowedInv(home), CallInv, Observes, Scan
  PROVE  AllowedInv(home)'
<1> DEFINE todo == Visits(top, <<>>) \o PocketVisits(top)
<1>1. /\ UNCHANGED <<names, top, policy>> /\ call.step = "scan"
      /\ \/ Proceeds([step |-> "filter", cut |-> TRUE])
         \/ Proceeds([step |-> "visit", todo |-> todo])
  BY DEF Scan, tree, files
<1>2. call.kind = "scope_search" /\ call.workspace = None
  BY <1>1 DEF AllowedInv, KindInv, ScopeSteps
<1>3. Follows("filter") /\ Follows("visit")
  BY <1>1, <1>2 DEF Follows, ReaderSteps, ScopeSteps
<1>4. todo \in Seq(ToVisit(home, call.kind, call.view))
  <2>1. top \in Directory /\ home[top] = <<>>
    BY TreeAssumption DEF Settled, AllowedInv, NamesInv
  <2>2. Visits(top, <<>>) \in Seq(ToVisit(home, call.kind, call.view))
    BY <1>2, <2>1, VisitsLead, EmptySeq DEF Like
  <2>3. PICK p : call.view = Beneath(Loaded(p), <<>>)
    BY <1>1, <1>2, NoneAssumption DEF AllowedInv, ViewInv, Workspace
  <2>4. PocketVisits(top) \in Seq(ToVisit(home, call.kind, call.view))
    BY <1>2, <2>1, <2>3, PocketsLead DEF AllowedInv, ViewInv
  <2> QED
    BY <2>2, <2>4
<1> HIDE DEF todo
<1>5. CASE Proceeds([step |-> "filter", cut |-> TRUE])
  BY <1>1, <1>3, <1>5, Walks
<1>6. CASE Proceeds([step |-> "visit", todo |-> todo])
  BY <1>1, <1>3, <1>4, <1>6, Walks
<1> QED
  BY <1>1, <1>5, <1>6

\* What could not be opened is left out.
LEMMA MissedAllowed ==
  ASSUME NEW home, AllowedInv(home), CallInv, UNCHANGED <<names, top, policy>>, Observes,
         call.step = "visit", call.todo # <<>>, NEW object, Missed(object) \/ Proceeds([todo |-> Rest])
  PROVE  AllowedInv(home)'
<1>1. Rest \in Seq(ToVisit(home, call.kind, call.view))
  BY VisitsNext DEF Rest
<1>2. CASE Missed(object)
  BY <1>1, <1>2, Walks DEF Missed
<1>3. CASE Proceeds([todo |-> Rest])
  BY <1>1, <1>3, Walks
<1> QED
  BY <1>2, <1>3

LEMMA EnterAllowed ==
  ASSUME NEW home, Settled(home), AllowedInv(home), CallInv, Observes, Enter
  PROVE  AllowedInv(home)'
<1> DEFINE frame == Head(call.todo)
           object == Opens(frame.directory, frame.name)
           todo == Visits(object, frame.parts) \o Tail(call.todo)
<1>1. /\ UNCHANGED <<names, top, policy>> /\ call.step = "visit" /\ call.todo # <<>> /\ frame.kind = "dir"
      /\ call.kind = "scope_search"
      /\ \/ object \in Directory /\ Proceeds([todo |-> todo])
         \/ Missed(object)
  BY DEF Enter, Visiting, tree, files
<1>2. /\ frame \in ToVisit(home, call.kind, call.view)
      /\ Tail(call.todo) \in Seq(ToVisit(home, call.kind, call.view))
  BY <1>1, VisitsNext
<1> HIDE DEF frame
<1>3. /\ frame.directory \in Directory /\ frame.name \in Name /\ frame.parts \in Seq(Name)
      /\ Leads(home, frame.directory, frame.parts, <<frame.name>>)
  BY <1>1, <1>2 DEF ToVisit
<1>4. CASE object \in Directory /\ Proceeds([todo |-> todo])
  <2>1. Like(frame.parts, home[object])
    BY <1>3, <1>4, LedInPlace DEF Opens, AllowedInv
  <2>2. Visits(object, frame.parts) \in Seq(ToVisit(home, call.kind, call.view))
    BY <1>1, <1>3, <1>4, <2>1, VisitsLead
  <2>3. todo \in Seq(ToVisit(home, call.kind, call.view))
    BY <1>2, <2>2
  <2> HIDE DEF todo
  <2> QED
    BY <1>1, <1>4, <2>3, Walks
<1>5. CASE Missed(object)
  BY <1>1, <1>5, MissedAllowed
<1> QED
  BY <1>1, <1>4, <1>5

LEMMA EnterPocketAllowed ==
  ASSUME NEW home, Settled(home), AllowedInv(home), CallInv, Observes, EnterPocket
  PROVE  AllowedInv(home)'
<1> DEFINE frame == Head(call.todo)
           object == Opens(frame.directory, Head(frame.name))
           next == Frame("pocket", object, Tail(frame.name), frame.parts)
           there == Visits(object, frame.parts) \o Rest
           onward == <<next>> \o Rest
<1>1. /\ UNCHANGED <<names, top, policy>> /\ call.step = "visit" /\ call.todo # <<>> /\ frame.kind = "pocket"
      /\ call.kind = "scope_search"
      /\ \/ Proceeds([todo |-> Rest]) \/ Missed(object)
         \/ object \in Directory /\ Len(frame.name) = 1 /\ Proceeds([todo |-> there])
         \/ object \in Directory /\ Len(frame.name) # 1 /\ Proceeds([todo |-> onward])
  BY DEF EnterPocket, Visiting, tree, files
<1>2. frame \in ToVisit(home, call.kind, call.view) /\ Rest \in Seq(ToVisit(home, call.kind, call.view))
  BY <1>1, VisitsNext DEF Rest
<1> HIDE DEF frame
<1>3. /\ frame.directory \in Directory /\ frame.name \in Seq(Name) /\ frame.name # <<>>
      /\ frame.parts \in Seq(Name) /\ Leads(home, frame.directory, frame.parts, frame.name)
  BY <1>1, <1>2 DEF ToVisit
<1>4. ASSUME object \in Directory
      PROVE  /\ Leads(home, object, frame.parts, Tail(frame.name))
             /\ Len(frame.name) = 1 => Like(frame.parts, home[object])
  BY <1>3, <1>4, PocketGoesOn DEF Opens, AllowedInv
<1>5. CASE Proceeds([todo |-> Rest]) \/ Missed(object)
  BY <1>1, <1>5, MissedAllowed
<1>6. CASE object \in Directory /\ Len(frame.name) = 1 /\ Proceeds([todo |-> there])
  <2>1. Visits(object, frame.parts) \in Seq(ToVisit(home, call.kind, call.view))
    BY <1>1, <1>3, <1>4, <1>6, VisitsLead
  <2>2. there \in Seq(ToVisit(home, call.kind, call.view))
    BY <1>2, <2>1
  <2> HIDE DEF there
  <2> QED
    BY <1>1, <1>6, <2>2, Walks
<1>7. CASE object \in Directory /\ Len(frame.name) # 1 /\ Proceeds([todo |-> onward])
  <2>1. Tail(frame.name) \in Seq(Name) /\ Tail(frame.name) # <<>>
    <3>1. Len(frame.name) \in Nat \ {0} /\ Tail(frame.name) \in Seq(Name)
          /\ Len(Tail(frame.name)) = Len(frame.name) - 1
      BY <1>3, EmptySeq, HeadTailProperties
    <3>2. Len(Tail(frame.name)) # 0
      BY <1>7, <3>1
    <3> QED
      BY <3>1, <3>2, EmptySeq
  <2>2. next \in ToVisit(home, call.kind, call.view)
    BY <1>3, <1>4, <1>7, <2>1 DEF ToVisit, Frame
  <2> HIDE DEF next
  <2>3. <<next>> \in Seq(ToVisit(home, call.kind, call.view))
    BY <2>2
  <2>4. onward \in Seq(ToVisit(home, call.kind, call.view))
    BY <1>2, <2>3, ConcatProperties
  <2> HIDE DEF onward
  <2> QED
    BY <1>1, <1>7, <2>4, Walks
<1> QED
  BY <1>1, <1>5, <1>6, <1>7

LEMMA ConsiderAllowed ==
  ASSUME NEW home, Settled(home), SpelledAlike(home), AllowedInv(home), CallInv, Observes, Consider
  PROVE  AllowedInv(home)'
<1> DEFINE frame == Head(call.todo)
           object == Opens(frame.directory, frame.name)
           batch == Append(call.batch, Taken(frame.parts, object))
           fields == [batch |-> batch, step |-> IF Len(batch) = BatchLimit THEN "flush" ELSE "visit",
                      todo |-> Rest]
<1>1. /\ UNCHANGED <<names, top, policy>> /\ call.step = "visit" /\ call.todo # <<>> /\ frame.kind = "file"
      /\ call.kind = "scope_search"
      /\ \/ Proceeds([todo |-> Rest]) \/ Missed(object)
         \/ /\ object \in File /\ ~RefusesOtherNames(call.view, "scope_search", Links(object))
            /\ Proceeds(fields)
  BY DEF Consider, Visiting, tree, files
<1>2. frame \in ToVisit(home, call.kind, call.view) /\ Rest \in Seq(ToVisit(home, call.kind, call.view))
  BY <1>1, VisitsNext DEF Rest
<1> HIDE DEF frame
<1>3. /\ frame.directory \in Directory /\ frame.name \in Name /\ frame.parts \in Seq(Name)
      /\ Leads(home, frame.directory, frame.parts, <<frame.name>>)
      /\ Allows(call.view, "scope_search", frame.parts)
  BY <1>1, <1>2 DEF ToVisit
<1>4. CASE Proceeds([todo |-> Rest]) \/ Missed(object)
  BY <1>1, <1>4, MissedAllowed
<1>5. CASE /\ object \in File /\ ~RefusesOtherNames(call.view, "scope_search", Links(object))
           /\ Proceeds(fields)
  <2>1. OperationOf(call.kind) = "scope_search"
    BY <1>1 DEF OperationOf, OpensFile
  <2>2. Taken(frame.parts, object) \in AllowedTake(call.kind, call.view)
    BY <1>3, <1>5, <2>1, TakenIsAllowed DEF Opens, AllowedInv, ViewInv
  <2>3. batch \in Seq(AllowedTake(call.kind, call.view))
    BY <2>2 DEF AllowedInv, GotInv
  <2> HIDE DEF batch
  <2>4. fields.step \in {"flush", "visit"} /\ DOMAIN fields = {"batch", "step", "todo"}
        /\ fields.batch = batch /\ fields.todo = Rest
    OBVIOUS
  <2>5. Follows("flush") /\ Follows("visit")
    BY <1>1 DEF Follows, ReaderSteps, ScopeSteps
  <2> HIDE DEF fields
  <2> QED
    BY <1>1, <1>2, <1>5, <2>3, <2>4, <2>5, Walks
<1> QED
  BY <1>1, <1>4, <1>5

LEMMA ExhaustAllowed ==
  ASSUME NEW home, AllowedInv(home), CallInv, Observes, Exhaust
  PROVE  AllowedInv(home)'
<1>1. UNCHANGED <<names, top, policy>> /\ call.step = "visit" /\ call.kind = "scope_search"
  BY DEF Exhaust, tree, files
<1>2. PICK late \in BOOLEAN :
        Proceeds([cut |-> TRUE, todo |-> <<>>, batch |-> IF late THEN <<>> ELSE call.batch,
                  step |-> IF late THEN "filter" ELSE "flush"])
  BY DEF Exhaust
<1> DEFINE fields == [cut |-> TRUE, todo |-> <<>>, batch |-> IF late THEN <<>> ELSE call.batch,
                      step |-> IF late THEN "filter" ELSE "flush"]
<1>3. /\ fields.step \in {"flush", "filter"} /\ DOMAIN fields = {"cut", "todo", "batch", "step"}
      /\ fields.batch \in {<<>>, call.batch} /\ fields.todo = <<>>
  OBVIOUS
<1>4. Follows("flush") /\ Follows("filter")
  BY <1>1 DEF Follows, ReaderSteps, ScopeSteps
<1>5. Proceeds(fields)
  BY <1>2
<1> HIDE DEF fields
<1>6. /\ fields.batch \in Seq(AllowedTake(call.kind, call.view))
      /\ fields.todo \in Seq(ToVisit(home, call.kind, call.view))
  BY <1>3, EmptySeq DEF AllowedInv, GotInv
<1> QED
  BY <1>1, <1>3, <1>4, <1>5, <1>6, Walks

LEMMA WalkedAllowed ==
  ASSUME NEW home, AllowedInv(home), CallInv, Observes, Walked
  PROVE  AllowedInv(home)'
<1>1. /\ UNCHANGED <<names, top, policy>> /\ call.step = "visit" /\ call.kind = "scope_search"
      /\ Proceeds([step |-> "flush"])
  BY DEF Walked, tree, files
<1>2. Follows("flush")
  BY <1>1 DEF Follows, ReaderSteps, ScopeSteps
<1> QED
  BY <1>1, <1>2, Walks

LEMMA FlushAllowed ==
  ASSUME NEW home, AllowedInv(home), CallInv, Observes, Flush
  PROVE  AllowedInv(home)'
<1> DEFINE found == {b \in ToSet(call.batch) : Holds(b.object)}
           all == [batch |-> <<>>, got |-> call.got \cup found,
                   step |-> IF call.todo = <<>> THEN "filter" ELSE "visit"]
           ended(some) == [batch |-> <<>>, todo |-> <<>>, got |-> call.got \cup some,
                           cut |-> TRUE, step |-> "filter"]
<1>1. /\ UNCHANGED <<names, top, policy>> /\ call.step = "flush"
      /\ Proceeds(all) \/ \E some \in SUBSET found : Proceeds(ended(some))
  BY DEF Flush, tree, files
<1>2. found \subseteq AllowedTake(call.kind, call.view)
  BY DEF ToSet, AllowedInv, GotInv
<1>3. /\ call.got \subseteq AllowedTake(call.kind, call.view)
      /\ <<>> \in Seq(AllowedTake(call.kind, call.view))
      /\ <<>> \in Seq(ToVisit(home, call.kind, call.view))
  BY EmptySeq DEF AllowedInv, GotInv
<1>4. Follows("filter") /\ Follows("visit")
  BY <1>1 DEF Follows, AllowedInv, KindInv, ReaderSteps, ScopeSteps
<1> HIDE DEF found
<1>5. CASE Proceeds(all)
  <2>1. /\ DOMAIN all = {"batch", "got", "step"} /\ all.batch = <<>> /\ all.got = call.got \cup found
        /\ all.step \in {"filter", "visit"}
    OBVIOUS
  <2> HIDE DEF all
  <2> QED
    BY <1>1, <1>2, <1>3, <1>4, <1>5, <2>1, Walks
<1>6. ASSUME NEW some \in SUBSET found, Proceeds(ended(some)) PROVE AllowedInv(home)'
  <2> DEFINE fields == ended(some)
  <2>1. /\ DOMAIN fields = {"batch", "todo", "got", "cut", "step"} /\ fields.batch = <<>>
        /\ fields.got = call.got \cup some /\ fields.step = "filter" /\ fields.todo = <<>>
    OBVIOUS
  <2>2. Proceeds(fields)
    BY <1>6
  <2> HIDE DEF fields
  <2> QED
    BY <1>1, <1>2, <1>3, <1>4, <1>6, <2>1, <2>2, Walks
<1> QED
  BY <1>1, <1>5, <1>6

LEMMA FilterAllowed ==
  ASSUME NEW home, AllowedInv(home), CallInv, Observes, Filter
  PROVE  AllowedInv(home)'
<1> DEFINE may == {g \in call.got : MaySearch(g.path)}
           fields == [step |-> "answered", got |-> may, withheld |-> may # call.got]
<1>1. UNCHANGED <<names, top, policy>> /\ call.step = "filter" /\ Proceeds(fields)
  BY DEF Filter, tree, files
<1>2. may \subseteq AllowedTake(call.kind, call.view)
  BY DEF AllowedInv, GotInv
<1> HIDE DEF may
<1>3. fields.step = "answered" /\ fields.got = may /\ DOMAIN fields = {"step", "got", "withheld"}
  OBVIOUS
<1> HIDE DEF fields
<1>4. call.workspace # "derived"
  BY <1>1, NoneAssumption DEF AllowedInv, KindInv, ScopeSteps, Workspace
<1>5. Follows("answered")
  BY <1>4 DEF Follows, ReaderSteps, ScopeSteps
<1> QED
  BY <1>1, <1>2, <1>3, <1>5, Walks

-----------------------------------------------------------------------------

LEMMA ReaderAllowed ==
  ASSUME NEW home, Settled(home), SpelledAlike(home), AllowedInv(home), CallInv, Observes, ReaderNext
  PROVE  AllowedInv(home)'
<1>1. ASSUME NEW kind \in Kind, NEW workspace \in Workspace, NEW path \in Paths, Begin(kind, workspace, path)
      PROVE  AllowedInv(home)'
  <2>1. UNCHANGED <<names, top, policy>>
    BY <1>1 DEF Begin, tree
  <2>2. CASE Refused
    BY <2>1, <2>2, IdleAllowed DEF Refused
  <2>3. CASE /\ Bind(workspace) # None
             /\ call' = [NoCall EXCEPT !.step = "view", !.kind = kind, !.workspace = workspace,
                                       !.path = path, !.bound = Bind(workspace)]
    BY <2>1, <2>3, BeginAllowed DEF NoCall
  <2> QED
    BY <1>1, <2>2, <2>3 DEF Begin
<1>2. ASSUME TakeView PROVE AllowedInv(home)'
  BY <1>2, ViewAllowed DEF TakeView, tree, files
<1>3. ASSUME Done PROVE AllowedInv(home)'
  BY <1>3, IdleAllowed DEF Done, Refused, tree, files
<1> QED
  BY <1>1, <1>2, <1>3, SessionAllowed, OpenRootAllowed, StatAllowed, OpenAllowed, ReadBytesAllowed,
     HashBytesAllowed, ListBaseAllowed, EnterDirectoryAllowed, SearchFileAllowed, WalkStopsAllowed,
     ReturnAllowed DEF ReaderNext

LEMMA ScopeSearchAllowed ==
  ASSUME NEW home, Settled(home), SpelledAlike(home), AllowedInv(home), CallInv, Observes, ScopeSearchNext
  PROVE  AllowedInv(home)'
<1>1. ASSUME NEW scope \in Scope, BeginScope(scope) PROVE AllowedInv(home)'
  <2>1. UNCHANGED <<names, top, policy>> /\ call' = [NoCall EXCEPT !.step = "snapshot", !.kind = "scope_search"]
    BY <1>1 DEF BeginScope, tree, files
  <2> QED
    BY <2>1, BeginAllowed DEF NoCall
<1>2. ASSUME Snapshot PROVE AllowedInv(home)'
  BY <1>2, ViewAllowed DEF Snapshot, tree, files
<1> QED
  BY <1>1, <1>2, MayScopeAllowed, ScanAllowed, EnterAllowed, EnterPocketAllowed, ConsiderAllowed,
     ExhaustAllowed, WalkedAllowed, FlushAllowed, FilterAllowed DEF ScopeSearchNext

\* Others put in a directory what has its place there, whatever they do to the policy.
LEMMA OthersAllowed ==
  ASSUME NEW home, Settled(home), AllowedInv(home), Others, UNCHANGED call, Observes
  PROVE  AllowedInv(home)'
<1>1. NamesInv(home)'
  <2>1. ASSUME NEW t \in Turns, names' = [names EXCEPT ![t[1]][t[2]] = t[3]], UNCHANGED top
        PROVE  NamesInv(home)'
    <3>1. /\ t[1] \in Directory /\ t[2] \in Name /\ t[3] \in Directory \cup File \cup Link \cup {None}
      BY TreeAssumption
    <3>2. names' \in [Directory -> [Name -> Directory \cup File \cup Link \cup {None}]]
      BY <2>1, <3>1 DEF AllowedInv, NamesInv
    <3>3. ASSUME NEW d \in Directory, NEW n \in Name
          PROVE  \/ names'[d][n] = names[d][n]
                 \/ d = t[1] /\ n = t[2] /\ names'[d][n] = t[3]
      BY <2>1, <3>1 DEF AllowedInv, NamesInv
    <3>4. MayName(t[1], t[2])
      BY DEF MayName
    <3>5. t[3] \in Directory => home[t[3]] = Append(home[t[1]], t[2])
      BY DEF Settled
    <3> QED
      BY <2>1, <3>2, <3>3, <3>4, <3>5 DEF AllowedInv, NamesInv
  <2>2. (UNCHANGED names /\ top' \in {Root, Spare}) \/ Turn
    BY DEF Others, TreeNext, Rewrite, Forbid, ReplaceRoot, EditPolicy, EditRegistry, AllowedInv, NamesInv
  <2> QED
    BY <2>1, <2>2 DEF Turn, AllowedInv, NamesInv
<1>2. policy' \in Policies
  BY DEF Others, EditPolicy, EditRegistry, files, AllowedInv, ViewInv
<1>3. KindInv'
  BY DEF AllowedInv, KindInv
<1>4. ViewInv'
  <2>1. call.step # "idle" => during.policies \subseteq during'.policies
    BY DEF Observes, NoCall
  <2>2. call.step # "answered"
    BY DEF Others
  <2> QED
    BY <1>2, <2>1, <2>2 DEF AllowedInv, ViewInv
<1>5. WayInv(home)' /\ TodoInv(home)' /\ GotInv'
  BY DEF AllowedInv, WayInv, TodoInv, GotInv
<1> QED
  BY <1>1, <1>3, <1>4, <1>5 DEF AllowedInv

LEMMA InitAllowed ==
  ASSUME NEW home, Settled(home), Init PROVE AllowedInv(home)
<1>1. NamesInv(home)
  BY TreeAssumption DEF Init, TreeInit, NamesInv, Settled, MayName
<1>2. KindInv
  BY NoneAssumption, EmptySeq DEF Init, NoCall, KindInv, ReaderSteps, ScopeSteps, Workspace
<1>3. ViewInv
  <2>1. DOMAIN NoPolicy = {} /\ IsFiniteSet({})
    BY FS_EmptySet DEF NoPolicy
  <2> QED
    BY <2>1 DEF Init, WorkspacesInit, NoCall, ViewInv
<1>4. WayInv(home) /\ TodoInv(home) /\ GotInv
  BY EmptySeq DEF Init, NoCall, WayInv, TodoInv, GotInv
<1> QED
  BY <1>1, <1>2, <1>3, <1>4 DEF AllowedInv

\* A step that changes nothing.
LEMMA AllowedStays ==
  ASSUME NEW home, AllowedInv(home), UNCHANGED vars PROVE AllowedInv(home)'
<1>1. UNCHANGED <<names, top, policy, call, during>>
  BY DEF vars, tree, files
<1>2. (NamesInv(home) => NamesInv(home)') /\ (KindInv => KindInv') /\ (ViewInv => ViewInv')
  BY <1>1 DEF NamesInv, KindInv, ViewInv
<1>3. (WayInv(home) => WayInv(home)') /\ (TodoInv(home) => TodoInv(home)') /\ (GotInv => GotInv')
  BY <1>1 DEF WayInv, TodoInv, GotInv
<1> QED
  BY <1>2, <1>3 DEF AllowedInv

\* What a call takes of a derived workspace or of a scope lay, when it was opened, only under names
\* that a policy in force during the call allowed, and a derived workspace answers under the policy it
\* was asked under (workspace.py: _authorize, open_beneath and _verify_return_stage; scope_search.py:
\* _visit and _consider), where directories are not moved and scopes are spelled as the tree is.  Names
\* in the first three levels of the tree count.
THEOREM TakenWasAllowed ==
  ASSUME NEW home, Settled(home), SpelledAlike(home)
  PROVE  Spec => []ContentIsAllowed
<1> DEFINE I == Inv /\ AllowedInv(home)
<1>1. Init => I
  BY InitInv, InitAllowed
<1>2. I /\ [Next]_vars => I'
  <2> SUFFICES ASSUME I, [Next]_vars PROVE I'
    OBVIOUS
  <2>1. Inv' /\ CallInv
    BY StepInv DEF Inv
  <2>2. CASE UNCHANGED vars
    BY <2>1, <2>2, AllowedStays
  <2>3. CASE Next
    BY <2>1, <2>3, ReaderAllowed, ScopeSearchAllowed, OthersAllowed DEF Next
  <2> QED
    BY <2>1, <2>2, <2>3
<1>3. I => ContentIsAllowed
  <2> SUFFICES ASSUME I, call.step = "answered", call.workspace # "static" PROVE ContentIsAllowed
    BY DEF ContentIsAllowed
  <2>1. PICK p \in during.policies : call.view = Beneath(Loaded(p), <<>>)
    BY DEF AllowedInv, ViewInv
  <2>2. \A g \in call.got : \A place \in g.places : Allows(call.view, OperationOf(call.kind), place)
    BY DEF AllowedInv, GotInv, AllowedTake
  <2> QED
    BY <2>1, <2>2 DEF ContentIsAllowed, AllowedInv, ViewInv
<1> QED
  BY <1>1, <1>2, <1>3, PTL DEF Spec

-----------------------------------------------------------------------------
(* Nothing that is stable is missed.                                       *)

\* A directory of a file system that does not tell spellings apart has one entry for all of them.
SpelledOnce ==
  CaseBlind => \A d \in Directory : \A n, m \in {k \in Name : names[d][k] # None} :
                 Fold[n] = Fold[m] => n = m

\* The call's view allows the file to be taken, as often as it is linked.
MayTake(x) ==
  /\ Allows(call.view, OperationOf(call.kind), x.path)
  /\ call.kind # "tree" => ~RefusesOtherNames(call.view, OperationOf(call.kind), x.links)

\* The walk to the base of a listing is on the way to the file.
OnTheWay(x) ==
  LET k == Len(call.below)
  IN /\ k <= Len(call.path)
     /\ call.below = SubSeq(x.path, 1, k)
     /\ call.at = SubSeq(x.above, 1, k + 1)
     /\ call.pending = SubSeq(call.path, k + 1, Len(call.path))

AllowedFrom(x, k) ==
  \A i \in k..Len(x.path) : Allows(call.view, OperationOf(call.kind), SubSeq(x.path, 1, i))

\* What is to be visited that leads to the file: a directory on the way, the file itself, or a pocket
\* that lies there.  A search of a scope meets nothing that is denied from there on.
LeadsTo(frame, x) ==
  \E k \in 1..Len(x.path) :
    \/ /\ frame = Frame(IF k = Len(x.path) THEN "file" ELSE "dir", x.above[k], x.path[k],
                        SubSeq(x.path, 1, k))
       /\ call.kind = "scope_search" => AllowedFrom(x, k)
    \/ \E j \in k..Len(x.path) :
         /\ frame = Frame("pocket", x.above[k], SubSeq(x.path, k, j), SubSeq(x.path, 1, j))
         /\ AllowedFrom(x, j)

Among(todo, x) == \E i \in DOMAIN todo : LeadsTo(todo[i], x)

Batched(x) ==
  /\ call.kind = "scope_search"
  /\ \E i \in DOMAIN call.batch : call.batch[i].path = x.path /\ call.batch[i].object = x.object

Reported(x) == \E g \in call.got : g.path = x.path

\* While nothing was left out for a limit or an error, what is stable is reported or still to come.
InReach(x) ==
  ~call.cut /\ ~call.skipped =>
    /\ call.step \in {"visit", "flush"} => Reported(x) \/ Among(call.todo, x) \/ Batched(x)
    /\ call.step \in {"filter", "return", "answered"} => Reported(x)

Reached(x) ==
  /\ call.step \notin {"view", "snapshot"} => MayTake(x)
  /\ call.step \in {"stat", "open"} => OnTheWay(x)
  /\ call.step = "list" => call.held = x.above[Len(call.path) + 1]
  /\ call.step = "list" \/ (call.step = "visit" /\ call.kind = "tree") => call.parts = call.path
  /\ InReach(x)

StableInv ==
  /\ SpelledOnce
  /\ during.expected \subseteq ExpectedNow
  /\ \A x \in during.expected : Reached(x)

\* How what has a place is reached from the root.
WayTo(e) ==
  /\ e[1] \in Seq(Name) /\ e[1] # <<>> /\ Spelled(e[1])
  /\ e[3] \in Seq(Directory) /\ Len(e[3]) = Len(e[1]) /\ e[3][1] = top
  /\ \A i \in 1..Len(e[1]) : names[e[3][i]][e[1][i]] = IF i = Len(e[1]) THEN e[2] ELSE e[3][i + 1]

LEMMA PlacedOnAWay ==
  ASSUME NEW home, Settled(home), ScopesSpelled(home), NamesInv(home), NEW e \in Placed
  PROVE  WayTo(e)
<1> DEFINE Within(places) ==
             UNION {{<<Append(d[1], n), names[d[2]][n], Append(d[3], d[2])>> :
                       n \in {m \in Name : names[d[2]][m] # None}} :
                    d \in {f \in places : f[2] \in Directory}}
           InPlace(f) == f[2] \in Directory => home[f[2]] = f[1]
           Starts(f) == f[1] = <<>> /\ f[2] = top /\ f[3] = <<>>
           zero == {<<<<>>, top, <<>>>>}
           one == Within(zero)
           two == Within(one)
<1>1. ASSUME NEW places, \A f \in places : InPlace(f) /\ (Starts(f) \/ WayTo(f)), NEW f \in Within(places)
      PROVE  InPlace(f) /\ WayTo(f)
  <2>1. PICK d \in places, n \in Name :
          /\ d[2] \in Directory /\ names[d[2]][n] # None
          /\ f = <<Append(d[1], n), names[d[2]][n], Append(d[3], d[2])>>
    BY <1>1
  <2>2. home[d[2]] = d[1] /\ d[1] \in Seq(Name) /\ d[3] \in Seq(Directory) /\ Len(d[3]) = Len(d[1])
    BY <1>1, <2>1, EmptySeq DEF WayTo, Settled
  <2>3. f[1] = Append(d[1], n) /\ f[2] = names[d[2]][n] /\ f[3] = Append(d[3], d[2])
    BY <2>1
  <2>4. InPlace(f)
    BY <2>1, <2>2, <2>3 DEF NamesInv
  <2> DEFINE l == Len(d[1])
  <2>5. /\ f[1] \in Seq(Name) /\ f[1] # <<>> /\ Len(f[1]) = l + 1 /\ l \in Nat
        /\ f[1][l + 1] = n /\ \A i \in 1..l : f[1][i] = d[1][i]
    <3>1. l \in Nat
      BY <2>2
    <3>2. /\ Append(d[1], n) \in Seq(Name) /\ Len(Append(d[1], n)) = l + 1
          /\ Append(d[1], n)[l + 1] = n /\ \A i \in 1..l : Append(d[1], n)[i] = d[1][i]
      BY <2>2, AppendProperties
    <3>3. f[1] = Append(d[1], n)
      BY <2>3
    <3> HIDE DEF l
    <3>4. f[1] # <<>>
      BY <3>1, <3>2, <3>3, EmptySeq
    <3> QED
      BY <3>1, <3>2, <3>3, <3>4
  <2>6. /\ f[3] \in Seq(Directory) /\ Len(f[3]) = l + 1
        /\ f[3][l + 1] = d[2] /\ \A i \in 1..l : f[3][i] = d[3][i]
    BY <2>1, <2>2, <2>3, AppendProperties
  <2>7. f[3][1] = top
    <3>1. CASE Starts(d)
      <4>1. l = 0
        BY <3>1
      <4> QED
        BY <2>6, <3>1, <4>1
    <3>2. CASE WayTo(d)
      <4>1. l # 0 /\ d[3][1] = top
        BY <2>2, <3>2, EmptySeq DEF WayTo
      <4>2. 1 \in 1..l
        BY <2>5, <4>1
      <4> QED
        BY <2>6, <4>1, <4>2
    <3> QED
      BY <1>1, <3>1, <3>2
  <2>8. \A i \in 1..Len(f[1]) : names[f[3][i]][f[1][i]] = IF i = Len(f[1]) THEN f[2] ELSE f[3][i + 1]
    <3>1. names[f[3][l + 1]][f[1][l + 1]] = f[2]
      BY <2>3, <2>5, <2>6
    <3>2. ASSUME NEW i \in 1..l PROVE names[f[3][i]][f[1][i]] = f[3][i + 1]
      <4>1. WayTo(d) /\ i \in 1..Len(d[1])
        BY <1>1, <3>2, <2>2
      <4>2. names[d[3][i]][d[1][i]] = IF i = l THEN d[2] ELSE d[3][i + 1]
        BY <4>1 DEF WayTo
      <4>3. f[3][i] = d[3][i] /\ f[1][i] = d[1][i]
        BY <2>5, <2>6
      <4>4. i # l => i + 1 \in 1..l
        BY <2>5
      <4> QED
        BY <2>6, <4>2, <4>3, <4>4
    <3> HIDE DEF l
    <3> QED
      BY <2>5, <3>1, <3>2
  <2>9. Spelled(f[1])
    <3> SUFFICES ASSUME NEW i \in 1..(l + 1), NEW s \in Scope, CoversFolded(s, SubSeq(f[1], 1, i))
                 PROVE  Covers(s, SubSeq(f[1], 1, i))
      BY <2>5 DEF Spelled
    <3>1. CASE i = l + 1
      <4>1. SubSeq(f[1], 1, i) = f[1] /\ f[1] = Append(home[d[2]], n)
        BY <2>2, <2>3, <2>5, <3>1, SubSeqFull
      <4>2. MayName(d[2], n)
        BY <2>1 DEF NamesInv
      <4> QED
        BY <2>1, <4>1, <4>2 DEF ScopesSpelled
    <3>2. CASE i \in 1..l
      <4> DEFINE a == SubSeq(f[1], 1, i)
                 b == SubSeq(d[1], 1, i)
      <4>1. i \in 0..Len(f[1]) /\ i \in 0..Len(d[1])
        BY <2>2, <2>5, <3>2
      <4>2. a \in Seq(Name) /\ Len(a) = i /\ \A m \in 1..i : a[m] = f[1][m]
        BY <2>5, <4>1, Above
      <4>3. b \in Seq(Name) /\ Len(b) = i /\ \A m \in 1..i : b[m] = d[1][m]
        BY <2>2, <4>1, Above
      <4> HIDE DEF a, b
      <4>4. ASSUME NEW m \in 1..Len(a) PROVE a[m] = b[m]
        <5>1. m \in 1..i /\ m \in 1..l
          BY <2>5, <3>2, <4>2
        <5>2. a[m] = f[1][m] /\ b[m] = d[1][m] /\ f[1][m] = d[1][m]
          BY <2>5, <4>2, <4>3, <5>1
        <5> QED
          BY <5>2
      <4>5. a = b
        BY <4>2, <4>3, <4>4, SeqEqual
      <4>6. WayTo(d)
        BY <1>1, <3>2, <2>2
      <4> QED
        BY <3>2, <4>5, <4>6 DEF WayTo, Spelled, a, b
    <3> QED
      BY <2>5, <3>1, <3>2
  <2> QED
    BY <2>4, <2>5, <2>6, <2>7, <2>8, <2>9 DEF WayTo
<1>2. Placed = one \cup two \cup Within(two)
  BY DEF Placed
<1>3. \A f \in zero : InPlace(f) /\ Starts(f)
  BY DEF Settled, NamesInv
<1> HIDE DEF Within, InPlace, Starts, zero
<1>4. \A f \in one : InPlace(f) /\ WayTo(f)
  BY <1>1, <1>3
<1>5. \A f \in two : InPlace(f) /\ WayTo(f)
  BY <1>1, <1>4
<1>6. \A f \in Within(two) : WayTo(f)
  BY <1>1, <1>5
<1> QED
  BY <1>2, <1>4, <1>5, <1>6

\* Each name is found under itself.
LEMMA FoundAsSpelled ==
  ASSUME SpelledOnce, NEW d \in Directory, NEW n \in Name, names[d][n] # None
  PROVE  At(d, n) = names[d][n]
<1>1. CASE ~CaseBlind
  BY <1>1 DEF At
<1>2. CASE CaseBlind
  <2> DEFINE same == {m \in Name : Fold[m] = Fold[n] /\ names[d][m] # None}
             other == CHOOSE m \in same : TRUE
  <2>1. n \in same /\ At(d, n) = IF same = {} THEN None ELSE names[d][other]
    BY <1>2 DEF At
  <2>2. other \in same
    BY <2>1
  <2>3. \A m \in same : m = n
    BY <1>2 DEF SpelledOnce
  <2> QED
    BY <2>1, <2>2, <2>3
<1> QED
  BY <1>1, <1>2

\* What is expected of a call, and where it lies.
Stable(x) ==
  /\ call.kind \in {"tree", "search", "scope_search"}
  /\ x.path \in Seq(Name) /\ x.path # <<>> /\ Spelled(x.path)
  /\ x.above \in Seq(Directory) /\ Len(x.above) = Len(x.path) /\ x.above[1] = top
  /\ x.object \in File \ closed /\ x.links = Links(x.object)
  /\ \A i \in 1..Len(x.path) :
       /\ x.above[i] \notin closed
       /\ names[x.above[i]][x.path[i]] = IF i = Len(x.path) THEN x.object ELSE x.above[i + 1]
  /\ call.path \in Seq(Name) /\ Len(call.path) < Len(x.path)
  /\ \A i \in 1..Len(call.path) : call.path[i] = x.path[i]
  /\ call.kind = "tree" => Len(x.path) - Len(call.path) <= TreeDepth + 1
  /\ call.kind # "tree" => Holds(x.object)
  /\ call.kind = "scope_search" => MaySearch(x.path)

ViewNow == IF call.workspace # "static" THEN Beneath(Loaded(policy), <<>>) ELSE Unrestricted

LEMMA ExpectedIsStable ==
  ASSUME NEW home, Settled(home), ScopesSpelled(home), AllowedInv(home), NEW x \in ExpectedNow
  PROVE  /\ Stable(x)
         /\ Allows(ViewNow, OperationOf(call.kind), x.path)
         /\ call.kind # "tree" => ~RefusesOtherNames(ViewNow, OperationOf(call.kind), x.links)
<1>1. PICK e \in Placed :
        /\ x = [path |-> e[1], object |-> e[2], above |-> e[3], links |-> Links(e[2])]
        /\ e[2] \notin closed /\ ToSet(e[3]) \cap closed = {}
        /\ call.kind \in {"tree", "search", "scope_search"} /\ e[2] \in File
        /\ call.kind # "tree" => Holds(e[2]) /\ ~RefusesOtherNames(ViewNow, OperationOf(call.kind), Links(e[2]))
        /\ call.kind = "tree" => Len(e[1]) - Len(call.path) <= TreeDepth + 1
        /\ call.kind = "scope_search" => MaySearch(e[1])
        /\ Allows(ViewNow, OperationOf(call.kind), e[1])
        /\ IsStrictPrefix(call.path, e[1])
  BY DEF ExpectedNow, ViewNow
<1>2. x.path = e[1] /\ x.object = e[2] /\ x.above = e[3] /\ x.links = Links(e[2])
  BY <1>1
<1>3. WayTo(e)
  BY PlacedOnAWay DEF AllowedInv
<1>4. \A i \in 1..Len(e[3]) : e[3][i] \notin closed
  <2>1. \A i \in 1..Len(e[3]) : e[3][i] \in ToSet(e[3])
    BY <1>3 DEF WayTo, ToSet
  <2> QED
    BY <1>1, <2>1
<1>5. /\ call.path \in Seq(Name) /\ Len(call.path) < Len(e[1])
      /\ \A i \in 1..Len(call.path) : call.path[i] = e[1][i]
  <2> DEFINE S == Name \cup {".."}
             b == call.path
             p == e[1]
  <2>1. b \in Seq(S) /\ p \in Seq(Name) /\ p \in Seq(S)
    BY <1>3, SeqMonotonic DEF AllowedInv, KindInv, WayTo
  <2>2. IsPrefix(b, p) /\ b # p
    BY <1>1 DEF IsStrictPrefix
  <2> HIDE DEF S, b, p
  <2>3. Len(b) \in Nat /\ Len(p) \in Nat /\ Len(b) <= Len(p) /\ \A i \in 1..Len(b) : b[i] = p[i]
    BY <2>1, <2>2, PrefixElementwise
  <2>4. Len(b) # Len(p)
    BY <2>1, <2>2, <2>3, SeqEqual
  <2>5. b \in Seq(Name)
    <3>1. \A i \in 1..Len(b) : b[i] \in Name
      BY <2>1, <2>3
    <3>2. b = [i \in 1..Len(b) |-> b[i]]
      BY <2>1
    <3> QED
      BY <2>3, <3>1, <3>2, IsASeq
  <2>6. Len(b) < Len(p)
    BY <2>3, <2>4
  <2> QED
    BY <2>3, <2>5, <2>6 DEF b, p
<1> QED
  BY <1>1, <1>2, <1>3, <1>4, <1>5 DEF Stable, WayTo

\* What is found on the way to what is stable.
LEMMA FoundOnTheWay ==
  ASSUME NEW home, AllowedInv(home), SpelledOnce, NEW x, Stable(x), NEW k \in 1..Len(x.path)
  PROVE  /\ x.above[k] \in Directory \ closed /\ x.path[k] \in Name
         /\ names[x.above[k]][x.path[k]] = At(x.above[k], x.path[k])
         /\ At(x.above[k], x.path[k]) = IF k = Len(x.path) THEN x.object ELSE x.above[k + 1]
         /\ k # Len(x.path) => x.above[k + 1] \in Directory \ closed
<1>1. Len(x.path) \in Nat /\ Len(x.above) = Len(x.path)
  BY DEF Stable
<1>2. x.above[k] \in Directory /\ x.path[k] \in Name /\ x.above[k] \notin closed
  BY <1>1 DEF Stable
<1>3. k # Len(x.path) => k + 1 \in 1..Len(x.path)
  BY <1>1
<1>4. k # Len(x.path) => x.above[k + 1] \in Directory \ closed
  BY <1>1, <1>3 DEF Stable
<1>5. names[x.above[k]][x.path[k]] = IF k = Len(x.path) THEN x.object ELSE x.above[k + 1]
  BY DEF Stable
<1>6. names[x.above[k]][x.path[k]] # None
  BY <1>4, <1>5, TreeAssumption DEF Stable
<1> QED
  BY <1>2, <1>4, <1>5, <1>6, FoundAsSpelled

-----------------------------------------------------------------------------

LEMMA AmongBoth ==
  ASSUME NEW S, NEW s \in Seq(S), NEW T, NEW t \in Seq(T), NEW x, Among(s, x) \/ Among(t, x)
  PROVE  Among(s \o t, x)
<1> DEFINE U == S \cup T
<1>1. s \in Seq(U) /\ t \in Seq(U)
  BY SeqMonotonic
<1> HIDE DEF U
<1>2. /\ Len(s) \in Nat /\ Len(t) \in Nat /\ s \o t \in Seq(U) /\ Len(s \o t) = Len(s) + Len(t)
      /\ \A i \in 1..(Len(s) + Len(t)) : (s \o t)[i] = IF i <= Len(s) THEN s[i] ELSE t[i - Len(s)]
  BY <1>1, ConcatProperties
<1>3. DOMAIN s = 1..Len(s) /\ DOMAIN t = 1..Len(t) /\ DOMAIN (s \o t) = 1..(Len(s) + Len(t))
  BY <1>1, <1>2, LenProperties
<1>4. ASSUME NEW i \in 1..Len(s), LeadsTo(s[i], x) PROVE Among(s \o t, x)
  <2>1. i \in 1..(Len(s) + Len(t)) /\ (s \o t)[i] = s[i]
    BY <1>2
  <2> QED
    BY <1>3, <1>4, <2>1 DEF Among
<1>5. ASSUME NEW i \in 1..Len(t), LeadsTo(t[i], x) PROVE Among(s \o t, x)
  <2>1. Len(s) + i \in 1..(Len(s) + Len(t)) /\ ~(Len(s) + i <= Len(s)) /\ (Len(s) + i) - Len(s) = i
    BY <1>2
  <2>2. (s \o t)[Len(s) + i] = t[(Len(s) + i) - Len(s)]
    BY <1>2, <2>1
  <2>3. (s \o t)[Len(s) + i] = t[i]
    BY <2>1, <2>2
  <2> QED
    BY <1>3, <1>5, <2>1, <2>3 DEF Among
<1> QED
  BY <1>3, <1>4, <1>5 DEF Among

LEMMA FirstOrRest ==
  ASSUME NEW S, NEW todo \in Seq(S), todo # <<>>, NEW x, Among(todo, x)
  PROVE  LeadsTo(Head(todo), x) \/ Among(Tail(todo), x)
<1>1. PICK i \in DOMAIN todo : LeadsTo(todo[i], x)
  BY DEF Among
<1>2. /\ Len(todo) \in Nat /\ DOMAIN todo = 1..Len(todo) /\ Tail(todo) \in Seq(S)
      /\ Len(Tail(todo)) = Len(todo) - 1
      /\ \A j \in 1..Len(Tail(todo)) : Tail(todo)[j] = todo[j + 1]
  BY HeadTailProperties, LenProperties
<1>3. DOMAIN Tail(todo) = 1..Len(Tail(todo))
  BY <1>2
<1>4. CASE i = 1
  BY <1>1, <1>4
<1>5. CASE i # 1
  <2>1. i - 1 \in 1..Len(Tail(todo)) /\ (i - 1) + 1 = i
    BY <1>2, <1>5
  <2>2. Tail(todo)[i - 1] = todo[i]
    BY <1>2, <2>1
  <2> QED
    BY <1>1, <1>3, <2>1, <2>2 DEF Among
<1> QED
  BY <1>4, <1>5

\* What is listed has a frame for each name.
LEMMA FramesOfAll ==
  ASSUME NEW kind, NEW d, NEW parts, NEW some \in SUBSET Name
  PROVE  /\ \E S : Frames(kind, d, parts, some) \in Seq(S)
         /\ \A n \in some : \E i \in DOMAIN Frames(kind, d, parts, some) :
              Frames(kind, d, parts, some)[i] = Frame(kind, d, n, Append(parts, n))
<1> DEFINE order == SetToSeq(some)
           S == {Frame(kind, d, n, Append(parts, n)) : n \in some}
           frames == [i \in 1..Len(order) |-> Frame(kind, d, order[i], Append(parts, order[i]))]
<1>1. order \in Seq(some) /\ \A n \in some : \E i \in DOMAIN order : order[i] = n
  BY InSomeOrder, FS_Subset, TreeAssumption
<1> HIDE DEF order
<1>2. DOMAIN order = 1..Len(order) /\ Len(order) \in Nat
  BY <1>1
<1>3. Frames(kind, d, parts, some) = frames
  BY <1>2 DEF Frames, order
<1>4. \A i \in 1..Len(order) : Frame(kind, d, order[i], Append(parts, order[i])) \in S
  BY <1>1, <1>2
<1> HIDE DEF S
<1>5. frames \in Seq(S)
  BY <1>2, <1>4
<1>6. ASSUME NEW n \in some
      PROVE  \E i \in DOMAIN frames : frames[i] = Frame(kind, d, n, Append(parts, n))
  <2>1. PICK i \in 1..Len(order) : order[i] = n
    BY <1>1, <1>2, <1>6
  <2>2. i \in DOMAIN frames /\ frames[i] = Frame(kind, d, order[i], Append(parts, order[i]))
    OBVIOUS
  <2> QED
    BY <2>1, <2>2
<1> HIDE DEF frames
<1> QED
  BY <1>3, <1>5, <1>6

LEMMA VisitsOfAll ==
  ASSUME NEW d, NEW parts
  PROVE  /\ \E S : Visits(d, parts) \in Seq(S)
         /\ \A n \in Considered(d, parts) : \E i \in DOMAIN Visits(d, parts) :
              Visits(d, parts)[i]
                = Frame(IF names[d][n] \in File THEN "file" ELSE "dir", d, n, Append(parts, n))
<1> DEFINE some == Considered(d, parts)
           order == SetToSeq(some)
           KindOf(n) == IF names[d][n] \in File THEN "file" ELSE "dir"
           S == {Frame(KindOf(n), d, n, Append(parts, n)) : n \in some}
           frames == [i \in 1..Len(order) |-> Frame(KindOf(order[i]), d, order[i], Append(parts, order[i]))]
<1>1. some \subseteq Name
  BY DEF Considered, Entries
<1>2. order \in Seq(some) /\ \A n \in some : \E i \in DOMAIN order : order[i] = n
  BY <1>1, InSomeOrder, FS_Subset, TreeAssumption
<1>3. DOMAIN order = 1..Len(order) /\ Len(order) \in Nat
  BY <1>2
<1>4. Visits(d, parts) = frames
  BY <1>3 DEF Visits
<1> HIDE DEF order, KindOf
<1>5. \A i \in 1..Len(order) : Frame(KindOf(order[i]), d, order[i], Append(parts, order[i])) \in S
  BY <1>2, <1>3
<1> HIDE DEF S
<1>6. frames \in Seq(S)
  BY <1>3, <1>5
<1>7. ASSUME NEW n \in some
      PROVE  \E i \in DOMAIN frames : frames[i] = Frame(KindOf(n), d, n, Append(parts, n))
  <2>1. PICK i \in 1..Len(order) : order[i] = n
    BY <1>2, <1>3, <1>7
  <2>2. i \in DOMAIN frames /\ frames[i] = Frame(KindOf(order[i]), d, order[i], Append(parts, order[i]))
    OBVIOUS
  <2> QED
    BY <2>1, <2>2
<1> HIDE DEF frames
<1> QED
  BY <1>4, <1>6, <1>7 DEF KindOf

LEMMA PocketsOfAll ==
  ASSUME NEW d, IsFiniteSet(DOMAIN call.view)
  PROVE  /\ \E S : PocketVisits(d) \in Seq(S)
         /\ \A root \in Pockets(call.view, "scope_search") : \E i \in DOMAIN PocketVisits(d) :
              PocketVisits(d)[i] = Frame("pocket", d, root, root)
<1> DEFINE some == Pockets(call.view, "scope_search")
           order == SetToSeq(some)
           inner == {t \in DOMAIN call.view : /\ Allows(call.view, "scope_search", ScopeRoot[t])
                                              /\ ~Allows(call.view, "scope_search", Front(ScopeRoot[t]))}
           S == {Frame("pocket", d, root, root) : root \in some}
           frames == [i \in 1..Len(order) |-> Frame("pocket", d, order[i], order[i])]
<1>1. IsFiniteSet(some)
  <2>1. IsFiniteSet(inner)
    BY FS_Subset
  <2>2. IsFiniteSet({ScopeRoot[s] : s \in inner})
    BY <2>1, FinitelyManyRoots
  <2> QED
    BY <2>2 DEF Pockets
<1> HIDE DEF some
<1>2. order \in Seq(some) /\ \A root \in some : \E i \in DOMAIN order : order[i] = root
  BY <1>1, InSomeOrder
<1>3. DOMAIN order = 1..Len(order) /\ Len(order) \in Nat
  BY <1>2
<1>4. PocketVisits(d) = frames
  BY <1>3 DEF PocketVisits, some
<1> HIDE DEF order
<1>5. \A i \in 1..Len(order) : Frame("pocket", d, order[i], order[i]) \in S
  BY <1>2, <1>3
<1> HIDE DEF S
<1>6. frames \in Seq(S)
  BY <1>3, <1>5
<1>7. ASSUME NEW root \in some
      PROVE  \E i \in DOMAIN frames : frames[i] = Frame("pocket", d, root, root)
  <2>1. PICK i \in 1..Len(order) : order[i] = root
    BY <1>2, <1>3, <1>7
  <2>2. i \in DOMAIN frames /\ frames[i] = Frame("pocket", d, order[i], order[i])
    OBVIOUS
  <2> QED
    BY <2>1, <2>2
<1> HIDE DEF frames
<1> QED
  BY <1>4, <1>6, <1>7 DEF some

-----------------------------------------------------------------------------
(* What a step leaves of the invariant.                                    *)

AllInv(home) ==
  Settled(home) /\ ScopesSpelled(home) /\ AllowedInv(home) /\ CallInv /\ StableInv

LEMMA StableEnds ==
  ASSUME StableInv, UNCHANGED <<tree, policy>>, Observes, call' = NoCall
  PROVE  StableInv'
<1>1. during'.expected = {}
  BY DEF Observes, Nothing
<1>2. SpelledOnce'
  BY DEF StableInv, SpelledOnce, tree
<1> QED
  BY <1>1, <1>2 DEF StableInv

\* While nothing changes in the tree or the policy, the same is expected of a call.
LEMMA ExpectedStill ==
  ASSUME UNCHANGED <<tree, policy>>, call'.kind = call.kind, call'.workspace = call.workspace,
         call'.path = call.path
  PROVE  ExpectedNow' = ExpectedNow
<1>1. UNCHANGED <<names, text, closed, top, policy>>
  BY DEF tree
<1>2. Placed' = Placed
  BY <1>1 DEF Placed
<1>3. \A object : Links(object)' = Links(object) /\ Holds(object)' = Holds(object)
  BY <1>1 DEF Links, Holds
<1>4. \A path : MaySearch(path)' = MaySearch(path)
  BY <1>1 DEF MaySearch
<1> QED
  BY <1>1, <1>2, <1>3, <1>4 DEF ExpectedNow

LEMMA StableGoes ==
  ASSUME StableInv, UNCHANGED <<tree, policy>>, Observes, CallInv, call # NoCall,
         NEW fields, Proceeds(fields), DOMAIN fields \subseteq DOMAIN NoCall \ {"kind", "workspace", "path"},
         \A x \in during.expected : Reached(x)'
  PROVE  StableInv'
<1>1. CASE call' = NoCall
  BY <1>1, StableEnds
<1>2. CASE call' # NoCall
  <2>1. \A x \in DOMAIN NoCall : call'[x] = IF x \in DOMAIN fields THEN fields[x] ELSE call[x]
    BY Values
  <2>2. {"kind", "workspace", "path"} \subseteq DOMAIN NoCall
    BY DEF NoCall
  <2>3. call'.kind = call.kind /\ call'.workspace = call.workspace /\ call'.path = call.path
    BY <2>1, <2>2
  <2>4. during'.expected = during.expected
    BY <1>2 DEF Observes
  <2>5. ExpectedNow' = ExpectedNow
    BY <2>3, ExpectedStill
  <2>6. SpelledOnce'
    BY DEF StableInv, SpelledOnce, tree
  <2> QED
    BY <2>4, <2>5, <2>6 DEF StableInv
<1> QED
  BY <1>1, <1>2

\* What is expected of the call under way.
LEMMA Expects ==
  ASSUME NEW home, AllInv(home), NEW x \in during.expected
  PROVE  /\ Stable(x) /\ Reached(x) /\ x \in ExpectedNow /\ SpelledOnce
         /\ Allows(ViewNow, OperationOf(call.kind), x.path)
         /\ call.kind # "tree" => ~RefusesOtherNames(ViewNow, OperationOf(call.kind), x.links)
<1>1. x \in ExpectedNow
  BY DEF AllInv, StableInv
<1> QED
  BY <1>1, ExpectedIsStable DEF AllInv, StableInv

\* The steps of a walk that goes on.
LEMMA StableWalks ==
  ASSUME NEW home, AllInv(home), UNCHANGED <<tree, policy>>, Observes, call # NoCall,
         call.step \notin {"view", "snapshot", "stat", "open", "list"},
         NEW fields, Proceeds(fields),
         DOMAIN fields \subseteq {"step", "todo", "got", "batch", "cut", "skipped", "withheld"},
         "step" \in DOMAIN fields =>
           /\ fields.step \notin {"view", "snapshot", "stat", "open", "list"}
           /\ fields.step = "visit" => call.step = "visit" \/ call.kind = "scope_search",
         ASSUME NEW x \in during.expected, Stable(x), Reached(x), SpelledOnce PROVE InReach(x)'
  PROVE  StableInv'
<1>1. /\ DOMAIN fields \subseteq DOMAIN NoCall \ {"kind", "workspace", "path"}
      /\ DOMAIN fields \subseteq DOMAIN NoCall
  BY DEF NoCall
<1>2. \A x \in DOMAIN NoCall : call'[x] = IF x \in DOMAIN fields THEN fields[x] ELSE call[x]
  BY <1>1, Values DEF AllInv
<1>3. {"kind", "view", "path", "parts", "step"} \subseteq DOMAIN NoCall
  BY DEF NoCall
<1>4. /\ call'.kind = call.kind /\ call'.view = call.view /\ call'.path = call.path
      /\ call'.parts = call.parts
      /\ call'.step = IF "step" \in DOMAIN fields THEN fields.step ELSE call.step
  BY <1>2, <1>3
<1>5. ASSUME NEW x \in during.expected PROVE Reached(x)'
  <2>1. Stable(x) /\ Reached(x) /\ SpelledOnce
    BY <1>5, Expects
  <2>2. InReach(x)'
    BY <2>1
  <2>3. MayTake(x)'
    BY <1>4, <2>1 DEF Reached, MayTake
  <2> QED
    BY <1>4, <2>1, <2>2, <2>3 DEF Reached
<1> QED
  BY <1>1, <1>5, StableGoes DEF AllInv

LEMMA AmongStill ==
  ASSUME NEW x, call'.kind = call.kind, call'.view = call.view
  PROVE  Among(call.todo, x)' <=> Among(call'.todo, x)
<1>1. \A k : AllowedFrom(x, k)' <=> AllowedFrom(x, k)
  BY DEF AllowedFrom
<1>2. \A frame : LeadsTo(frame, x)' <=> LeadsTo(frame, x)
  BY <1>1 DEF LeadsTo
<1> QED
  BY <1>2 DEF Among

\* A step that takes the first frame: what leads to the file otherwise still does.
LEMMA StillComing ==
  ASSUME NEW home, AllInv(home), NEW x, Reached(x), call.step = "visit", call.todo # <<>>,
         ~call'.cut /\ ~call'.skipped => ~call.cut /\ ~call.skipped,
         call'.kind = call.kind, call'.view = call.view, call'.step \in {"visit", "flush"},
         call.got \subseteq call'.got,
         call.kind = "scope_search" /\ Batched(x) => Batched(x)',
         ~call'.cut /\ ~call'.skipped /\ Among(Tail(call.todo), x) => Among(call'.todo, x),
         ~call'.cut /\ ~call'.skipped /\ LeadsTo(Head(call.todo), x) =>
           Reported(x)' \/ Among(call'.todo, x) \/ Batched(x)'
  PROVE  InReach(x)'
<1> SUFFICES ASSUME ~call'.cut, ~call'.skipped
             PROVE  Reported(x)' \/ Among(call'.todo, x) \/ Batched(x)'
  BY AmongStill DEF InReach
<1>1. Reported(x) \/ Among(call.todo, x) \/ Batched(x)
  BY DEF Reached, InReach
<1>2. Reported(x) => Reported(x)'
  BY DEF Reported
<1>3. Batched(x) => Batched(x)'
  BY DEF Batched
<1>4. Among(call.todo, x) => LeadsTo(Head(call.todo), x) \/ Among(Tail(call.todo), x)
  BY FirstOrRest DEF AllInv, AllowedInv, TodoInv
<1> QED
  BY <1>1, <1>2, <1>3, <1>4

-----------------------------------------------------------------------------
(* One lemma for each operation of a reader.                               *)

\* Nothing is expected of the call.
LEMMA StableNone ==
  ASSUME NEW home, AllInv(home), UNCHANGED <<tree, policy>>, Observes, call # NoCall,
         NEW fields, Proceeds(fields), DOMAIN fields \subseteq DOMAIN NoCall \ {"kind", "workspace", "path"},
         during.expected = {}
  PROVE  StableInv'
BY StableGoes DEF AllInv

\* Of a call that reads or hashes one file nothing is expected.
LEMMA ReadsExpectNothing ==
  ASSUME NEW home, AllInv(home), call.kind \in {"read", "digest"}
  PROVE  during.expected = {}
<1>1. \A x \in during.expected : Stable(x)
  BY Expects
<1> QED
  BY <1>1 DEF Stable

LEMMA BeginStable ==
  ASSUME NEW home, AllInv(home), UNCHANGED tree, Observes, call = NoCall,
         call'.step \in {"view", "snapshot"}
  PROVE  StableInv'
<1>1. call' # NoCall
  BY DEF NoCall
<1>2. during'.expected = ExpectedNow'
  BY <1>1 DEF Observes
<1>3. SpelledOnce'
  BY DEF AllInv, StableInv, SpelledOnce, tree
<1>4. \A x \in during'.expected : Reached(x)'
  BY DEF Reached, InReach
<1> QED
  BY <1>2, <1>3, <1>4 DEF StableInv

LEMMA ViewStable ==
  ASSUME NEW home, AllInv(home), UNCHANGED <<tree, policy>>, Observes, call.step \in {"view", "snapshot"},
         NEW step \in {"session", "may"}, Proceeds([step |-> step, view |-> ViewNow])
  PROVE  StableInv'
<1> DEFINE fields == [step |-> step, view |-> ViewNow]
<1>1. DOMAIN fields = {"step", "view"} /\ fields.step = step /\ fields.view = ViewNow
  OBVIOUS
<1>2. Proceeds(fields)
  OBVIOUS
<1> HIDE DEF fields
<1>3. DOMAIN fields \subseteq DOMAIN NoCall /\ {"step", "view", "kind"} \subseteq DOMAIN NoCall
      /\ DOMAIN fields \subseteq DOMAIN NoCall \ {"kind", "workspace", "path"}
  BY <1>1 DEF NoCall
<1>4. \A x \in DOMAIN NoCall : call'[x] = IF x \in DOMAIN fields THEN fields[x] ELSE call[x]
  BY <1>2, <1>3, Values DEF AllInv
<1>5. call'.step = step /\ call'.view = ViewNow /\ call'.kind = call.kind
  BY <1>1, <1>3, <1>4
<1>6. ASSUME NEW x \in during.expected PROVE Reached(x)'
  <2>1. /\ Allows(ViewNow, OperationOf(call.kind), x.path)
        /\ call.kind # "tree" => ~RefusesOtherNames(ViewNow, OperationOf(call.kind), x.links)
    BY Expects
  <2>2. MayTake(x)'
    BY <1>5, <2>1 DEF MayTake
  <2> QED
    BY <1>5, <2>2 DEF Reached, InReach
<1>7. call # NoCall
  BY DEF NoCall
<1> QED
  BY <1>2, <1>3, <1>6, <1>7, StableGoes DEF AllInv

LEMMA SessionStable ==
  ASSUME NEW home, AllInv(home), Observes, Session PROVE StableInv'
<1>1. UNCHANGED <<tree, policy>> /\ call.step = "session" /\ call # NoCall
      /\ (Refused \/ Proceeds([step |-> "root"]))
  BY DEF Session, NoCall
<1>2. CASE Refused
  BY <1>1, <1>2, StableEnds DEF AllInv, Refused
<1>3. CASE Proceeds([step |-> "root"])
  <2>1. call'.step = "root"
    BY <1>3 DEF Proceeds, With
  <2>2. \A x \in during.expected : InReach(x)'
    BY <2>1 DEF InReach
  <2> QED
    BY <1>1, <1>3, <2>2, StableWalks
<1> QED
  BY <1>1, <1>2, <1>3

LEMMA OpenRootStable ==
  ASSUME NEW home, AllInv(home), Observes, OpenRoot PROVE StableInv'
<1> DEFINE fields == [step |-> "stat", at |-> <<top>>, pending |-> call.path]
<1>1. UNCHANGED <<tree, policy>> /\ call.step = "root" /\ call # NoCall /\ (Refused \/ Proceeds(fields))
  BY DEF OpenRoot, NoCall, files
<1>2. CASE Refused
  BY <1>1, <1>2, StableEnds DEF AllInv, Refused
<1>3. CASE Proceeds(fields)
  <2>1. /\ DOMAIN fields = {"step", "at", "pending"} /\ fields.step = "stat" /\ fields.at = <<top>>
        /\ fields.pending = call.path
    OBVIOUS
  <2> HIDE DEF fields
  <2>2. DOMAIN fields \subseteq DOMAIN NoCall
        /\ {"step", "at", "pending", "kind", "view", "below", "path"} \subseteq DOMAIN NoCall
        /\ DOMAIN fields \subseteq DOMAIN NoCall \ {"kind", "workspace", "path"}
    BY <2>1 DEF NoCall
  <2>3. \A x \in DOMAIN NoCall : call'[x] = IF x \in DOMAIN fields THEN fields[x] ELSE call[x]
    BY <1>3, <2>2, Values DEF AllInv
  <2>4. /\ call'.step = "stat" /\ call'.at = <<top>> /\ call'.pending = call.path
        /\ call'.kind = call.kind /\ call'.view = call.view /\ call'.below = call.below /\ call'.path = call.path
    BY <2>1, <2>2, <2>3
  <2>5. ASSUME NEW x \in during.expected PROVE Reached(x)'
    <3>1. Stable(x) /\ Reached(x)
      BY Expects
    <3>2. MayTake(x)'
      BY <1>1, <2>4, <3>1 DEF Reached, MayTake
    <3>3. call.below = <<>>
      BY <1>1 DEF AllInv, AllowedInv, WayInv
    <3>4. OnTheWay(x)'
      <4>1. Len(<<>>) = 0 /\ Len(call.path) \in Nat /\ SubSeq(x.path, 1, 0) = <<>>
        <5>1. call.path \in Seq(Name)
          BY <3>1 DEF Stable
        <5>2. Len(<<>>) = 0 /\ Len(call.path) \in Nat
          BY <5>1
        <5>3. SubSeq(x.path, 1, 0) = <<>>
          BY SubSeqEmpty
        <5> QED
          BY <5>2, <5>3
      <4>2. SubSeq(call.path, 0 + 1, Len(call.path)) = call.path
        BY <3>1, SubSeqFull DEF Stable
      <4>3. SubSeq(x.above, 1, 0 + 1) = <<top>>
        <5>1. Len(x.above) \in Nat /\ 1 \in 0..Len(x.above) /\ x.above \in Seq(Directory) /\ x.above[1] = top
          BY <3>1, EmptySeq DEF Stable
        <5> DEFINE one == SubSeq(x.above, 1, 1)
        <5>2. one \in Seq(Directory) /\ Len(one) = 1 /\ one[1] = top
          BY <5>1, Above
        <5> HIDE DEF one
        <5>3. one = <<top>>
          BY <5>2
        <5> QED
          BY <5>3 DEF one
      <4> DEFINE k == Len(call'.below)
      <4>4. k = 0
        BY <2>4, <3>3, <4>1
      <4> HIDE DEF k
      <4>5. k <= Len(call'.path)
        BY <2>4, <4>1, <4>4
      <4>6. call'.below = SubSeq(x.path, 1, k)
        BY <2>4, <3>3, <4>1, <4>4
      <4>7. call'.at = SubSeq(x.above, 1, k + 1)
        BY <2>4, <4>3, <4>4
      <4>8. call'.pending = SubSeq(call'.path, k + 1, Len(call'.path))
        BY <2>4, <4>2, <4>4
      <4> QED
        BY <4>5, <4>6, <4>7, <4>8 DEF OnTheWay, k
    <3> QED
      BY <2>4, <3>2, <3>4 DEF Reached, InReach
  <2> QED
    BY <1>1, <1>3, <2>2, <2>5, StableGoes DEF AllInv
<1> QED
  BY <1>1, <1>2, <1>3

-----------------------------------------------------------------------------
(* The walk to the base of a listing.                                      *)

\* The base of the call lies above what is stable.
LEMMA BaseAbove ==
  ASSUME NEW x, Stable(x)
  PROVE  /\ Len(call.path) \in Nat /\ Len(x.path) \in Nat /\ Len(call.path) < Len(x.path)
         /\ SubSeq(x.path, 1, Len(call.path)) = call.path
<1> DEFINE b == Len(call.path)
           q == SubSeq(x.path, 1, b)
<1>1. call.path \in Seq(Name) /\ x.path \in Seq(Name) /\ b \in Nat /\ Len(x.path) \in Nat /\ b < Len(x.path)
  BY DEF Stable
<1>2. b \in 0..Len(x.path)
  BY <1>1
<1>3. q \in Seq(Name) /\ Len(q) = b /\ \A i \in 1..b : q[i] = x.path[i]
  BY <1>1, <1>2, Above
<1> HIDE DEF q
<1>4. \A i \in 1..Len(q) : q[i] = call.path[i]
  BY <1>3 DEF Stable
<1>5. q = call.path
  BY <1>1, <1>3, <1>4, SeqEqual
<1> QED
  BY <1>1, <1>5 DEF q

LEMMA WhatIsLeft ==
  ASSUME NEW S, NEW p \in Seq(S), NEW k \in 0..(Len(p) - 1)
  PROVE  /\ Head(SubSeq(p, k + 1, Len(p))) = p[k + 1]
         /\ Tail(SubSeq(p, k + 1, Len(p))) = SubSeq(p, k + 2, Len(p))
         /\ Len(SubSeq(p, k + 1, Len(p))) = Len(p) - k
<1> DEFINE n == Len(p)
           m == k + 1
           q == SubSeq(p, m, n)
<1>1. n \in Nat /\ n \in Int /\ m \in Int /\ m \in 1..n /\ n \in m..n /\ m <= n /\ m + 1 = k + 2
  OBVIOUS
<1>2. \A i \in m..n : p[i] \in S
  BY <1>1
<1>3. n - m + 1 = n - k
  BY <1>1
<1>4. Head(q) = p[m] /\ Tail(q) = SubSeq(p, m + 1, n)
  BY <1>1, HeadTailOfSubSeq
<1> HIDE DEF n, m
<1>5. Len(q) = n - m + 1
  BY <1>1, <1>2, SubSeqProperties
<1> QED
  BY <1>1, <1>3, <1>4, <1>5 DEF m, n

\* Where the walk is, and what it looks for next.
LEMMA WhereItIs ==
  ASSUME NEW home, AllowedInv(home), call.step \in {"stat", "open"}, NEW x, Stable(x), OnTheWay(x)
  PROVE  /\ Len(call.below) \in 0..Len(call.path)
         /\ Last(call.at) = x.above[Len(call.below) + 1]
         /\ call.pending = <<>> => call.below = call.path
         /\ call.pending # <<>> =>
              /\ Len(call.below) < Len(call.path)
              /\ Head(call.pending) = x.path[Len(call.below) + 1] /\ Head(call.pending) \in Name
              /\ Len(call.pending) = Len(call.path) - Len(call.below)
              /\ Tail(call.pending) = SubSeq(call.path, Len(call.below) + 2, Len(call.path))
<1> DEFINE k == Len(call.below)
           b == Len(call.path)
<1>1. k \in Nat /\ b \in Nat /\ k <= b /\ Len(x.path) \in Nat /\ b < Len(x.path) /\ call.path \in Seq(Name)
  <2>1. call.below \in Seq(Name)
    BY DEF AllowedInv, WayInv, Way
  <2> QED
    BY <2>1, BaseAbove DEF OnTheWay, Stable
<1>2. /\ call.below = SubSeq(x.path, 1, k) /\ call.at = SubSeq(x.above, 1, k + 1)
      /\ call.pending = SubSeq(call.path, k + 1, b)
  BY DEF OnTheWay
<1>3. Last(call.at) = x.above[k + 1]
  <2> DEFINE m == k + 1
             way == SubSeq(x.above, 1, m)
  <2>1. x.above \in Seq(Directory) /\ m \in 0..Len(x.above) /\ m \in 1..m
    BY <1>1 DEF Stable
  <2>2. Len(way) = m /\ way[m] = x.above[m]
    BY <2>1, Above
  <2>3. call.at = way
    BY <1>2
  <2> HIDE DEF way, m
  <2>4. Last(way) = x.above[m]
    BY <2>2 DEF Last
  <2> QED
    BY <2>3, <2>4 DEF m
<1>4. ASSUME k < b
      PROVE  /\ Head(call.pending) = call.path[k + 1] /\ Tail(call.pending) = SubSeq(call.path, k + 2, b)
             /\ Len(call.pending) = b - k
  <2>1. k \in 0..(b - 1)
    BY <1>1, <1>4
  <2> QED
    BY <1>1, <1>2, <2>1, WhatIsLeft
<1>5. ASSUME call.pending = <<>> PROVE call.below = call.path
  <2>1. Len(call.pending) = 0
    BY <1>5
  <2> HIDE DEF k, b
  <2>2. k = b
    BY <1>1, <1>4, <2>1
  <2> QED
    BY <1>2, <2>2, BaseAbove DEF b
<1>6. ASSUME call.pending # <<>>
      PROVE  /\ k < b /\ Head(call.pending) = x.path[k + 1] /\ Head(call.pending) \in Name
             /\ Len(call.pending) = b - k
             /\ Tail(call.pending) = SubSeq(call.path, k + 2, b)
  <2>1. SubSeq(call.path, b + 1, b) = <<>>
    BY <1>1, SubSeqEmpty
  <2>2. k # b
    BY <1>2, <1>6, <2>1
  <2>3. k < b /\ k + 1 \in 1..b
    BY <1>1, <2>2
  <2>4. call.path[k + 1] = x.path[k + 1] /\ call.path[k + 1] \in Name
    BY <1>1, <2>3 DEF Stable
  <2> QED
    BY <1>4, <2>3, <2>4
<1>7. k \in 0..b
  BY <1>1
<1> HIDE DEF k, b
<1> QED
  BY <1>3, <1>5, <1>6, <1>7 DEF k, b

LEMMA AstrayStable ==
  ASSUME NEW home, AllInv(home), UNCHANGED <<tree, policy>>, Observes, call # NoCall, Astray
  PROVE  StableInv'
<1>1. CASE Refused
  BY <1>1, StableEnds DEF AllInv, Refused
<1>2. CASE call.again /\ Proceeds([step |-> "return"])
  <2>1. during.expected = {}
    BY <1>2, ReadsExpectNothing DEF AllInv, CallInv
  <2>2. DOMAIN [step |-> "return"] \subseteq DOMAIN NoCall \ {"kind", "workspace", "path"}
    BY DEF NoCall
  <2> QED
    BY <1>2, <2>1, <2>2, StableNone
<1> QED
  BY <1>1, <1>2 DEF Astray

LEMMA ArrivesStable ==
  ASSUME NEW home, AllInv(home), UNCHANGED <<tree, policy>>, Observes, call.step \in {"stat", "open"},
         NEW object, NEW parts, Arrives(object, parts),
         \A x \in during.expected : object = x.above[Len(call.path) + 1] /\ parts = call.path
  PROVE  StableInv'
<1> DEFINE read == OpensFile(call.kind)
           fields == [step |-> IF read THEN "bytes" ELSE "list", held |-> object, parts |-> parts,
                      version |-> IF read THEN text[object] ELSE 0,
                      got |-> IF read THEN {Taken(parts, object)} ELSE {}]
<1>1. CASE Refused
  BY <1>1, StableEnds DEF AllInv, Refused
<1>2. CASE Proceeds(fields)
  <2>1. /\ DOMAIN fields = {"step", "held", "parts", "version", "got"}
        /\ fields.step = IF read THEN "bytes" ELSE "list"
        /\ fields.held = object /\ fields.parts = parts
    OBVIOUS
  <2> HIDE DEF fields, read
  <2>2. DOMAIN fields \subseteq DOMAIN NoCall
        /\ {"step", "held", "parts", "kind", "view", "path"} \subseteq DOMAIN NoCall
        /\ DOMAIN fields \subseteq DOMAIN NoCall \ {"kind", "workspace", "path"}
    BY <2>1 DEF NoCall
  <2>3. \A x \in DOMAIN NoCall : call'[x] = IF x \in DOMAIN fields THEN fields[x] ELSE call[x]
    BY <1>2, <2>2, Values DEF AllInv
  <2>4. /\ call'.step = fields.step /\ call'.held = object /\ call'.parts = parts
        /\ call'.kind = call.kind /\ call'.view = call.view /\ call'.path = call.path
    BY <2>1, <2>2, <2>3
  <2>5. ASSUME NEW x \in during.expected PROVE Reached(x)'
    <3>1. Stable(x) /\ Reached(x)
      BY Expects
    <3>2. MayTake(x)'
      BY <2>4, <3>1 DEF Reached, MayTake
    <3>3. ~read
      BY <3>1 DEF read, OpensFile, Stable
    <3> QED
      BY <2>1, <2>4, <3>2, <3>3 DEF Reached, InReach
  <2>6. call # NoCall
    BY DEF NoCall
  <2> QED
    BY <1>2, <2>2, <2>5, <2>6, StableGoes DEF AllInv
<1> QED
  BY <1>1, <1>2 DEF Arrives

\* What the walk finds next on the way to what is stable is the next directory.
LEMMA FindsTheNext ==
  ASSUME NEW home, AllInv(home), NEW x \in during.expected, call.step \in {"stat", "open"}, call.pending # <<>>
  PROVE  /\ Head(call.pending) \in Name /\ Head(call.pending) = x.path[Len(call.below) + 1]
         /\ Len(call.below) \in 0..(Len(call.path) - 1) /\ Len(call.path) < Len(x.path)
         /\ Last(call.at) = x.above[Len(call.below) + 1]
         /\ At(Last(call.at), Head(call.pending)) = x.above[Len(call.below) + 2]
         /\ x.above[Len(call.below) + 2] \in Directory \ closed
         /\ Len(call.pending) = Len(call.path) - Len(call.below)
         /\ Tail(call.pending) = SubSeq(call.path, Len(call.below) + 2, Len(call.path))
<1> DEFINE k == Len(call.below)
           m == k + 1
<1>1. Stable(x) /\ OnTheWay(x) /\ SpelledOnce
  BY Expects DEF Reached
<1>2. /\ k \in 0..Len(call.path) /\ Last(call.at) = x.above[k + 1] /\ k < Len(call.path)
      /\ Head(call.pending) = x.path[k + 1] /\ Head(call.pending) \in Name
      /\ Len(call.pending) = Len(call.path) - k
      /\ Tail(call.pending) = SubSeq(call.path, k + 2, Len(call.path))
  BY <1>1, WhereItIs DEF AllInv
<1>3. Len(call.path) \in Nat /\ Len(x.path) \in Nat /\ Len(call.path) < Len(x.path)
  BY <1>1, BaseAbove
<1>4. m \in 1..Len(x.path) /\ m # Len(x.path) /\ m + 1 = k + 2 /\ k \in 0..(Len(call.path) - 1)
  BY <1>2, <1>3
<1> HIDE DEF m
<1>5. At(x.above[m], x.path[m]) = x.above[m + 1] /\ x.above[m + 1] \in Directory \ closed
  BY <1>1, <1>4, FoundOnTheWay DEF AllInv
<1> QED
  BY <1>2, <1>3, <1>4, <1>5 DEF m

LEMMA StatStable ==
  ASSUME NEW home, AllInv(home), Observes, Stat PROVE StableInv'
<1> DEFINE here == Last(call.at)
           name == Head(call.pending)
           object == At(here, name)
           back == [at |-> Front(call.at), below |-> Front(call.below), pending |-> Tail(call.pending)]
           link == [hops |-> call.hops + 1,
                    at |-> IF object \in Absolute THEN <<call.at[1]>> ELSE call.at,
                    below |-> IF object \in Absolute THEN <<>> ELSE call.below,
                    pending |-> Target[object] \o Tail(call.pending)]
<1>1. UNCHANGED <<tree, policy>> /\ call.step = "stat" /\ call # NoCall
  BY DEF Stat, files, NoCall
<1>2. \/ Astray
      \/ call.pending = <<>> /\ Arrives(here, call.below)
      \/ call.pending # <<>> /\ name = ".." /\ Proceeds(back)
      \/ call.pending # <<>> /\ object \in Link /\ Proceeds(link)
      \/ Proceeds([step |-> "open"])
  BY Zenon DEF Stat
<1>3. CASE call.pending = <<>> /\ Arrives(here, call.below)
  <2>1. ASSUME NEW x \in during.expected PROVE here = x.above[Len(call.path) + 1] /\ call.below = call.path
    <3>1. Stable(x) /\ OnTheWay(x)
      BY <1>1, Expects DEF Reached
    <3> QED
      BY <1>1, <1>3, <3>1, WhereItIs DEF AllInv
  <2> HIDE DEF here
  <2> QED
    BY <1>1, <1>3, <2>1, ArrivesStable
<1>4. /\ DOMAIN back \subseteq DOMAIN NoCall \ {"kind", "workspace", "path"}
      /\ DOMAIN link \subseteq DOMAIN NoCall \ {"kind", "workspace", "path"}
  BY DEF NoCall
<1>5. CASE call.pending # <<>> /\ name = ".." /\ Proceeds(back)
  <2>1. \A x \in during.expected : name \in Name
    BY <1>1, <1>5, FindsTheNext
  <2>2. during.expected = {}
    BY <1>5, <2>1, PathsAssumption
  <2> HIDE DEF back
  <2> QED
    BY <1>1, <1>4, <1>5, <2>2, StableNone
<1>6. CASE call.pending # <<>> /\ object \in Link /\ Proceeds(link)
  <2>1. \A x \in during.expected : object \in Directory
    BY <1>1, <1>6, FindsTheNext
  <2>2. during.expected = {}
    BY <1>6, <2>1, TreeAssumption
  <2> HIDE DEF link
  <2> QED
    BY <1>1, <1>4, <1>6, <2>2, StableNone
<1>7. CASE Proceeds([step |-> "open"])
  <2> DEFINE fields == [step |-> "open"]
  <2>1. DOMAIN fields = {"step"} /\ fields.step = "open" /\ Proceeds(fields)
    BY <1>7
  <2> HIDE DEF fields
  <2>2. DOMAIN fields \subseteq DOMAIN NoCall
        /\ {"step", "at", "below", "pending", "kind", "view", "path"} \subseteq DOMAIN NoCall
        /\ DOMAIN fields \subseteq DOMAIN NoCall \ {"kind", "workspace", "path"}
    BY <2>1 DEF NoCall
  <2>3. \A x \in DOMAIN NoCall : call'[x] = IF x \in DOMAIN fields THEN fields[x] ELSE call[x]
    BY <2>1, <2>2, Values DEF AllInv
  <2>4. /\ call'.step = "open" /\ call'.at = call.at /\ call'.below = call.below
        /\ call'.pending = call.pending
        /\ call'.kind = call.kind /\ call'.view = call.view /\ call'.path = call.path
    BY <2>1, <2>2, <2>3
  <2>5. ASSUME NEW x \in during.expected PROVE Reached(x)'
    <3>1. MayTake(x) /\ OnTheWay(x)
      BY <1>1, Expects DEF Reached
    <3>2. MayTake(x)' /\ OnTheWay(x)'
      BY <1>1, <2>4, <3>1 DEF MayTake, OnTheWay
    <3> QED
      BY <2>4, <3>2 DEF Reached, InReach
  <2> QED
    BY <1>1, <2>1, <2>2, <2>5, StableGoes DEF AllInv
<1> QED
  BY <1>1, <1>2, <1>3, <1>5, <1>6, <1>7, AstrayStable

\* The directory that was next is opened.
LEMMA OneDirectoryOn ==
  ASSUME NEW home, AllInv(home), NEW x \in during.expected, call.step \in {"stat", "open"}, call.pending # <<>>,
         NEW at, at = Append(call.at, At(Last(call.at), Head(call.pending))),
         NEW below, below = Append(call.below, Head(call.pending))
  PROVE  /\ Len(below) = Len(call.below) + 1 /\ Len(below) <= Len(call.path)
         /\ below = SubSeq(x.path, 1, Len(below))
         /\ at = SubSeq(x.above, 1, Len(below) + 1)
         /\ Tail(call.pending) = SubSeq(call.path, Len(below) + 1, Len(call.path))
<1> DEFINE k == Len(call.below)
           m == k + 1
<1>1. Stable(x) /\ OnTheWay(x)
  BY Expects DEF Reached
<1>2. /\ Head(call.pending) = x.path[k + 1] /\ k \in 0..(Len(call.path) - 1)
      /\ Len(call.path) < Len(x.path)
      /\ At(Last(call.at), Head(call.pending)) = x.above[k + 2]
      /\ Tail(call.pending) = SubSeq(call.path, k + 2, Len(call.path))
  BY FindsTheNext
<1>3. Len(call.path) \in Nat /\ Len(x.path) \in Nat /\ x.path \in Seq(Name)
      /\ x.above \in Seq(Directory) /\ Len(x.above) = Len(x.path)
  BY <1>1 DEF Stable
<1>4. /\ k \in 0..(Len(x.path) - 1) /\ m \in 0..(Len(x.above) - 1) /\ m + 1 = k + 2
      /\ m \in 0..Len(x.path) /\ m <= Len(call.path)
  BY <1>2, <1>3
<1>5. call.below = SubSeq(x.path, 1, k) /\ call.at = SubSeq(x.above, 1, k + 1)
  BY <1>1 DEF OnTheWay
<1>6. Append(SubSeq(x.path, 1, k), x.path[k + 1]) = SubSeq(x.path, 1, k + 1)
  BY <1>3, <1>4, OneFarther
<1>7. below = SubSeq(x.path, 1, m)
  BY <1>2, <1>5, <1>6
<1>8. Len(below) = m
  BY <1>3, <1>4, <1>7, Above
<1> HIDE DEF m
<1>9. Append(SubSeq(x.above, 1, m), x.above[m + 1]) = SubSeq(x.above, 1, m + 1)
  BY <1>3, <1>4, OneFarther
<1>10. at = SubSeq(x.above, 1, m + 1)
  BY <1>2, <1>4, <1>5, <1>9 DEF m
<1>11. Tail(call.pending) = SubSeq(call.path, m + 1, Len(call.path))
  BY <1>2, <1>4
<1>12. m = Len(call.below) + 1
  BY DEF m
<1> QED
  BY <1>4, <1>7, <1>8, <1>10, <1>11, <1>12

LEMMA OpenStable ==
  ASSUME NEW home, AllInv(home), Observes, Open PROVE StableInv'
<1> DEFINE name == Head(call.pending)
           object == Opens(Last(call.at), name)
           last == Len(call.pending) = 1
           parts == Append(call.below, name)
           at == Append(call.at, object)
           onward == [step |-> "stat", at |-> at, below |-> parts, pending |-> Tail(call.pending)]
<1>1. /\ UNCHANGED <<tree, policy>> /\ call.step = "open" /\ call # NoCall /\ call.pending # <<>>
  BY DEF Open, files, NoCall, AllInv, AllowedInv, WayInv
<1>2. \/ Astray
      \/ call.kind = "digest" /\ Proceeds([step |-> "return", complete |-> FALSE])
      \/ Proceeds(onward)
      \/ call.again /\ Proceeds([step |-> "return", complete |-> SameFile(object)])
      \/ last /\ Arrives(object, parts)
  BY Zenon DEF Open
<1>3. object = At(Last(call.at), name)
  BY DEF Opens
<1>4. ASSUME NEW complete, call.kind = "digest", Proceeds([step |-> "return", complete |-> complete])
      PROVE  StableInv'
  <2>1. during.expected = {}
    BY <1>4, ReadsExpectNothing
  <2>2. DOMAIN [step |-> "return", complete |-> complete] \subseteq DOMAIN NoCall \ {"kind", "workspace", "path"}
    BY DEF NoCall
  <2> QED
    BY <1>1, <1>4, <2>1, <2>2, StableNone
<1>5. call.again => call.kind = "digest"
  BY DEF AllInv, CallInv
<1>6. CASE Proceeds(onward)
  <2>1. /\ DOMAIN onward = {"step", "at", "below", "pending"} /\ onward.step = "stat" /\ onward.at = at
        /\ onward.below = parts /\ onward.pending = Tail(call.pending)
    OBVIOUS
  <2> HIDE DEF onward
  <2>2. DOMAIN onward \subseteq DOMAIN NoCall
        /\ {"step", "at", "below", "pending", "kind", "view", "path"} \subseteq DOMAIN NoCall
        /\ DOMAIN onward \subseteq DOMAIN NoCall \ {"kind", "workspace", "path"}
    BY <2>1 DEF NoCall
  <2>3. \A x \in DOMAIN NoCall : call'[x] = IF x \in DOMAIN onward THEN onward[x] ELSE call[x]
    BY <1>6, <2>2, Values DEF AllInv
  <2>4. /\ call'.step = "stat" /\ call'.at = at /\ call'.below = parts
        /\ call'.pending = Tail(call.pending)
        /\ call'.kind = call.kind /\ call'.view = call.view /\ call'.path = call.path
    BY <2>1, <2>2, <2>3
  <2>5. ASSUME NEW x \in during.expected PROVE Reached(x)'
    <3>1. MayTake(x)
      BY <1>1, Expects DEF Reached
    <3>2. /\ Len(parts) <= Len(call.path)
          /\ parts = SubSeq(x.path, 1, Len(parts))
          /\ at = SubSeq(x.above, 1, Len(parts) + 1)
          /\ Tail(call.pending) = SubSeq(call.path, Len(parts) + 1, Len(call.path))
      BY <1>1, <1>3, OneDirectoryOn
    <3> HIDE DEF parts, at
    <3>3. MayTake(x)'
      BY <1>1, <2>4, <3>1 DEF MayTake
    <3>4. OnTheWay(x)'
      BY <2>4, <3>2 DEF OnTheWay
    <3> QED
      BY <2>4, <3>3, <3>4 DEF Reached, InReach
  <2> QED
    BY <1>1, <1>6, <2>2, <2>5, StableGoes DEF AllInv
<1>7. CASE last /\ Arrives(object, parts)
  <2>1. ASSUME NEW x \in during.expected PROVE object = x.above[Len(call.path) + 1] /\ parts = call.path
    <3>1. /\ Len(call.below) \in 0..(Len(call.path) - 1) /\ object = x.above[Len(call.below) + 2]
          /\ Len(call.pending) = Len(call.path) - Len(call.below)
      BY <1>1, <1>3, FindsTheNext
    <3>2. Stable(x) /\ Len(call.path) \in Nat /\ SubSeq(x.path, 1, Len(call.path)) = call.path
      BY Expects, BaseAbove
    <3>3. Len(call.below) + 1 = Len(call.path) /\ Len(call.below) + 2 = Len(call.path) + 1
      <4> DEFINE k == Len(call.below)
                 b == Len(call.path)
                 l == Len(call.pending)
      <4>1. l = 1 /\ l = b - k /\ b \in Nat /\ k \in 0..(b - 1)
        BY <1>7, <3>1, <3>2
      <4> HIDE DEF k, b, l
      <4>2. k + 1 = b /\ k + 2 = b + 1
        BY <4>1
      <4> QED
        BY <4>2 DEF k, b
    <3>4. Len(parts) = Len(call.below) + 1 /\ parts = SubSeq(x.path, 1, Len(parts))
      BY <1>1, OneDirectoryOn
    <3> HIDE DEF parts, object
    <3>5. object = x.above[Len(call.path) + 1]
      BY <3>1, <3>3
    <3>6. Len(parts) = Len(call.path)
      BY <3>3, <3>4
    <3>7. parts = call.path
      BY <3>2, <3>4, <3>6
    <3> QED
      BY <3>5, <3>7
  <2> HIDE DEF object, parts
  <2> QED
    BY <1>1, <1>7, <2>1, ArrivesStable
<1> QED
  BY <1>1, <1>2, <1>4, <1>5, <1>6, <1>7, AstrayStable

\* A call that reads or hashes expects nothing, and goes on or ends.
LEMMA BytesStable ==
  ASSUME NEW home, AllInv(home), Observes, ReadBytes \/ HashBytes PROVE StableInv'
<1> DEFINE reads == [chunks |-> Chunks, step |-> IF Len(Chunks) = 1 THEN "bytes" ELSE "return"]
           again == [chunks |-> Chunks, step |-> "stat", again |-> TRUE, at |-> <<call.at[1]>>,
                     below |-> <<>>, hops |-> 0, pending |-> call.parts]
<1>1. /\ UNCHANGED <<tree, policy>> /\ call.step = "bytes" /\ call # NoCall /\ call.kind \in {"read", "digest"}
      /\ \/ Refused
         \/ Proceeds(reads)
         \/ Proceeds(again)
         \/ Proceeds([chunks |-> Chunks])
         \/ Proceeds([step |-> "return"])
  BY DEF ReadBytes, HashBytes, files, NoCall
<1>2. during.expected = {}
  BY <1>1, ReadsExpectNothing
<1>3. /\ DOMAIN reads \subseteq DOMAIN NoCall \ {"kind", "workspace", "path"}
      /\ DOMAIN again \subseteq DOMAIN NoCall \ {"kind", "workspace", "path"}
      /\ DOMAIN [chunks |-> Chunks] \subseteq DOMAIN NoCall \ {"kind", "workspace", "path"}
      /\ DOMAIN [step |-> "return"] \subseteq DOMAIN NoCall \ {"kind", "workspace", "path"}
  BY DEF NoCall
<1> HIDE DEF reads, again
<1> QED
  BY <1>1, <1>2, <1>3, StableNone, StableEnds DEF AllInv, Refused

-----------------------------------------------------------------------------
(* Listing.                                                                *)

\* The next name on the way to what is stable is an entry of the directory that is there.
LEMMA NextEntry ==
  ASSUME NEW home, AllowedInv(home), SpelledOnce, NEW x, Stable(x), NEW k \in Nat, k < Len(x.path)
  PROVE  /\ x.path[k + 1] \in Name /\ x.above[k + 1] \in Directory \ closed
         /\ Append(SubSeq(x.path, 1, k), x.path[k + 1]) = SubSeq(x.path, 1, k + 1)
         /\ k + 1 = Len(x.path) => /\ x.path[k + 1] \in Entries(x.above[k + 1], File)
                                   /\ SubSeq(x.path, 1, k + 1) = x.path
         /\ k + 1 # Len(x.path) => x.path[k + 1] \in Entries(x.above[k + 1], Directory)
<1> DEFINE m == k + 1
<1>1. /\ x.path \in Seq(Name) /\ Len(x.path) \in Nat
      /\ m \in 1..Len(x.path) /\ k \in 0..(Len(x.path) - 1)
  BY DEF Stable
<1>2. Append(SubSeq(x.path, 1, k), x.path[k + 1]) = SubSeq(x.path, 1, k + 1)
  BY <1>1, OneFarther
<1> HIDE DEF m
<1>3. /\ x.above[m] \in Directory \ closed /\ x.path[m] \in Name
      /\ names[x.above[m]][x.path[m]] = At(x.above[m], x.path[m])
      /\ At(x.above[m], x.path[m]) = IF m = Len(x.path) THEN x.object ELSE x.above[m + 1]
      /\ m # Len(x.path) => x.above[m + 1] \in Directory \ closed
  BY <1>1, FoundOnTheWay
<1>4. m = Len(x.path) => x.path[m] \in Entries(x.above[m], File) /\ SubSeq(x.path, 1, m) = x.path
  BY <1>1, <1>3, SubSeqFull DEF Entries, Stable
<1>5. m # Len(x.path) => x.path[m] \in Entries(x.above[m], Directory)
  BY <1>3 DEF Entries
<1> QED
  BY <1>2, <1>3, <1>4, <1>5 DEF m

LEMMA NextLeads ==
  ASSUME NEW x, Stable(x), NEW k \in Nat, k < Len(x.path),
         call.kind = "scope_search" => AllowedFrom(x, k + 1)
  PROVE  LeadsTo(Frame(IF k + 1 = Len(x.path) THEN "file" ELSE "dir", x.above[k + 1], x.path[k + 1],
                       SubSeq(x.path, 1, k + 1)), x)
<1> DEFINE m == k + 1
<1>1. m \in 1..Len(x.path)
  BY DEF Stable
<1> HIDE DEF m
<1>2. LeadsTo(Frame(IF m = Len(x.path) THEN "file" ELSE "dir", x.above[m], x.path[m],
                    SubSeq(x.path, 1, m)), x)
  BY <1>1 DEF LeadsTo, m
<1> QED
  BY <1>2 DEF m

LEMMA AmongFrames ==
  ASSUME NEW kind, NEW d, NEW parts, NEW some \in SUBSET Name, NEW n \in some, NEW x,
         LeadsTo(Frame(kind, d, n, Append(parts, n)), x)
  PROVE  Among(Frames(kind, d, parts, some), x)
<1>1. PICK i \in DOMAIN Frames(kind, d, parts, some) :
        Frames(kind, d, parts, some)[i] = Frame(kind, d, n, Append(parts, n))
  BY FramesOfAll
<1> QED
  BY <1>1 DEF Among

\* A directory on the way to what is stable, which the walk has come to.
There(x, d, parts) ==
  \E k \in Nat : k < Len(x.path) /\ d = x.above[k + 1] /\ parts = SubSeq(x.path, 1, k)

LEMMA ListTreeFinds ==
  ASSUME NEW home, AllowedInv(home), SpelledOnce, NEW x, Stable(x), MayTake(x), call.kind = "tree",
         call.parts = call.path, NEW d, NEW parts, There(x, d, parts), NEW T, NEW rest \in Seq(T),
         ListTree(d, parts, rest)
  PROVE  call'.step = "visit" /\ (Reported(x)' \/ Among(call'.todo, x))
<1> DEFINE deeper == Len(parts) - Len(call.parts) < TreeDepth
           dirs == IF deeper THEN Entries(d, Directory) ELSE {}
           into == {n \in dirs : Descends(call.view, "enumerate", Append(parts, n))}
           shown == {n \in into \cup Entries(d, File) : Allows(call.view, "enumerate", Append(parts, n))}
           hidden == (dirs \cup Entries(d, File)) \ shown
           todo == Frames("dir", d, parts, into) \o rest
           new == {[path |-> Append(parts, n), object |-> names[d][n],
                    places |-> {Append(p, n) : p \in PlacesOf(d)}] : n \in shown}
           fields == [step |-> "visit", todo |-> todo, withheld |-> call.withheld \/ hidden # {},
                      got |-> call.got \cup new]
<1>1. Proceeds(fields)
  BY DEF ListTree
<1>2. PICK k \in Nat : k < Len(x.path) /\ d = x.above[k + 1] /\ parts = SubSeq(x.path, 1, k)
  BY DEF There
<1>3. call'.step = "visit" /\ call'.todo = todo /\ call'.got = call.got \cup new
  <2>1. fields.step = "visit" /\ fields.todo = todo /\ fields.got = call.got \cup new
        /\ {"step", "todo", "got"} \subseteq DOMAIN fields
    OBVIOUS
  <2> HIDE DEF fields, todo, new
  <2> QED
    BY <1>1, <2>1 DEF Proceeds, With
<1> DEFINE n == x.path[k + 1]
<1>4. /\ n \in Name /\ Append(parts, n) = SubSeq(x.path, 1, k + 1)
      /\ k + 1 = Len(x.path) => n \in Entries(d, File) /\ SubSeq(x.path, 1, k + 1) = x.path
      /\ k + 1 # Len(x.path) => n \in Entries(d, Directory)
  BY <1>2, NextEntry
<1>5. Allows(call.view, "enumerate", x.path)
  BY DEF MayTake, OperationOf, OpensFile
<1> HIDE DEF n
<1>6. CASE k + 1 = Len(x.path)
  <2>1. n \in shown
    BY <1>4, <1>5, <1>6
  <2>2. \E g \in new : g.path = Append(parts, n)
    <3> DEFINE entry == [path |-> Append(parts, n), object |-> names[d][n],
                         places |-> {Append(p, n) : p \in PlacesOf(d)}]
    <3> HIDE DEF shown
    <3>1. entry \in new
      BY <2>1
    <3>2. entry.path = Append(parts, n)
      OBVIOUS
    <3> HIDE DEF new, entry
    <3> QED
      BY <3>1, <3>2
  <2> HIDE DEF new
  <2> QED
    BY <1>3, <1>4, <1>6, <2>2 DEF Reported
<1>7. CASE k + 1 # Len(x.path)
  <2>1. deeper
    <3>1. Len(parts) = k /\ k \in Nat /\ Len(x.path) \in Nat /\ Len(call.path) \in Nat
      <4>1. x.path \in Seq(Name) /\ Len(x.path) \in Nat /\ Len(call.path) \in Nat
        BY BaseAbove DEF Stable
      <4>2. k \in 0..Len(x.path)
        BY <1>2, <4>1
      <4> QED
        BY <1>2, <4>1, <4>2, Above
    <3>2. Len(x.path) - Len(call.path) <= TreeDepth + 1
      BY DEF Stable
    <3> DEFINE a == Len(x.path)
               b == Len(call.path)
    <3> HIDE DEF a, b
    <3>3. a \in Nat /\ b \in Nat /\ k \in Nat /\ TreeDepth \in Nat /\ a - b <= TreeDepth + 1 /\ k < a /\ k + 1 # a
      BY <1>2, <1>7, <3>1, <3>2, DepthAssumption DEF a, b
    <3>4. k - b < TreeDepth
      BY <3>3
    <3> QED
      BY <3>1, <3>4 DEF b
  <2>2. Descends(call.view, "enumerate", Append(parts, n))
    <3>1. k + 1 \in 1..Len(x.path) /\ x.path \in Seq(Name) /\ Spelled(x.path)
      BY <1>2 DEF Stable
    <3> QED
      BY <1>4, <1>5, <3>1, DescendsThere DEF AllowedInv, ViewInv
  <2>3. n \in into
    BY <1>4, <1>7, <2>1, <2>2
  <2>4. into \in SUBSET Name
    BY DEF Entries
  <2> HIDE DEF into
  <2>5. LeadsTo(Frame("dir", d, n, Append(parts, n)), x)
    BY <1>2, <1>4, <1>7, NextLeads DEF n
  <2>6. Among(Frames("dir", d, parts, into), x)
    BY <2>3, <2>4, <2>5, AmongFrames
  <2>7. PICK S : Frames("dir", d, parts, into) \in Seq(S)
    BY <2>4, FramesOfAll
  <2>8. Among(todo, x)
    BY <2>6, <2>7, AmongBoth
  <2> QED
    BY <1>3, <2>8
<1> QED
  BY <1>3, <1>6, <1>7

LEMMA ListSearchFinds ==
  ASSUME NEW home, AllowedInv(home), SpelledOnce, NEW x, Stable(x), MayTake(x), call.kind = "search",
         NEW d, NEW parts, There(x, d, parts), NEW T, NEW rest \in Seq(T),
         ListSearch(d, parts, rest)
  PROVE  call'.step = "visit" /\ Among(call'.todo, x)
<1> DEFINE dirs == Entries(d, Directory)
           into == {n \in dirs : Descends(call.view, "search", Append(parts, n))}
           one == Frames("file", d, parts, Entries(d, File))
           two == Frames("dir", d, parts, into)
           todo == one \o two \o rest
           fields == [step |-> "visit", withheld |-> call.withheld \/ into # dirs, todo |-> todo]
<1>1. Proceeds(fields)
  BY DEF ListSearch
<1>2. PICK k \in Nat : k < Len(x.path) /\ d = x.above[k + 1] /\ parts = SubSeq(x.path, 1, k)
  BY DEF There
<1>3. call'.step = "visit" /\ call'.todo = todo
  <2>1. fields.step = "visit" /\ fields.todo = todo /\ {"step", "todo"} \subseteq DOMAIN fields
    OBVIOUS
  <2> HIDE DEF fields, todo
  <2> QED
    BY <1>1, <2>1 DEF Proceeds, With
<1> DEFINE n == x.path[k + 1]
<1>4. /\ n \in Name /\ Append(parts, n) = SubSeq(x.path, 1, k + 1)
      /\ k + 1 = Len(x.path) => n \in Entries(d, File) /\ SubSeq(x.path, 1, k + 1) = x.path
      /\ k + 1 # Len(x.path) => n \in Entries(d, Directory)
  BY <1>2, NextEntry
<1>5. Allows(call.view, "search", x.path)
  BY DEF MayTake, OperationOf, OpensFile
<1>6. LeadsTo(Frame(IF k + 1 = Len(x.path) THEN "file" ELSE "dir", d, n, Append(parts, n)), x)
  BY <1>2, <1>4, NextLeads
<1> HIDE DEF n
<1>7. into \in SUBSET Name /\ Entries(d, File) \in SUBSET Name
  BY DEF Entries
<1>8. k + 1 # Len(x.path) => n \in into
  <2>1. k + 1 \in 1..Len(x.path) /\ x.path \in Seq(Name) /\ Spelled(x.path)
    BY <1>2 DEF Stable
  <2>2. Descends(call.view, "search", Append(parts, n))
    BY <1>4, <1>5, <2>1, DescendsThere DEF AllowedInv, ViewInv
  <2> QED
    BY <1>4, <2>2
<1> HIDE DEF into
<1>9. Among(one, x) \/ Among(two, x)
  <2>1. CASE k + 1 = Len(x.path)
    BY <1>4, <1>6, <1>7, <2>1, AmongFrames
  <2>2. CASE k + 1 # Len(x.path)
    BY <1>6, <1>7, <1>8, <2>2, AmongFrames
  <2> QED
    BY <2>1, <2>2
<1>10. PICK S : one \in Seq(S)
  BY <1>7, FramesOfAll
<1>11. PICK U : two \in Seq(U)
  BY <1>7, FramesOfAll
<1>12. todo = one \o (two \o rest)
  <2> DEFINE all == S \cup U \cup T
  <2>1. one \in Seq(all) /\ two \in Seq(all) /\ rest \in Seq(all)
    BY <1>10, <1>11, SeqMonotonic
  <2> HIDE DEF one, two, all
  <2> QED
    BY <2>1, ConcatAssociative
<1> HIDE DEF one, two, todo
<1>13. two \o rest \in Seq(U \cup T)
  BY <1>11, SeqMonotonic, ConcatProperties
<1>14. Among(one \o (two \o rest), x)
  BY <1>9, <1>10, <1>11, <1>13, AmongBoth
<1> QED
  BY <1>3, <1>12, <1>14

\* What a listing changes.
LEMMA ListChanges ==
  ASSUME CallInv, NEW d, NEW parts, NEW T, NEW rest \in Seq(T), List(d, parts, rest)
  PROVE  \E fields :
           /\ Proceeds(fields) /\ DOMAIN fields \subseteq {"step", "todo", "withheld", "got"}
           /\ \E S : \E s \in Seq(S) : call'.todo = s \o rest
           /\ call'.step = "visit" /\ call.got \subseteq call'.got
           /\ call'.kind = call.kind /\ call'.view = call.view /\ call'.path = call.path
           /\ call'.parts = call.parts /\ call'.cut = call.cut /\ call'.skipped = call.skipped
<1>1. ASSUME NEW fields, Proceeds(fields), DOMAIN fields \subseteq {"step", "todo", "withheld", "got"},
             {"step", "todo"} \subseteq DOMAIN fields, fields.step = "visit",
             "got" \in DOMAIN fields => call.got \subseteq fields.got,
             NEW S, NEW s \in Seq(S), fields.todo = s \o rest
      PROVE  /\ \E U : \E u \in Seq(U) : call'.todo = u \o rest
             /\ call'.step = "visit" /\ call.got \subseteq call'.got
             /\ call'.kind = call.kind /\ call'.view = call.view /\ call'.path = call.path
             /\ call'.parts = call.parts /\ call'.cut = call.cut /\ call'.skipped = call.skipped
  <2>1. DOMAIN fields \subseteq DOMAIN NoCall
        /\ {"step", "todo", "got", "kind", "view", "path", "parts", "cut", "skipped"} \subseteq DOMAIN NoCall
    BY <1>1 DEF NoCall
  <2>2. \A x \in DOMAIN NoCall : call'[x] = IF x \in DOMAIN fields THEN fields[x] ELSE call[x]
    BY <1>1, <2>1, Values
  <2>3. call'.todo = s \o rest /\ call'.step = "visit"
    BY <1>1, <2>1, <2>2
  <2>4. call.got \subseteq call'.got
    BY <1>1, <2>1, <2>2
  <2>5. /\ call'.kind = call.kind /\ call'.view = call.view /\ call'.path = call.path
        /\ call'.parts = call.parts /\ call'.cut = call.cut /\ call'.skipped = call.skipped
    BY <1>1, <2>1, <2>2
  <2> QED
    BY <2>3, <2>4, <2>5
<1>2. CASE call.kind = "tree"
  <2> DEFINE deeper == Len(parts) - Len(call.parts) < TreeDepth
             dirs == IF deeper THEN Entries(d, Directory) ELSE {}
             into == {n \in dirs : Descends(call.view, "enumerate", Append(parts, n))}
             shown == {n \in into \cup Entries(d, File) : Allows(call.view, "enumerate", Append(parts, n))}
             hidden == (dirs \cup Entries(d, File)) \ shown
             some == Frames("dir", d, parts, into)
             new == {[path |-> Append(parts, n), object |-> names[d][n],
                      places |-> {Append(p, n) : p \in PlacesOf(d)}] : n \in shown}
             fields == [step |-> "visit", todo |-> some \o rest, withheld |-> call.withheld \/ hidden # {},
                        got |-> call.got \cup new]
  <2>1. Proceeds(fields)
    BY <1>2 DEF List, ListTree
  <2>2. into \in SUBSET Name
    BY DEF Entries
  <2>3. PICK S : some \in Seq(S)
    BY <2>2, FramesOfAll
  <2>4. /\ fields.step = "visit" /\ fields.todo = some \o rest /\ call.got \subseteq fields.got
        /\ DOMAIN fields = {"step", "todo", "withheld", "got"}
    OBVIOUS
  <2> HIDE DEF fields, some
  <2> QED
    BY <1>1, <2>1, <2>3, <2>4
<1>3. CASE call.kind # "tree"
  <2> DEFINE dirs == Entries(d, Directory)
             into == {n \in dirs : Descends(call.view, "search", Append(parts, n))}
             one == Frames("file", d, parts, Entries(d, File))
             two == Frames("dir", d, parts, into)
             fields == [step |-> "visit", withheld |-> call.withheld \/ into # dirs, todo |-> one \o two \o rest]
  <2>1. Proceeds(fields)
    BY <1>3 DEF List, ListSearch
  <2>2. into \in SUBSET Name /\ Entries(d, File) \in SUBSET Name
    BY DEF Entries
  <2>3. PICK S : one \in Seq(S)
    BY <2>2, FramesOfAll
  <2>4. PICK U : two \in Seq(U)
    BY <2>2, FramesOfAll
  <2>5. one \o two \in Seq(S \cup U)
    BY <2>3, <2>4, SeqMonotonic, ConcatProperties
  <2>6. /\ fields.step = "visit" /\ fields.todo = (one \o two) \o rest
        /\ DOMAIN fields = {"step", "todo", "withheld"}
    OBVIOUS
  <2> HIDE DEF fields, one, two
  <2> QED
    BY <1>1, <2>1, <2>5, <2>6
<1> QED
  BY <1>2, <1>3

LEMMA ListStable ==
  ASSUME NEW home, AllInv(home), UNCHANGED <<tree, policy>>, Observes,
         call.step \in {"list", "visit"}, call.kind \in {"tree", "search"},
         NEW d, NEW parts, NEW T, NEW rest \in Seq(T), List(d, parts, rest),
         \A x \in during.expected :
           ~call.cut /\ ~call.skipped => Reported(x) \/ Among(rest, x) \/ There(x, d, parts)
  PROVE  StableInv'
<1>1. PICK fields :
        /\ Proceeds(fields) /\ DOMAIN fields \subseteq {"step", "todo", "withheld", "got"}
        /\ \E S : \E s \in Seq(S) : call'.todo = s \o rest
        /\ call'.step = "visit" /\ call.got \subseteq call'.got
        /\ call'.kind = call.kind /\ call'.view = call.view /\ call'.path = call.path
        /\ call'.parts = call.parts /\ call'.cut = call.cut /\ call'.skipped = call.skipped
  BY ListChanges DEF AllInv
<1>2. ASSUME NEW x \in during.expected PROVE Reached(x)'
  <2>1. Stable(x) /\ Reached(x) /\ SpelledOnce
    BY Expects
  <2>2. MayTake(x)
    BY <2>1 DEF Reached
  <2>3. MayTake(x)'
    BY <1>1, <2>2 DEF MayTake
  <2>4. call.kind = "tree" => call.parts = call.path
    BY <2>1 DEF Reached
  <2>5. ASSUME ~call'.cut, ~call'.skipped PROVE Reported(x)' \/ Among(call'.todo, x)
    <3>1. Reported(x) => Reported(x)'
      BY <1>1 DEF Reported
    <3>2. ASSUME Among(rest, x) PROVE Among(call'.todo, x)
      <4>1. PICK S : \E s \in Seq(S) : call'.todo = s \o rest
        BY <1>1
      <4>2. PICK s \in Seq(S) : call'.todo = s \o rest
        BY <4>1
      <4>3. Among(s \o rest, x)
        BY <3>2, AmongBoth
      <4> QED
        BY <4>2, <4>3
    <3>3. ASSUME There(x, d, parts) PROVE Reported(x)' \/ Among(call'.todo, x)
      <4>1. CASE call.kind = "tree"
        <5>1. ListTree(d, parts, rest)
          BY <4>1 DEF List
        <5> QED
          BY <2>1, <2>2, <2>4, <3>3, <4>1, <5>1, ListTreeFinds DEF AllInv
      <4>2. CASE call.kind = "search"
        <5>1. ListSearch(d, parts, rest)
          BY <4>2 DEF List
        <5> QED
          BY <2>1, <2>2, <3>3, <4>2, <5>1, ListSearchFinds DEF AllInv
      <4> QED
        BY <4>1, <4>2
    <3> QED
      BY <1>1, <2>5, <3>1, <3>2, <3>3
  <2>6. InReach(x)'
    BY <1>1, <2>5, AmongStill DEF InReach
  <2> QED
    BY <1>1, <2>3, <2>4, <2>6 DEF Reached
<1>3. call # NoCall /\ DOMAIN fields \subseteq DOMAIN NoCall \ {"kind", "workspace", "path"}
  BY <1>1 DEF NoCall
<1> QED
  BY <1>1, <1>2, <1>3, StableGoes DEF AllInv

LEMMA ListBaseStable ==
  ASSUME NEW home, AllInv(home), Observes, ListBase PROVE StableInv'
<1>1. UNCHANGED <<tree, policy>> /\ call.step = "list" /\ List(call.held, call.parts, <<>>)
  BY DEF ListBase, files
<1>2. call.kind \in Kind
  BY <1>1 DEF AllInv, AllowedInv, KindInv, ReaderSteps
<1>3. <<>> \in Seq({})
  BY EmptySeq
<1>4. ASSUME NEW x \in during.expected PROVE There(x, call.held, call.parts) /\ call.kind \in {"tree", "search"}
  <2>1. Stable(x) /\ Reached(x)
    BY Expects
  <2>2. /\ Len(call.path) \in Nat /\ Len(call.path) < Len(x.path)
        /\ SubSeq(x.path, 1, Len(call.path)) = call.path
    BY <2>1, BaseAbove
  <2>3. call.held = x.above[Len(call.path) + 1] /\ call.parts = call.path
    BY <1>1, <2>1 DEF Reached
  <2>4. There(x, call.held, call.parts)
    BY <2>2, <2>3 DEF There
  <2> QED
    BY <1>2, <2>1, <2>4 DEF Stable, Kind
<1>5. CASE during.expected # {}
  BY <1>1, <1>3, <1>4, <1>5, ListStable
<1>6. CASE during.expected = {}
  <2>1. PICK fields : Proceeds(fields) /\ DOMAIN fields \subseteq {"step", "todo", "withheld", "got"}
    BY <1>1, <1>3, ListChanges DEF AllInv
  <2>2. call # NoCall /\ DOMAIN fields \subseteq DOMAIN NoCall \ {"kind", "workspace", "path"}
    BY <1>1, <2>1 DEF NoCall
  <2> QED
    BY <1>1, <1>6, <2>1, <2>2, StableNone
<1> QED
  BY <1>5, <1>6

\* What a frame is that leads to what is stable.
LEMMA LeadsByKind ==
  ASSUME NEW frame, NEW x, LeadsTo(frame, x)
  PROVE  /\ frame.kind # "pocket" =>
              \E k \in 1..Len(x.path) :
                /\ frame.kind = IF k = Len(x.path) THEN "file" ELSE "dir"
                /\ frame.directory = x.above[k] /\ frame.name = x.path[k]
                /\ frame.parts = SubSeq(x.path, 1, k)
                /\ call.kind = "scope_search" => AllowedFrom(x, k)
         /\ frame.kind = "pocket" =>
              \E k \in 1..Len(x.path) : \E j \in k..Len(x.path) :
                /\ frame.directory = x.above[k] /\ frame.name = SubSeq(x.path, k, j)
                /\ frame.parts = SubSeq(x.path, 1, j) /\ AllowedFrom(x, j)
<1>1. \A kind, d, n, parts : /\ Frame(kind, d, n, parts).kind = kind
                             /\ Frame(kind, d, n, parts).directory = d
                             /\ Frame(kind, d, n, parts).name = n
                             /\ Frame(kind, d, n, parts).parts = parts
  BY DEF Frame
<1>2. PICK k \in 1..Len(x.path) :
    \/ /\ frame = Frame(IF k = Len(x.path) THEN "file" ELSE "dir", x.above[k], x.path[k],
                        SubSeq(x.path, 1, k))
       /\ call.kind = "scope_search" => AllowedFrom(x, k)
    \/ \E j \in k..Len(x.path) :
         /\ frame = Frame("pocket", x.above[k], SubSeq(x.path, k, j), SubSeq(x.path, 1, j))
         /\ AllowedFrom(x, j)
  BY DEF LeadsTo
<1>3. CASE /\ frame = Frame(IF k = Len(x.path) THEN "file" ELSE "dir", x.above[k], x.path[k],
                            SubSeq(x.path, 1, k))
           /\ call.kind = "scope_search" => AllowedFrom(x, k)
  <2> DEFINE kind == IF k = Len(x.path) THEN "file" ELSE "dir"
             d == x.above[k]
             n == x.path[k]
             parts == SubSeq(x.path, 1, k)
  <2>1. kind # "pocket"
    OBVIOUS
  <2>2. frame = Frame(kind, d, n, parts)
    BY <1>3
  <2> HIDE DEF kind, d, n, parts
  <2>3. frame.kind = kind /\ frame.directory = d /\ frame.name = n /\ frame.parts = parts
    BY <1>1, <2>2
  <2>4. call.kind = "scope_search" => AllowedFrom(x, k)
    BY <1>3
  <2>5. /\ frame.kind = IF k = Len(x.path) THEN "file" ELSE "dir"
        /\ frame.directory = x.above[k] /\ frame.name = x.path[k]
        /\ frame.parts = SubSeq(x.path, 1, k)
    BY <2>3 DEF kind, d, n, parts
  <2>6. frame.kind # "pocket"
    BY <2>1, <2>3
  <2> QED
    BY <2>4, <2>5, <2>6
<1>4. ASSUME NEW j \in k..Len(x.path), AllowedFrom(x, j),
             frame = Frame("pocket", x.above[k], SubSeq(x.path, k, j), SubSeq(x.path, 1, j))
      PROVE  /\ frame.kind = "pocket" /\ frame.directory = x.above[k] /\ frame.name = SubSeq(x.path, k, j)
             /\ frame.parts = SubSeq(x.path, 1, j)
  <2> DEFINE d == x.above[k]
             n == SubSeq(x.path, k, j)
             parts == SubSeq(x.path, 1, j)
  <2>1. frame = Frame("pocket", d, n, parts)
    BY <1>4
  <2> HIDE DEF d, n, parts
  <2>2. frame.kind = "pocket" /\ frame.directory = d /\ frame.name = n /\ frame.parts = parts
    BY <1>1, <2>1
  <2> QED
    BY <2>2 DEF d, n, parts
<1>5. CASE \E j \in k..Len(x.path) :
             /\ frame = Frame("pocket", x.above[k], SubSeq(x.path, k, j), SubSeq(x.path, 1, j))
             /\ AllowedFrom(x, j)
  <2>1. PICK j \in k..Len(x.path) :
             /\ frame = Frame("pocket", x.above[k], SubSeq(x.path, k, j), SubSeq(x.path, 1, j))
             /\ AllowedFrom(x, j)
    BY <1>5
  <2>2. /\ frame.kind = "pocket" /\ frame.directory = x.above[k] /\ frame.name = SubSeq(x.path, k, j)
        /\ frame.parts = SubSeq(x.path, 1, j)
    BY <1>4, <2>1
  <2> QED
    BY <2>1, <2>2
<1> QED
  BY <1>2, <1>3, <1>5

LEMMA EnterDirectoryStable ==
  ASSUME NEW home, AllInv(home), Observes, EnterDirectory PROVE StableInv'
<1> DEFINE frame == Head(call.todo)
           rest == Tail(call.todo)
           object == Opens(frame.directory, frame.name)
           T == ToVisit(home, call.kind, call.view)
<1>1. /\ UNCHANGED <<tree, policy>> /\ call.step = "visit" /\ call.todo # <<>> /\ frame.kind = "dir"
      /\ call.kind \in {"tree", "search"} /\ call # NoCall
      /\ IF object \in Directory \ closed /\ frame.directory \notin closed
         THEN List(object, frame.parts, rest) ELSE Proceeds([todo |-> rest])
  BY DEF EnterDirectory, files, NoCall
<1>2. call.todo \in Seq(T) /\ rest \in Seq(T)
  BY <1>1, VisitsNext DEF AllInv, AllowedInv, TodoInv
<1>3. ASSUME NEW x \in during.expected, LeadsTo(frame, x)
      PROVE  /\ object \in Directory \ closed /\ frame.directory \notin closed
             /\ There(x, object, frame.parts)
  <2>1. PICK k \in 1..Len(x.path) :
          /\ frame.kind = IF k = Len(x.path) THEN "file" ELSE "dir"
          /\ frame.directory = x.above[k] /\ frame.name = x.path[k] /\ frame.parts = SubSeq(x.path, 1, k)
    BY <1>1, <1>3, LeadsByKind
  <2>2. k # Len(x.path)
    BY <1>1, <2>1
  <2>3. frame.directory = x.above[k] /\ frame.name = x.path[k] /\ frame.parts = SubSeq(x.path, 1, k)
    BY <2>1
  <2>4. Stable(x) /\ SpelledOnce
    BY Expects
  <2>5. x.above[k] \notin closed /\ At(x.above[k], x.path[k]) = x.above[k + 1] /\ x.above[k + 1] \in Directory \ closed
    BY <2>2, <2>4, FoundOnTheWay DEF AllInv
  <2> HIDE DEF frame
  <2>6. object = x.above[k + 1]
    BY <2>3, <2>5 DEF Opens
  <2>7. There(x, object, frame.parts)
    <3>1. k \in Nat /\ k < Len(x.path)
      BY <2>2, <2>4 DEF Stable
    <3> QED
      BY <3>1, <2>3, <2>6 DEF There
  <2> QED
    BY <2>3, <2>5, <2>6, <2>7
<1> HIDE DEF frame, rest, object
<1>4. CASE List(object, frame.parts, rest) /\ object \in Directory \ closed /\ frame.directory \notin closed
  <2>1. ASSUME NEW x \in during.expected, ~call.cut, ~call.skipped
        PROVE  Reported(x) \/ Among(rest, x) \/ There(x, object, frame.parts)
    <3>1. Reached(x) /\ Stable(x)
      BY Expects
    <3>2. Reported(x) \/ Among(call.todo, x)
      BY <1>1, <2>1, <3>1 DEF Reached, InReach, Batched
    <3>3. Among(call.todo, x) => LeadsTo(frame, x) \/ Among(rest, x)
      BY <1>1, <1>2, FirstOrRest DEF frame, rest
    <3> QED
      BY <1>3, <3>2, <3>3
  <2> QED
    BY <1>1, <1>2, <1>4, <2>1, ListStable
<1>5. CASE Proceeds([todo |-> rest]) /\ ~(object \in Directory \ closed /\ frame.directory \notin closed)
  <2>1. ASSUME NEW x \in during.expected, Stable(x), Reached(x), SpelledOnce PROVE InReach(x)'
    <3>1. ~LeadsTo(frame, x)
      BY <1>3, <1>5, <2>1
    <3>2. /\ call'.todo = rest /\ call'.step = "visit" /\ call'.kind = call.kind /\ call'.view = call.view
          /\ call'.got = call.got /\ call'.cut = call.cut /\ call'.skipped = call.skipped
      BY <1>1, <1>5 DEF Proceeds, With, AllInv, CallInv, NoCall
    <3> QED
      BY <1>1, <2>1, <3>1, <3>2, StillComing DEF frame, rest
  <2> QED
    BY <1>1, <1>5, <2>1, StableWalks
<1> QED
  BY <1>1, <1>4, <1>5

\* The frame of a file leads to that file only.
LEMMA FileLeads ==
  ASSUME NEW home, AllInv(home), NEW x \in during.expected, NEW frame, LeadsTo(frame, x), frame.kind = "file"
  PROVE  /\ frame.parts = x.path /\ frame.directory \notin closed
         /\ Opens(frame.directory, frame.name) = x.object
         /\ x.object \in File \ closed /\ x.links = Links(x.object)
         /\ call.kind # "tree" => Holds(x.object)
<1>1. PICK k \in 1..Len(x.path) :
        /\ frame.kind = IF k = Len(x.path) THEN "file" ELSE "dir"
        /\ frame.directory = x.above[k] /\ frame.name = x.path[k] /\ frame.parts = SubSeq(x.path, 1, k)
  BY LeadsByKind
<1>2. k = Len(x.path)
  BY <1>1
<1>3. Stable(x) /\ SpelledOnce
  BY Expects
<1>4. x.above[k] \notin closed /\ At(x.above[k], x.path[k]) = x.object
  BY <1>2, <1>3, FoundOnTheWay DEF AllInv
<1>5. Opens(frame.directory, frame.name) = x.object
  BY <1>1, <1>4 DEF Opens
<1>6. SubSeq(x.path, 1, k) = x.path
  BY <1>2, <1>3, SubSeqFull DEF Stable
<1> QED
  BY <1>1, <1>3, <1>4, <1>5, <1>6 DEF Stable

LEMMA SearchFileStable ==
  ASSUME NEW home, AllInv(home), Observes, SearchFile PROVE StableInv'
<1> DEFINE frame == Head(call.todo)
           rest == Tail(call.todo)
           object == Opens(frame.directory, frame.name)
           found == call.got \cup {Taken(frame.parts, object)}
           refuses == RefusesOtherNames(call.view, "search", Links(object))
           none == [withheld |-> TRUE, todo |-> rest]
           error == [skipped |-> TRUE, todo |-> rest]
           next == [todo |-> rest]
           finds == [got |-> found, todo |-> rest]
<1>1. /\ UNCHANGED <<tree, policy>> /\ call.step = "visit" /\ call.todo # <<>> /\ frame.kind = "file"
      /\ call.kind = "search" /\ call # NoCall
  BY DEF SearchFile, files, NoCall
<1>2. \/ (~Allows(call.view, "search", frame.parts) \/ refuses) /\ Proceeds(none)
      \/ Proceeds(error)
      \/ (object \notin File \/ ~Holds(object)) /\ Proceeds(next)
      \/ Proceeds(finds)
  BY Zenon DEF SearchFile
<1>3. ASSUME NEW x \in during.expected, LeadsTo(frame, x)
      PROVE  /\ frame.parts = x.path /\ Allows(call.view, "search", frame.parts) /\ ~refuses
             /\ object \in File /\ Holds(object)
  <2>1. /\ frame.parts = x.path /\ object = x.object /\ x.object \in File /\ x.links = Links(x.object)
        /\ Holds(x.object)
    BY <1>1, <1>3, FileLeads
  <2>2. MayTake(x)
    BY <1>1, Expects DEF Reached
  <2>3. OperationOf(call.kind) = "search" /\ call.kind # "tree"
    BY <1>1 DEF OperationOf, OpensFile
  <2> HIDE DEF frame, object
  <2> QED
    BY <2>1, <2>2, <2>3 DEF MayTake
<1>4. /\ DOMAIN none = {"withheld", "todo"} /\ none.todo = rest
      /\ DOMAIN error = {"skipped", "todo"} /\ error.todo = rest /\ error.skipped = TRUE
      /\ DOMAIN next = {"todo"} /\ next.todo = rest
      /\ DOMAIN finds = {"got", "todo"} /\ finds.todo = rest /\ finds.got = found
  OBVIOUS
<1>5. Taken(frame.parts, object).path = frame.parts
  BY DEF Taken
<1> HIDE DEF frame, rest, object, refuses, none, error, next, finds
<1>6. ASSUME NEW fields, Proceeds(fields), DOMAIN fields \subseteq {"withheld", "skipped", "got", "todo"},
             "todo" \in DOMAIN fields, fields.todo = rest,
             "got" \in DOMAIN fields => call.got \subseteq fields.got,
             "skipped" \in DOMAIN fields => fields.skipped = TRUE,
             ASSUME NEW x \in during.expected, LeadsTo(frame, x), "skipped" \notin DOMAIN fields
             PROVE  "got" \in DOMAIN fields /\ \E g \in fields.got : g.path = x.path
      PROVE  StableInv'
  <2>1. DOMAIN fields \subseteq DOMAIN NoCall
        /\ {"step", "todo", "got", "batch", "kind", "view", "cut", "skipped"} \subseteq DOMAIN NoCall
    BY <1>6 DEF NoCall
  <2>2. \A f \in DOMAIN NoCall : call'[f] = IF f \in DOMAIN fields THEN fields[f] ELSE call[f]
    BY <1>6, <2>1, Values DEF AllInv
  <2>3. call'.todo = rest /\ call.got \subseteq call'.got /\ (call'.skipped \/ call'.skipped = call.skipped)
    BY <1>6, <2>1, <2>2
  <2>4. /\ call'.step = "visit" /\ call'.kind = call.kind /\ call'.view = call.view /\ call'.cut = call.cut
        /\ call'.batch = call.batch
    BY <1>1, <1>6, <2>1, <2>2
  <2>5. ASSUME NEW x \in during.expected, Stable(x), Reached(x), SpelledOnce PROVE InReach(x)'
    <3>1. ASSUME LeadsTo(frame, x), ~call'.skipped PROVE Reported(x)'
      <4>1. "skipped" \notin DOMAIN fields
        BY <1>6, <2>1, <2>2, <3>1
      <4>2. "got" \in DOMAIN fields /\ \E g \in fields.got : g.path = x.path
        BY <1>6, <2>5, <3>1, <4>1
      <4>3. call'.got = fields.got
        BY <2>1, <2>2, <4>2
      <4> QED
        BY <4>2, <4>3 DEF Reported
    <3> QED
      BY <1>1, <2>3, <2>4, <2>5, <3>1, StillComing DEF frame, rest
  <2> QED
    BY <1>1, <1>6, <2>5, StableWalks
<1>7. CASE (~Allows(call.view, "search", frame.parts) \/ refuses) /\ Proceeds(none)
  BY <1>3, <1>4, <1>6, <1>7
<1>8. CASE Proceeds(error)
  BY <1>4, <1>6, <1>8
<1>9. CASE (object \notin File \/ ~Holds(object)) /\ Proceeds(next)
  BY <1>3, <1>4, <1>6, <1>9
<1>10. CASE Proceeds(finds)
  <2>1. ASSUME NEW x \in during.expected, LeadsTo(frame, x) PROVE \E g \in found : g.path = x.path
    BY <1>3, <1>5, <2>1
  <2>2. call.got \subseteq found
    OBVIOUS
  <2> HIDE DEF found
  <2> QED
    BY <1>4, <1>6, <1>10, <2>1, <2>2
<1> QED
  BY <1>2, <1>7, <1>8, <1>9, <1>10

LEMMA WalkStopsStable ==
  ASSUME NEW home, AllInv(home), Observes, Limit \/ WalkEnds PROVE StableInv'
<1> DEFINE cut == [step |-> "return", cut |-> TRUE, todo |-> <<>>]
           ends == [step |-> "return"]
<1>1. /\ UNCHANGED <<tree, policy>> /\ call.step = "visit" /\ call.kind \in {"tree", "search"} /\ call # NoCall
      /\ Proceeds(cut) \/ (call.todo = <<>> /\ Proceeds(ends))
  BY DEF Limit, WalkEnds, files, NoCall
<1>2. CASE Proceeds(cut)
  <2>1. call'.cut
    BY <1>2 DEF Proceeds, With
  <2>2. \A x : InReach(x)'
    BY <2>1 DEF InReach
  <2>3. DOMAIN cut = {"step", "cut", "todo"} /\ cut.step = "return"
    OBVIOUS
  <2> HIDE DEF cut
  <2> QED
    BY <1>1, <1>2, <2>2, <2>3, StableWalks
<1>3. CASE call.todo = <<>> /\ Proceeds(ends)
  <2>1. call'.step = "return" /\ call'.got = call.got /\ call'.cut = call.cut /\ call'.skipped = call.skipped
    BY <1>3 DEF Proceeds, With, AllInv, CallInv, NoCall
  <2>2. ASSUME NEW x \in during.expected, Stable(x), Reached(x), SpelledOnce PROVE InReach(x)'
    <3>1. ~Among(call.todo, x) /\ ~Batched(x)
      BY <1>1, <1>3, EmptySeq DEF Among, Batched
    <3> QED
      BY <1>1, <2>1, <2>2, <3>1 DEF Reached, InReach, Reported
  <2>3. DOMAIN ends = {"step"} /\ ends.step = "return"
    OBVIOUS
  <2> HIDE DEF ends
  <2> QED
    BY <1>1, <1>3, <2>2, <2>3, StableWalks
<1> QED
  BY <1>1, <1>2, <1>3

LEMMA ReturnStable ==
  ASSUME NEW home, AllInv(home), Observes, Return \/ Done PROVE StableInv'
<1> DEFINE ends == [step |-> "answered"]
<1>1. /\ UNCHANGED <<tree, policy>>
      /\ Refused \/ (call.step = "return" /\ call # NoCall /\ Proceeds(ends))
  BY DEF Return, Done, files, NoCall
<1>2. CASE Refused
  BY <1>1, <1>2, StableEnds DEF AllInv, Refused
<1>3. CASE call.step = "return" /\ call # NoCall /\ Proceeds(ends)
  <2>1. call'.step = "answered" /\ call'.got = call.got /\ call'.cut = call.cut /\ call'.skipped = call.skipped
    BY <1>3 DEF Proceeds, With, AllInv, CallInv, NoCall
  <2>2. ASSUME NEW x \in during.expected, Stable(x), Reached(x), SpelledOnce PROVE InReach(x)'
    BY <1>3, <2>1, <2>2 DEF Reached, InReach, Reported
  <2>3. DOMAIN ends = {"step"} /\ ends.step = "answered"
    OBVIOUS
  <2> HIDE DEF ends
  <2> QED
    BY <1>1, <1>3, <2>2, <2>3, StableWalks
<1> QED
  BY <1>1, <1>2, <1>3

-----------------------------------------------------------------------------
(* One lemma for each operation of a search of a scope.                    *)

LEMMA FirstViewStable ==
  ASSUME NEW home, AllInv(home), Observes, TakeView \/ Snapshot PROVE StableInv'
<1>1. CASE TakeView
  <2>1. UNCHANGED <<tree, policy>> /\ call.step = "view"
    BY <1>1 DEF TakeView, files
  <2>2. call.workspace \in {"static", "derived"}
    BY <2>1 DEF AllInv, AllowedInv, KindInv, ReaderSteps, Workspace
  <2>3. PathPolicy(call.workspace) = ViewNow
    BY <2>2 DEF PathPolicy, ViewNow
  <2>4. Proceeds([step |-> "session", view |-> ViewNow])
    BY <1>1, <2>3 DEF TakeView
  <2> QED
    BY <2>1, <2>4, ViewStable
<1>2. CASE Snapshot
  <2>1. UNCHANGED <<tree, policy>> /\ call.step = "snapshot"
    BY <1>2 DEF Snapshot, files
  <2>2. call.workspace = None /\ call.path = <<>>
    BY <2>1 DEF AllInv, AllowedInv, KindInv, ScopeSteps
  <2>3. Beneath(Loaded(policy), call.path) = ViewNow
    BY <2>2, NoneAssumption DEF ViewNow, Workspace
  <2>4. Proceeds([step |-> "may", view |-> ViewNow])
    BY <1>2, <2>3 DEF Snapshot
  <2> QED
    BY <2>1, <2>4, ViewStable
<1> QED
  BY <1>1, <1>2

LEMMA MayScopeStable ==
  ASSUME NEW home, AllInv(home), Observes, MayScope PROVE StableInv'
<1> DEFINE on == [step |-> "scan"]
<1>1. /\ UNCHANGED <<tree, policy>> /\ call.step = "may" /\ call # NoCall
      /\ Refused \/ Proceeds(on)
  BY DEF MayScope, files, NoCall
<1>2. CASE Refused
  BY <1>1, <1>2, StableEnds DEF AllInv, Refused
<1>3. CASE Proceeds(on)
  <2>1. call'.step = "scan"
    BY <1>3 DEF Proceeds, With
  <2>2. \A x : InReach(x)'
    BY <2>1 DEF InReach
  <2>3. DOMAIN on = {"step"} /\ on.step = "scan"
    OBVIOUS
  <2> HIDE DEF on
  <2> QED
    BY <1>1, <1>3, <2>2, <2>3, StableWalks
<1> QED
  BY <1>1, <1>2, <1>3

\* What is visited of a directory leads to all that is allowed from there on.
LEMMA VisitsFind ==
  ASSUME NEW home, AllowedInv(home), SpelledOnce, NEW x, Stable(x), call.kind = "scope_search",
         NEW k \in Nat, k < Len(x.path), AllowedFrom(x, k + 1)
  PROVE  Among(Visits(x.above[k + 1], SubSeq(x.path, 1, k)), x)
<1> DEFINE d == x.above[k + 1]
           n == x.path[k + 1]
           parts == SubSeq(x.path, 1, k)
           kind == IF names[d][n] \in File THEN "file" ELSE "dir"
<1>1. /\ n \in Name /\ Append(parts, n) = SubSeq(x.path, 1, k + 1)
      /\ k + 1 = Len(x.path) => n \in Entries(d, File)
      /\ k + 1 # Len(x.path) => n \in Entries(d, Directory)
  BY NextEntry
<1>2. Allows(call.view, "scope_search", Append(parts, n))
  <2>1. k + 1 \in (k + 1)..Len(x.path)
    BY DEF Stable
  <2>2. OperationOf(call.kind) = "scope_search"
    BY DEF OperationOf, OpensFile
  <2> QED
    BY <1>1, <2>1, <2>2 DEF AllowedFrom
<1>3. LeadsTo(Frame(IF k + 1 = Len(x.path) THEN "file" ELSE "dir", d, n, Append(parts, n)), x)
  BY <1>1, NextLeads
<1> HIDE DEF d, n, parts
<1>4. n \in Considered(d, parts)
  BY <1>1, <1>2 DEF Considered, Entries
<1>5. kind = IF k + 1 = Len(x.path) THEN "file" ELSE "dir"
  BY <1>1, TreeAssumption DEF Entries
<1>6. PICK i \in DOMAIN Visits(d, parts) : Visits(d, parts)[i] = Frame(kind, d, n, Append(parts, n))
  BY <1>4, VisitsOfAll
<1> QED
  BY <1>3, <1>5, <1>6 DEF Among, d, parts

LEMMA ScanStable ==
  ASSUME NEW home, AllInv(home), Observes, Scan PROVE StableInv'
<1> DEFINE cut == [step |-> "filter", cut |-> TRUE]
           visits == [step |-> "visit", todo |-> Visits(top, <<>>) \o PocketVisits(top)]
<1>1. /\ UNCHANGED <<tree, policy>> /\ call.step = "scan" /\ call # NoCall
      /\ Proceeds(cut) \/ Proceeds(visits)
  BY DEF Scan, files, NoCall
<1>2. call.kind = "scope_search"
  BY <1>1 DEF AllInv, AllowedInv, KindInv, ScopeSteps
<1>3. CASE Proceeds(cut)
  <2>1. call'.cut
    BY <1>3 DEF Proceeds, With
  <2>2. \A x : InReach(x)'
    BY <2>1 DEF InReach
  <2>3. DOMAIN cut = {"step", "cut"} /\ cut.step = "filter"
    OBVIOUS
  <2> HIDE DEF cut
  <2> QED
    BY <1>1, <1>3, <2>2, <2>3, StableWalks
<1>4. CASE Proceeds(visits)
  <2>1. DOMAIN visits = {"step", "todo"} /\ visits.step = "visit"
        /\ visits.todo = Visits(top, <<>>) \o PocketVisits(top)
    OBVIOUS
  <2> HIDE DEF visits
  <2>2. /\ call'.todo = Visits(top, <<>>) \o PocketVisits(top)
        /\ call'.step = "visit" /\ call'.kind = call.kind /\ call'.view = call.view
    BY <1>4, <2>1 DEF Proceeds, With, AllInv, CallInv, NoCall
  <2>3. IsFiniteSet(DOMAIN call.view) /\ DOMAIN call.view \subseteq Scope
    BY DEF AllInv, AllowedInv, ViewInv
  <2>4. ASSUME NEW x \in during.expected, Stable(x), Reached(x), SpelledOnce PROVE InReach(x)'
    <3>1. MayTake(x)
      BY <1>1, <2>4 DEF Reached
    <3>2. /\ Allows(call.view, "scope_search", x.path) /\ OperationOf(call.kind) = "scope_search"
      BY <1>2, <3>1 DEF MayTake, OperationOf, OpensFile
    <3>3. x.path \in Seq(Name) /\ x.path # <<>> /\ Spelled(x.path) /\ Len(x.path) \in Nat /\ Len(x.path) # 0
          /\ x.above[1] = top
      BY <2>4, EmptySeq DEF Stable
    <3>4. PICK m \in 1..Len(x.path) :
            /\ \A i \in m..Len(x.path) : Allows(call.view, "scope_search", SubSeq(x.path, 1, i))
            /\ m = 1 \/ SubSeq(x.path, 1, m) \in Pockets(call.view, "scope_search")
      BY <2>3, <3>2, <3>3, AllowedFromSomewhere
    <3>5. AllowedFrom(x, m)
      BY <3>2, <3>4 DEF AllowedFrom
    <3>6. PICK S : Visits(top, <<>>) \in Seq(S)
      BY VisitsOfAll
    <3>7. PICK T : PocketVisits(top) \in Seq(T)
      BY <2>3, PocketsOfAll
    <3>8. ASSUME m = 1 PROVE Among(Visits(top, <<>>) \o PocketVisits(top), x)
      <4>1. 0 \in Nat /\ 0 < Len(x.path) /\ 0 + 1 = 1 /\ SubSeq(x.path, 1, 0) = <<>>
        BY <3>3, SubSeqEmpty
      <4>2. AllowedFrom(x, 0 + 1)
        BY <3>5, <3>8
      <4>3. Among(Visits(x.above[0 + 1], SubSeq(x.path, 1, 0)), x)
        BY <1>2, <2>4, <4>1, <4>2, VisitsFind DEF AllInv
      <4>4. Among(Visits(top, <<>>), x)
        BY <3>3, <4>1, <4>3
      <4> QED
        BY <3>6, <3>7, <4>4, AmongBoth
    <3>9. ASSUME SubSeq(x.path, 1, m) \in Pockets(call.view, "scope_search")
          PROVE  Among(Visits(top, <<>>) \o PocketVisits(top), x)
      <4>1. PICK i \in DOMAIN PocketVisits(top) :
              PocketVisits(top)[i] = Frame("pocket", top, SubSeq(x.path, 1, m), SubSeq(x.path, 1, m))
        BY <2>3, <3>9, PocketsOfAll
      <4>2. 1 \in 1..Len(x.path) /\ m \in 1..Len(x.path)
        BY <3>3
      <4>3. LeadsTo(Frame("pocket", x.above[1], SubSeq(x.path, 1, m), SubSeq(x.path, 1, m)), x)
        BY <3>5, <4>2 DEF LeadsTo
      <4>4. Among(PocketVisits(top), x)
        BY <3>3, <4>1, <4>3 DEF Among
      <4> QED
        BY <3>6, <3>7, <4>4, AmongBoth
    <3>10. Among(call'.todo, x)
      BY <2>2, <3>4, <3>8, <3>9
    <3> QED
      BY <2>2, <3>10, AmongStill DEF InReach
  <2> QED
    BY <1>1, <1>2, <1>4, <2>1, <2>4, StableWalks
<1> QED
  BY <1>1, <1>3, <1>4

\* A step that takes the first of what is to be visited.
LEMMA TakesFirst ==
  ASSUME NEW home, AllInv(home), UNCHANGED <<tree, policy>>, Observes,
         call.kind = "scope_search", call.step = "visit", call.todo # <<>>,
         NEW fields, Proceeds(fields), DOMAIN fields \subseteq {"step", "todo", "skipped", "batch"},
         "step" \in DOMAIN fields => fields.step \in {"visit", "flush"},
         ~call'.skipped => ~call.skipped,
         \A x \in during.expected : Batched(x) => Batched(x)',
         \A x \in during.expected : ~call'.skipped =>
           /\ Among(Tail(call.todo), x) => Among(call'.todo, x)
           /\ LeadsTo(Head(call.todo), x) => Among(call'.todo, x) \/ Batched(x)'
  PROVE  StableInv'
<1>1. DOMAIN fields \subseteq DOMAIN NoCall /\ {"step", "kind", "view", "got", "cut"} \subseteq DOMAIN NoCall
  BY DEF NoCall
<1>2. \A f \in DOMAIN NoCall : call'[f] = IF f \in DOMAIN fields THEN fields[f] ELSE call[f]
  BY <1>1, Values DEF AllInv
<1>3. /\ call'.step \in {"visit", "flush"} /\ call'.kind = call.kind /\ call'.view = call.view
      /\ call'.got = call.got /\ call'.cut = call.cut
  BY <1>1, <1>2
<1>4. ASSUME NEW x \in during.expected, Stable(x), Reached(x), SpelledOnce PROVE InReach(x)'
  BY <1>3, <1>4, StillComing
<1>5. call # NoCall
  BY DEF NoCall
<1> QED
  BY <1>4, <1>5, StableWalks

LEMMA MissedStable ==
  ASSUME NEW home, AllInv(home), UNCHANGED <<tree, policy>>, Observes,
         call.kind = "scope_search", call.step = "visit", call.todo # <<>>, NEW object, Missed(object),
         \A x \in during.expected : LeadsTo(Head(call.todo), x) => object \notin closed
  PROVE  StableInv'
<1> DEFINE fields == [skipped |-> call.skipped \/ object \notin closed, todo |-> Rest]
<1>1. Proceeds(fields)
  BY DEF Missed
<1>2. DOMAIN fields = {"skipped", "todo"} /\ (fields.skipped <=> call.skipped \/ object \notin closed)
      /\ fields.todo = Tail(call.todo)
  BY DEF Rest
<1> HIDE DEF fields
<1>3. (call'.skipped <=> call.skipped \/ object \notin closed) /\ call'.todo = Tail(call.todo)
      /\ call'.batch = call.batch /\ call'.kind = call.kind
  BY <1>1, <1>2 DEF Proceeds, With, AllInv, CallInv, NoCall
<1>4. \A x : Batched(x) => Batched(x)'
  BY <1>3 DEF Batched
<1> QED
  BY <1>1, <1>2, <1>3, <1>4, TakesFirst

LEMMA EnterStable ==
  ASSUME NEW home, AllInv(home), Observes, Enter PROVE StableInv'
<1> DEFINE frame == Head(call.todo)
           object == Opens(frame.directory, frame.name)
           fields == [todo |-> Visits(object, frame.parts) \o Tail(call.todo)]
<1>1. /\ UNCHANGED <<tree, policy>> /\ call.kind = "scope_search" /\ call.step = "visit" /\ call.todo # <<>>
      /\ frame.kind = "dir"
      /\ (object \in Directory \ closed /\ Proceeds(fields)) \/ Missed(object)
  BY DEF Enter, Visiting, files
<1>2. ASSUME NEW x \in during.expected, LeadsTo(frame, x)
      PROVE  object \notin closed /\ Among(Visits(object, frame.parts), x)
  <2>1. PICK k \in 1..Len(x.path) :
          /\ frame.kind = IF k = Len(x.path) THEN "file" ELSE "dir"
          /\ frame.directory = x.above[k] /\ frame.name = x.path[k]
          /\ frame.parts = SubSeq(x.path, 1, k)
          /\ call.kind = "scope_search" => AllowedFrom(x, k)
    BY <1>1, <1>2, LeadsByKind
  <2>2. k # Len(x.path)
    BY <1>1, <2>1
  <2>3. Stable(x) /\ SpelledOnce
    BY Expects
  <2>4. At(x.above[k], x.path[k]) = x.above[k + 1] /\ x.above[k + 1] \in Directory \ closed
    BY <2>2, <2>3, FoundOnTheWay DEF AllInv
  <2> HIDE DEF frame
  <2>5. object = x.above[k + 1]
    BY <2>1, <2>4 DEF Opens
  <2>6. k \in Nat /\ k < Len(x.path) /\ Len(x.path) \in Nat
    BY <2>2, <2>3 DEF Stable
  <2>7. AllowedFrom(x, k + 1)
    <3>1. \A i \in (k + 1)..Len(x.path) : i \in k..Len(x.path)
      BY <2>6
    <3> QED
      BY <1>1, <2>1, <3>1 DEF AllowedFrom
  <2>8. Among(Visits(x.above[k + 1], SubSeq(x.path, 1, k)), x)
    BY <1>1, <2>3, <2>6, <2>7, VisitsFind DEF AllInv
  <2> QED
    BY <2>1, <2>4, <2>5, <2>8
<1>3. CASE Missed(object)
  BY <1>1, <1>2, <1>3, MissedStable
<1>4. CASE Proceeds(fields)
  <2>1. DOMAIN fields = {"todo"} /\ fields.todo = Visits(object, frame.parts) \o Tail(call.todo)
    OBVIOUS
  <2> HIDE DEF fields
  <2>2. /\ call'.todo = Visits(object, frame.parts) \o Tail(call.todo)
        /\ call'.skipped = call.skipped /\ call'.batch = call.batch /\ call'.kind = call.kind
    BY <1>4, <2>1 DEF Proceeds, With, AllInv, CallInv, NoCall
  <2>3. \A x : Batched(x) => Batched(x)'
    BY <2>2 DEF Batched
  <2>4. PICK S : Visits(object, frame.parts) \in Seq(S)
    BY VisitsOfAll
  <2>5. Tail(call.todo) \in Seq(ToVisit(home, call.kind, call.view))
    BY <1>1, VisitsNext DEF AllInv
  <2>6. ASSUME NEW x \in during.expected
        PROVE  /\ Among(Tail(call.todo), x) => Among(call'.todo, x)
               /\ LeadsTo(Head(call.todo), x) => Among(call'.todo, x)
    <3>1. LeadsTo(Head(call.todo), x) => Among(Visits(object, frame.parts), x)
      BY <1>2
    <3>2. Among(Visits(object, frame.parts), x) \/ Among(Tail(call.todo), x) => Among(call'.todo, x)
      BY <2>2, <2>4, <2>5, AmongBoth
    <3> QED
      BY <3>1, <3>2
  <2> QED
    BY <1>1, <1>4, <2>1, <2>2, <2>3, <2>6, TakesFirst
<1> QED
  BY <1>1, <1>3, <1>4

\* The way to a pocket goes on from the directory that was next on it.
LEMMA PocketLeads ==
  ASSUME NEW home, AllInv(home), NEW x \in during.expected, NEW frame, LeadsTo(frame, x), frame.kind = "pocket",
         call.kind = "scope_search",
         NEW object, object = Opens(frame.directory, Head(frame.name))
  PROVE  /\ object # None /\ object \notin closed
         /\ object \in Directory =>
              IF Len(frame.name) = 1 THEN Among(Visits(object, frame.parts), x)
              ELSE LeadsTo(Frame("pocket", object, Tail(frame.name), frame.parts), x)
<1> PICK k \in 1..Len(x.path) : \E j \in k..Len(x.path) :
        /\ frame.directory = x.above[k] /\ frame.name = SubSeq(x.path, k, j)
        /\ frame.parts = SubSeq(x.path, 1, j) /\ AllowedFrom(x, j)
  BY LeadsByKind
<1>1. PICK j \in k..Len(x.path) :
        /\ frame.directory = x.above[k] /\ frame.name = SubSeq(x.path, k, j)
        /\ frame.parts = SubSeq(x.path, 1, j) /\ AllowedFrom(x, j)
  OBVIOUS
<1>2. Stable(x) /\ SpelledOnce
  BY Expects
<1>3. x.path \in Seq(Name) /\ Len(x.path) \in Nat /\ k \in Nat /\ j \in Nat /\ k <= j /\ j <= Len(x.path) /\ 1 <= k
  BY <1>2 DEF Stable
<1>4. Head(frame.name) = x.path[k] /\ Tail(frame.name) = SubSeq(x.path, k + 1, j)
  BY <1>1, <1>3, HeadTailOfSubSeq
<1>5. Len(frame.name) = j - k + 1
  <2>1. k \in Int /\ j \in Int /\ \A i \in k..j : x.path[i] \in Name
    BY <1>3
  <2>2. Len(SubSeq(x.path, k, j)) = IF k <= j THEN j - k + 1 ELSE 0
    BY <2>1, SubSeqProperties
  <2> QED
    BY <1>1, <1>3, <2>2
<1>6. object = At(x.above[k], x.path[k])
  BY <1>1, <1>4 DEF Opens
<1>7. /\ object = IF k = Len(x.path) THEN x.object ELSE x.above[k + 1]
      /\ k # Len(x.path) => x.above[k + 1] \in Directory \ closed
  BY <1>2, <1>6, FoundOnTheWay DEF AllInv
<1>8. object # None /\ object \notin closed
  BY <1>2, <1>7, TreeAssumption DEF Stable
<1>9. ASSUME object \in Directory
      PROVE  k + 1 \in 1..Len(x.path) /\ k < Len(x.path) /\ object = x.above[k + 1]
  <2>1. k # Len(x.path)
    BY <1>2, <1>7, <1>9, TreeAssumption DEF Stable
  <2> QED
    BY <1>3, <1>7, <2>1
<1>10. ASSUME object \in Directory, Len(frame.name) = 1 PROVE Among(Visits(object, frame.parts), x)
  <2>1. j = k
    BY <1>3, <1>5, <1>10
  <2>2. AllowedFrom(x, k + 1)
    <3>1. \A i \in (k + 1)..Len(x.path) : i \in j..Len(x.path)
      BY <1>3, <2>1
    <3> QED
      BY <1>1, <3>1 DEF AllowedFrom
  <2>3. Among(Visits(x.above[k + 1], SubSeq(x.path, 1, k)), x)
    BY <1>2, <1>3, <1>9, <1>10, <2>2, VisitsFind DEF AllInv
  <2> QED
    BY <1>1, <1>9, <1>10, <2>1, <2>3
<1>11. ASSUME object \in Directory, Len(frame.name) # 1
       PROVE  LeadsTo(Frame("pocket", object, Tail(frame.name), frame.parts), x)
  <2>1. j # k
    BY <1>3, <1>5, <1>11
  <2> DEFINE m == k + 1
  <2>2. m \in 1..Len(x.path) /\ j \in m..Len(x.path)
    BY <1>3, <1>9, <1>11, <2>1
  <2> HIDE DEF m
  <2>3. LeadsTo(Frame("pocket", x.above[m], SubSeq(x.path, m, j), SubSeq(x.path, 1, j)), x)
    BY <1>1, <2>2 DEF LeadsTo
  <2> QED
    BY <1>1, <1>4, <1>9, <1>11, <2>3 DEF m
<1> QED
  BY <1>8, <1>10, <1>11

LEMMA EnterPocketStable ==
  ASSUME NEW home, AllInv(home), Observes, EnterPocket PROVE StableInv'
<1> DEFINE frame == Head(call.todo)
           object == Opens(frame.directory, Head(frame.name))
           next == Frame("pocket", object, Tail(frame.name), frame.parts)
           lists == [todo |-> Visits(object, frame.parts) \o Rest]
           goes == [todo |-> <<next>> \o Rest]
           gone == [todo |-> Rest]
<1>1. /\ UNCHANGED <<tree, policy>> /\ call.kind = "scope_search" /\ call.step = "visit" /\ call.todo # <<>>
      /\ frame.kind = "pocket"
  BY DEF EnterPocket, Visiting, files
<1>2. \/ object = None /\ Proceeds(gone)
      \/ Missed(object)
      \/ object \in Directory /\ Len(frame.name) = 1 /\ Proceeds(lists)
      \/ object \in Directory /\ Len(frame.name) # 1 /\ Proceeds(goes)
  BY Zenon DEF EnterPocket
<1>3. ASSUME NEW x \in during.expected, LeadsTo(frame, x)
      PROVE  /\ object # None /\ object \notin closed
             /\ object \in Directory =>
                  IF Len(frame.name) = 1 THEN Among(Visits(object, frame.parts), x) ELSE LeadsTo(next, x)
  BY <1>1, <1>3, PocketLeads
<1>4. /\ DOMAIN gone = {"todo"} /\ gone.todo = Rest
      /\ DOMAIN lists = {"todo"} /\ lists.todo = Visits(object, frame.parts) \o Rest
      /\ DOMAIN goes = {"todo"} /\ goes.todo = <<next>> \o Rest
  OBVIOUS
<1> HIDE DEF gone, lists, goes
<1>5. Rest \in Seq(ToVisit(home, call.kind, call.view)) /\ Rest = Tail(call.todo)
  BY <1>1, VisitsNext DEF AllInv, Rest
<1> HIDE DEF frame, object, next
<1>6. ASSUME NEW fields, Proceeds(fields), DOMAIN fields = {"todo"},
             ASSUME NEW x \in during.expected
             PROVE  /\ Among(Rest, x) => Among(fields.todo, x)
                    /\ LeadsTo(frame, x) => Among(fields.todo, x)
      PROVE  StableInv'
  <2>1. /\ call'.todo = fields.todo /\ call'.skipped = call.skipped /\ call'.batch = call.batch
        /\ call'.kind = call.kind
    BY <1>6 DEF Proceeds, With, AllInv, CallInv, NoCall
  <2>2. \A x : Batched(x) => Batched(x)'
    BY <2>1 DEF Batched
  <2>3. \A x \in during.expected : /\ Among(Tail(call.todo), x) => Among(call'.todo, x)
                                   /\ LeadsTo(Head(call.todo), x) => Among(call'.todo, x)
    BY <1>5, <1>6, <2>1 DEF frame
  <2> QED
    BY <1>1, <1>6, <2>1, <2>2, <2>3, TakesFirst
<1>7. CASE object = None /\ Proceeds(gone)
  BY <1>3, <1>4, <1>6, <1>7
<1>8. CASE Missed(object)
  BY <1>1, <1>3, <1>8, MissedStable DEF frame
<1>9. CASE object \in Directory /\ Len(frame.name) = 1 /\ Proceeds(lists)
  <2>1. PICK S : Visits(object, frame.parts) \in Seq(S)
    BY VisitsOfAll
  <2>2. ASSUME NEW x \in during.expected
        PROVE  /\ Among(Rest, x) => Among(lists.todo, x)
               /\ LeadsTo(frame, x) => Among(lists.todo, x)
    <3>1. LeadsTo(frame, x) => Among(Visits(object, frame.parts), x)
      BY <1>3, <1>9
    <3> QED
      BY <1>4, <1>5, <2>1, <3>1, AmongBoth
  <2> QED
    BY <1>4, <1>6, <1>9, <2>2
<1>10. CASE object \in Directory /\ Len(frame.name) # 1 /\ Proceeds(goes)
  <2> DEFINE first == <<next>>
             S == {next}
  <2>1. first \in Seq(S) /\ DOMAIN first = {1} /\ first[1] = next
    OBVIOUS
  <2>2. goes.todo = first \o Rest
    BY <1>4
  <2> HIDE DEF first, S
  <2>3. ASSUME NEW x \in during.expected
        PROVE  /\ Among(Rest, x) => Among(goes.todo, x)
               /\ LeadsTo(frame, x) => Among(goes.todo, x)
    <3>1. LeadsTo(frame, x) => LeadsTo(next, x)
      BY <1>3, <1>10
    <3>2. LeadsTo(frame, x) => Among(first, x)
      BY <2>1, <3>1 DEF Among
    <3> QED
      BY <1>5, <2>1, <2>2, <3>2, AmongBoth
  <2> QED
    BY <1>4, <1>6, <1>10, <2>3
<1> QED
  BY <1>2, <1>7, <1>8, <1>9, <1>10

\* A batch keeps what it has.
LEMMA BatchGrows ==
  ASSUME NEW S, call.batch \in Seq(S), NEW entry, call'.batch = Append(call.batch, entry), call'.kind = call.kind
  PROVE  /\ \A x : Batched(x) => Batched(x)'
         /\ \A x : call.kind = "scope_search" /\ entry.path = x.path /\ entry.object = x.object => Batched(x)'
<1> DEFINE T == S \cup {entry}
           more == Append(call.batch, entry)
<1>1. call.batch \in Seq(T) /\ entry \in T
  BY SeqMonotonic
<1> HIDE DEF T
<1>2. /\ Len(call.batch) \in Nat /\ more \in Seq(T) /\ Len(more) = Len(call.batch) + 1
      /\ \A i \in 1..Len(call.batch) : more[i] = call.batch[i]
      /\ more[Len(call.batch) + 1] = entry
  BY <1>1, AppendProperties
<1>3. DOMAIN call.batch = 1..Len(call.batch) /\ DOMAIN more = 1..Len(more)
  BY <1>1, <1>2
<1> HIDE DEF more
<1>4. call'.batch = more
  BY DEF more
<1>5. ASSUME NEW x, Batched(x) PROVE Batched(x)'
  <2>1. PICK i \in 1..Len(call.batch) : call.batch[i].path = x.path /\ call.batch[i].object = x.object
    BY <1>3, <1>5 DEF Batched
  <2>2. i \in DOMAIN more /\ more[i] = call.batch[i]
    BY <1>2, <1>3
  <2> QED
    BY <1>4, <1>5, <2>1, <2>2 DEF Batched
<1>6. ASSUME NEW x, call.kind = "scope_search", entry.path = x.path, entry.object = x.object PROVE Batched(x)'
  <2>1. Len(call.batch) + 1 \in DOMAIN more
    BY <1>2, <1>3
  <2> QED
    BY <1>2, <1>4, <1>6, <2>1 DEF Batched
<1> QED
  BY <1>5, <1>6

LEMMA ConsiderStable ==
  ASSUME NEW home, AllInv(home), Observes, Consider PROVE StableInv'
<1> DEFINE frame == Head(call.todo)
           object == Opens(frame.directory, frame.name)
           entry == Taken(frame.parts, object)
           batch == Append(call.batch, entry)
           refuses == RefusesOtherNames(call.view, "scope_search", Links(object))
           out == [todo |-> Rest]
           takes == [batch |-> batch, step |-> IF Len(batch) = BatchLimit THEN "flush" ELSE "visit", todo |-> Rest]
<1>1. /\ UNCHANGED <<tree, policy>> /\ call.kind = "scope_search" /\ call.step = "visit" /\ call.todo # <<>>
      /\ frame.kind = "file"
  BY DEF Consider, Visiting, files
<1>2. \/ refuses /\ Proceeds(out)
      \/ Missed(object)
      \/ Proceeds(takes)
  BY Zenon DEF Consider
<1>3. ASSUME NEW x \in during.expected, LeadsTo(frame, x)
      PROVE  frame.parts = x.path /\ object = x.object /\ object \notin closed /\ ~refuses
  <2>1. /\ frame.parts = x.path /\ object = x.object /\ x.object \in File \ closed /\ x.links = Links(x.object)
    BY <1>1, <1>3, FileLeads
  <2>2. MayTake(x)
    BY <1>1, Expects DEF Reached
  <2>3. OperationOf(call.kind) = "scope_search" /\ call.kind # "tree"
    BY <1>1 DEF OperationOf, OpensFile
  <2> HIDE DEF frame, object
  <2> QED
    BY <2>1, <2>2, <2>3 DEF MayTake
<1>4. /\ DOMAIN out = {"todo"} /\ out.todo = Rest
      /\ DOMAIN takes = {"batch", "step", "todo"} /\ takes.todo = Rest /\ takes.batch = batch
      /\ takes.step \in {"visit", "flush"}
  OBVIOUS
<1>5. entry.path = frame.parts /\ entry.object = object
  BY DEF Taken
<1> HIDE DEF frame, object, refuses, out, takes, entry
<1>6. CASE refuses /\ Proceeds(out)
  <2>1. /\ call'.todo = Rest /\ call'.skipped = call.skipped /\ call'.batch = call.batch /\ call'.kind = call.kind
    BY <1>4, <1>6 DEF Proceeds, With, AllInv, CallInv, NoCall
  <2>2. \A x : Batched(x) => Batched(x)'
    BY <2>1 DEF Batched
  <2> QED
    BY <1>1, <1>3, <1>4, <1>6, <2>1, <2>2, TakesFirst DEF frame, Rest
<1>7. CASE Missed(object)
  BY <1>1, <1>3, <1>7, MissedStable DEF frame
<1>8. CASE Proceeds(takes)
  <2>1. /\ call'.todo = Rest /\ call'.skipped = call.skipped /\ call'.batch = Append(call.batch, entry)
        /\ call'.kind = call.kind
    BY <1>4, <1>8 DEF Proceeds, With, AllInv, CallInv, NoCall
  <2>2. call.batch \in Seq(AllowedTake(call.kind, call.view))
    BY DEF AllInv, AllowedInv, GotInv
  <2>3. /\ \A x : Batched(x) => Batched(x)'
        /\ \A x : entry.path = x.path /\ entry.object = x.object => Batched(x)'
    BY <1>1, <2>1, <2>2, BatchGrows
  <2>4. ASSUME NEW x \in during.expected, LeadsTo(frame, x) PROVE Batched(x)'
    <3>1. entry.path = x.path /\ entry.object = x.object
      BY <1>3, <1>5, <2>4
    <3> QED
      BY <2>3, <3>1
  <2> QED
    BY <1>1, <1>4, <1>8, <2>1, <2>3, <2>4, TakesFirst DEF frame, Rest
<1> QED
  BY <1>2, <1>6, <1>7, <1>8

LEMMA ExhaustStable ==
  ASSUME NEW home, AllInv(home), Observes, Exhaust PROVE StableInv'
<1> PICK late \in BOOLEAN :
      Proceeds([cut |-> TRUE, todo |-> <<>>, batch |-> IF late THEN <<>> ELSE call.batch,
                step |-> IF late THEN "filter" ELSE "flush"])
  BY DEF Exhaust
<1> DEFINE fields == [cut |-> TRUE, todo |-> <<>>, batch |-> IF late THEN <<>> ELSE call.batch,
                      step |-> IF late THEN "filter" ELSE "flush"]
<1>1. UNCHANGED <<tree, policy>> /\ call.step = "visit" /\ call # NoCall /\ Proceeds(fields)
  BY DEF Exhaust, files, NoCall
<1>2. DOMAIN fields = {"cut", "todo", "batch", "step"} /\ fields.cut = TRUE /\ fields.step \in {"filter", "flush"}
  OBVIOUS
<1> HIDE DEF fields
<1>3. call'.cut
  BY <1>1, <1>2 DEF Proceeds, With
<1>4. \A x : InReach(x)'
  BY <1>3 DEF InReach
<1> QED
  BY <1>1, <1>2, <1>4, StableWalks

LEMMA WalkedStable ==
  ASSUME NEW home, AllInv(home), Observes, Walked PROVE StableInv'
<1> DEFINE fields == [step |-> "flush"]
<1>1. UNCHANGED <<tree, policy>> /\ call.step = "visit" /\ call # NoCall /\ Proceeds(fields)
  BY DEF Walked, files, NoCall
<1>2. DOMAIN fields = {"step"} /\ fields.step = "flush"
  OBVIOUS
<1> HIDE DEF fields
<1>3. /\ call'.step = "flush" /\ call'.got = call.got /\ call'.cut = call.cut /\ call'.skipped = call.skipped
      /\ call'.todo = call.todo /\ call'.batch = call.batch /\ call'.kind = call.kind /\ call'.view = call.view
  BY <1>1, <1>2 DEF Proceeds, With, AllInv, CallInv, NoCall
<1>4. ASSUME NEW x \in during.expected, Stable(x), Reached(x), SpelledOnce PROVE InReach(x)'
  <2>1. (Reported(x)' <=> Reported(x)) /\ (Batched(x)' <=> Batched(x))
    BY <1>3 DEF Reported, Batched
  <2>2. Among(call.todo, x)' <=> Among(call.todo, x)
    BY <1>3, AmongStill
  <2> QED
    BY <1>1, <1>3, <1>4, <2>1, <2>2 DEF Reached, InReach
<1> QED
  BY <1>1, <1>2, <1>4, StableWalks

LEMMA FlushStable ==
  ASSUME NEW home, AllInv(home), Observes, Flush PROVE StableInv'
<1> DEFINE found == {b \in ToSet(call.batch) : Holds(b.object)}
           next == IF call.todo = <<>> THEN "filter" ELSE "visit"
           all == [batch |-> <<>>, got |-> call.got \cup found, step |-> next]
<1>1. /\ UNCHANGED <<tree, policy>> /\ call.step = "flush"
      /\ \/ Proceeds(all)
         \/ \E some : Proceeds([batch |-> <<>>, todo |-> <<>>, got |-> call.got \cup some,
                                cut |-> TRUE, step |-> "filter"])
  BY Zenon DEF Flush, files
<1>0. call # NoCall /\ call.kind = "scope_search"
  BY <1>1 DEF NoCall, AllInv, AllowedInv, KindInv, ScopeSteps
<1>2. ASSUME NEW some, Proceeds([batch |-> <<>>, todo |-> <<>>, got |-> call.got \cup some,
                                 cut |-> TRUE, step |-> "filter"])
      PROVE  StableInv'
  <2> DEFINE fields == [batch |-> <<>>, todo |-> <<>>, got |-> call.got \cup some, cut |-> TRUE, step |-> "filter"]
  <2>1. DOMAIN fields = {"batch", "todo", "got", "cut", "step"} /\ fields.cut = TRUE /\ fields.step = "filter"
    OBVIOUS
  <2>2. Proceeds(fields)
    BY <1>2
  <2> HIDE DEF fields
  <2>3. call'.cut
    BY <2>1, <2>2 DEF Proceeds, With
  <2>4. \A x : InReach(x)'
    BY <2>3 DEF InReach
  <2> QED
    BY <1>0, <1>1, <2>1, <2>2, <2>4, StableWalks
<1>3. CASE Proceeds(all)
  <2>1. DOMAIN all = {"batch", "got", "step"} /\ all.got = call.got \cup found /\ all.step = next
    OBVIOUS
  <2> HIDE DEF all, found
  <2>2. next \in {"filter", "visit"} /\ (next = "filter" <=> call.todo = <<>>)
    OBVIOUS
  <2> HIDE DEF next
  <2>3. /\ call'.got = call.got \cup found /\ call'.step = next
        /\ call'.todo = call.todo /\ call'.cut = call.cut /\ call'.skipped = call.skipped
        /\ call'.kind = call.kind /\ call'.view = call.view
    BY <1>3, <2>1 DEF Proceeds, With, AllInv, CallInv, NoCall
  <2>4. ASSUME NEW x \in during.expected, Stable(x), Reached(x), SpelledOnce PROVE InReach(x)'
    <3> SUFFICES ASSUME ~call.cut, ~call.skipped
                 PROVE  Reported(x)' \/ (next = "visit" /\ Among(call'.todo, x))
      BY <2>2, <2>3, AmongStill DEF InReach
    <3>1. Reported(x) \/ Among(call.todo, x) \/ Batched(x)
      BY <1>0, <1>1, <2>4 DEF Reached, InReach
    <3>2. Reported(x) => Reported(x)'
      BY <2>3 DEF Reported
    <3>3. ASSUME Batched(x) PROVE Reported(x)'
      <4>1. PICK i \in DOMAIN call.batch : call.batch[i].path = x.path /\ call.batch[i].object = x.object
        BY <3>3 DEF Batched
      <4>2. call.batch[i] \in ToSet(call.batch)
        BY <4>1 DEF ToSet
      <4>3. Holds(x.object)
        BY <1>0, <1>1, <2>4 DEF Stable
      <4>4. call.batch[i] \in found
        BY <4>1, <4>2, <4>3 DEF found
      <4> QED
        BY <2>3, <4>1, <4>4 DEF Reported
    <3>4. ASSUME Among(call.todo, x) PROVE next = "visit" /\ Among(call'.todo, x)
      <4>1. call.todo # <<>>
        BY <3>4, EmptySeq DEF Among
      <4> QED
        BY <2>2, <2>3, <3>4, <4>1
    <3> QED
      BY <3>1, <3>2, <3>3, <3>4
  <2> QED
    BY <1>0, <1>1, <1>3, <2>1, <2>2, <2>4, StableWalks
<1> QED
  BY <1>0, <1>1, <1>2, <1>3

LEMMA FilterStable ==
  ASSUME NEW home, AllInv(home), Observes, Filter PROVE StableInv'
<1> DEFINE may == {g \in call.got : MaySearch(g.path)}
           fields == [step |-> "answered", got |-> may, withheld |-> may # call.got]
<1>1. UNCHANGED <<tree, policy>> /\ call.step = "filter" /\ call # NoCall /\ Proceeds(fields)
  BY DEF Filter, files, NoCall
<1>2. call.kind = "scope_search"
  BY <1>1 DEF AllInv, AllowedInv, KindInv, ScopeSteps
<1>3. DOMAIN fields = {"step", "got", "withheld"} /\ fields.step = "answered" /\ fields.got = may
  OBVIOUS
<1> HIDE DEF fields, may
<1>4. call'.step = "answered" /\ call'.got = may /\ call'.cut = call.cut /\ call'.skipped = call.skipped
  BY <1>1, <1>3 DEF Proceeds, With, AllInv, CallInv, NoCall
<1>5. ASSUME NEW x \in during.expected, Stable(x), Reached(x), SpelledOnce PROVE InReach(x)'
  <2> SUFFICES ASSUME ~call.cut, ~call.skipped PROVE Reported(x)'
    BY <1>4 DEF InReach
  <2>1. PICK g \in call.got : g.path = x.path
    BY <1>1, <1>5 DEF Reached, InReach, Reported
  <2>2. MaySearch(x.path)
    BY <1>2, <1>5 DEF Stable
  <2>3. g \in may
    BY <2>1, <2>2 DEF may
  <2> QED
    BY <1>4, <2>1, <2>3 DEF Reported
<1> QED
  BY <1>1, <1>3, <1>5, StableWalks

\* Where a call is depends on nothing but the call.
LEMMA CallStays ==
  ASSUME UNCHANGED call, NEW x, Reached(x) PROVE Reached(x)'
<1>1. (MayTake(x) => MayTake(x)') /\ (OnTheWay(x) => OnTheWay(x)')
  BY DEF MayTake, OnTheWay
<1>2. Among(call.todo, x) => Among(call.todo, x)'
  BY AmongStill
<1>3. (Reported(x) => Reported(x)') /\ (Batched(x) => Batched(x)')
  BY DEF Reported, Batched
<1>4. InReach(x) => InReach(x)'
  BY <1>2, <1>3 DEF InReach
<1> QED
  BY <1>1, <1>4 DEF Reached

\* What others do may end what is expected, but does not change where the call is.
LEMMA OthersStable ==
  ASSUME NEW home, AllInv(home), Others, UNCHANGED call, Observes PROVE StableInv'
<1>1. SpelledOnce'
  <2>1. CASE UNCHANGED names
    BY <2>1 DEF AllInv, StableInv, SpelledOnce
  <2>2. CASE Turn
    <3>1. PICK t \in Turns : /\ CaseBlind /\ t[3] # None => OtherSpellings(t[1], t[2]) = {}
                             /\ names' = [names EXCEPT ![t[1]][t[2]] = t[3]]
      BY <2>2 DEF Turn
    <3>2. t[1] \in Directory /\ t[2] \in Name
      BY TreeAssumption
    <3>3. ASSUME NEW d \in Directory, NEW n \in Name
          PROVE  \/ names'[d][n] = names[d][n]
                 \/ d = t[1] /\ n = t[2] /\ names'[d][n] = t[3]
      BY <3>1, <3>2 DEF AllInv, AllowedInv, NamesInv
    <3>4. ASSUME CaseBlind, NEW d \in Directory, NEW n \in Name, NEW m \in Name,
                 names'[d][n] # None, names'[d][m] # None, Fold[n] = Fold[m]
          PROVE  n = m
      <4>1. CASE names[d][n] # None /\ names[d][m] # None
        BY <3>4, <4>1 DEF AllInv, StableInv, SpelledOnce
      <4>2. CASE names[d][n] = None
        BY <3>1, <3>3, <3>4, <4>2 DEF OtherSpellings
      <4>3. CASE names[d][m] = None
        BY <3>1, <3>3, <3>4, <4>3 DEF OtherSpellings
      <4> QED
        BY <4>1, <4>2, <4>3
    <3> QED
      BY <3>4 DEF SpelledOnce
  <2> QED
    BY <2>1, <2>2 DEF Others, TreeNext, Rewrite, Forbid, ReplaceRoot, EditPolicy, EditRegistry
<1>2. during'.expected \subseteq during.expected /\ during'.expected \subseteq ExpectedNow'
  <2>1. CASE call = NoCall
    BY <2>1 DEF Observes, Nothing
  <2>2. CASE call # NoCall /\ UNCHANGED <<tree, policy>>
    <3>1. ExpectedNow' = ExpectedNow
      BY <2>2, ExpectedStill
    <3>2. during'.expected = during.expected
      BY <2>2 DEF Observes
    <3> QED
      BY <3>1, <3>2 DEF AllInv, StableInv
  <2>3. CASE call # NoCall /\ ~UNCHANGED <<tree, policy>>
    <3>1. during'.expected = during.expected \cap ExpectedNow'
      BY <2>3 DEF Observes
    <3> QED
      BY <3>1
  <2> QED
    BY <2>1, <2>2, <2>3
<1>3. ASSUME NEW x, Reached(x) PROVE Reached(x)'
  BY <1>3, CallStays
<1> QED
  BY <1>1, <1>2, <1>3 DEF AllInv, StableInv

\* Every step of a reader.
LEMMA ReaderStable ==
  ASSUME NEW home, AllInv(home), Observes, ReaderNext PROVE StableInv'
<1>1. ASSUME NEW kind \in Kind, NEW workspace \in Workspace, NEW path \in Paths, Begin(kind, workspace, path)
      PROVE  StableInv'
  <2>1. UNCHANGED <<tree, policy>> /\ call = NoCall
    BY <1>1 DEF Begin
  <2>2. CASE Refused
    BY <2>1, <2>2, StableEnds DEF AllInv, Refused
  <2>3. CASE call' = [NoCall EXCEPT !.step = "view", !.kind = kind, !.workspace = workspace,
                                    !.path = path, !.bound = Bind(workspace)]
    <3>1. call'.step = "view"
      BY <2>3 DEF NoCall
    <3> QED
      BY <2>1, <3>1, BeginStable
  <2> QED
    BY <1>1, <2>2, <2>3 DEF Begin
<1> QED
  BY <1>1, FirstViewStable, SessionStable, OpenRootStable, StatStable, OpenStable, BytesStable,
     ListBaseStable, EnterDirectoryStable, SearchFileStable, WalkStopsStable, ReturnStable DEF ReaderNext

\* Every step of a search of a scope.
LEMMA ScopeSearchStable ==
  ASSUME NEW home, AllInv(home), Observes, ScopeSearchNext PROVE StableInv'
<1>1. ASSUME NEW scope \in Scope, BeginScope(scope) PROVE StableInv'
  <2>1. UNCHANGED tree /\ call = NoCall
        /\ call' = [NoCall EXCEPT !.step = "snapshot", !.kind = "scope_search"]
    BY <1>1 DEF BeginScope
  <2>2. call'.step = "snapshot"
    BY <2>1 DEF NoCall
  <2> QED
    BY <2>1, <2>2, BeginStable
<1> QED
  BY <1>1, FirstViewStable, MayScopeStable, ScanStable, EnterStable, EnterPocketStable, ConsiderStable,
     ExhaustStable, WalkedStable, FlushStable, FilterStable DEF ScopeSearchNext

LEMMA InitStable == Init => StableInv
  BY TreeAssumption DEF Init, TreeInit, Nothing, StableInv, SpelledOnce

\* A listing or a search that says nothing of a limit or an error has every file that was there, open,
\* allowed and held the text all through the call, whatever others did meanwhile to the tree, the
\* policy and the registry, those in an allowed scope inside of a denied one too (workspace.py: the
\* walks of tree and search_text; scope_search.py: _walk_directory, _walk_pocket, _consider and the
\* batches; path_authority.py: allowed_descendants), where directories are not moved and scopes are
\* spelled as the tree is.  Files in the first three levels of the tree count.
THEOREM NothingMissed ==
  ASSUME NEW home, Settled(home), ScopesSpelled(home)
  PROVE  Spec => []NothingStableIsMissed
<1> DEFINE I == Inv /\ AllowedInv(home) /\ StableInv
<1>1. SpelledAlike(home)
  BY DEF SpelledAlike
<1>2. Init => I
  BY InitInv, InitAllowed, InitStable
<1>3. I /\ [Next]_vars => I'
  <2> SUFFICES ASSUME I, [Next]_vars PROVE I'
    OBVIOUS
  <2>1. Inv' /\ AllInv(home)
    BY StepInv DEF Inv, AllInv
  <2>2. CASE UNCHANGED vars
    <3>1. AllowedInv(home)'
      BY <2>1, <2>2, AllowedStays
    <3>2. UNCHANGED <<tree, policy, call, during>>
      BY <2>2 DEF vars, files
    <3>3. ExpectedNow' = ExpectedNow /\ SpelledOnce' /\ during'.expected = during.expected
      BY <3>2, ExpectedStill DEF AllInv, StableInv, SpelledOnce, tree
    <3>4. ASSUME NEW x, Reached(x) PROVE Reached(x)'
      BY <3>2, <3>4, CallStays
    <3> QED
      BY <2>1, <3>1, <3>3, <3>4 DEF AllInv, StableInv
  <2>3. CASE Next
    <3>1. Observes /\ CallInv /\ ((Others /\ UNCHANGED call) \/ ReaderNext \/ ScopeSearchNext)
      BY <2>1, <2>3 DEF Next, AllInv
    <3>2. AllowedInv(home)'
      BY <1>1, <3>1, ReaderAllowed, ScopeSearchAllowed, OthersAllowed
    <3>3. StableInv'
      BY <2>1, <3>1, ReaderStable, ScopeSearchStable, OthersStable
    <3> QED
      BY <2>1, <3>2, <3>3
  <2> QED
    BY <2>2, <2>3
<1>4. I => NothingStableIsMissed
  <2> SUFFICES ASSUME I, call.step = "answered", ~call.cut, ~call.skipped, NEW x \in during.expected
               PROVE  x.path \in {g.path : g \in call.got}
    BY DEF NothingStableIsMissed
  <2>1. Reported(x)
    BY DEF StableInv, Reached, InReach
  <2> QED
    BY <2>1 DEF Reported
<1> QED
  BY <1>2, <1>3, <1>4, PTL DEF Spec

=============================================================================
