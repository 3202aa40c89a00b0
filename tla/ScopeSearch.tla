----------------------------- MODULE ScopeSearch -----------------------------
(***************************************************************************)
(* uam_search_scope: search_scope (discovery.py) and the walk of           *)
(* scope_search.py.  Authority decides before a byte is read, files are    *)
(* opened by the walk, and ripgrep is given open files only, in batches.   *)
(* The scope starts where the root of the workspaces is; names that no     *)
(* search considers (hidden, excluded, ignored) are not in the tree.       *)
(***************************************************************************)
EXTENDS Reader

CONSTANTS BatchLimit   \* files that ripgrep is given at once

SearchesScope(rights) == "text_search" \in rights

MaySearch(path) == SearchesScope(Authority(Loaded(policy), path))

\* The scope's own declaration, by its id.
BeginScope(scope) ==
  /\ call = NoCall
  /\ scope \in DOMAIN Loaded(policy) /\ ScopeRoot[scope] = <<>>
  /\ SearchesScope(policy[scope])
  /\ call' = [NoCall EXCEPT !.step = "snapshot", !.kind = "scope_search"]
  /\ UNCHANGED <<tree, files>>

\* The nested scopes that the whole search obeys.
Snapshot ==
  /\ call.step = "snapshot"
  /\ Proceeds([step |-> "may", view |-> Beneath(Loaded(policy), call.path)])
  /\ UNCHANGED <<tree, files>>

\* The root itself is judged by the policy as it is.
MayScope ==
  /\ call.step = "may"
  /\ IF MaySearch(call.path) THEN Proceeds([step |-> "scan"]) ELSE Refused
  /\ UNCHANGED <<tree, files>>

\* _walk_directory and _visit: what the view denies is not even asked for.
Considered(directory, parts) ==
  {n \in Entries(directory, Directory \cup File) : Allows(call.view, "scope_search", Append(parts, n))}

Visits(directory, parts) ==
  LET order == SetToSeq(Considered(directory, parts))
      KindOf(n) == IF names[directory][n] \in File THEN "file" ELSE "dir"
  IN [i \in DOMAIN order |->
        Frame(KindOf(order[i]), directory, order[i], Append(parts, order[i]))]

\* Mutant of PocketVisits: what a denying scope holds is left out with it.
NoPocketVisits(root) == <<>>

\* Allowed scopes inside of a denying one are visited after the rest; the name of such a frame is what
\* is left of the way there.
PocketVisits(root) ==
  LET order == SetToSeq(Pockets(call.view, "scope_search"))
  IN [i \in DOMAIN order |-> Frame("pocket", root, order[i], order[i])]

\* run
Scan ==
  /\ call.step = "scan"
  /\ IF top \in closed THEN Proceeds([step |-> "filter", cut |-> TRUE])
     ELSE Proceeds([step |-> "visit", todo |-> Visits(top, <<>>) \o PocketVisits(top)])
  /\ UNCHANGED <<tree, files>>

Visiting(kind) ==
  /\ call.kind = "scope_search" /\ call.step = "visit"
  /\ call.todo # <<>> /\ Head(call.todo).kind = kind

Rest == Tail(call.todo)

\* _note_error: what may not be opened is outside of the search, anything else leaves it incomplete.
Missed(object) == Proceeds([skipped |-> call.skipped \/ object \notin closed, todo |-> Rest])

\* _enter
Enter ==
  LET frame == Head(call.todo)
      object == Opens(frame.directory, frame.name)
  IN /\ Visiting("dir")
     /\ IF object \in Directory \ closed
        THEN Proceeds([todo |-> Visits(object, frame.parts) \o Tail(call.todo)])
        ELSE Missed(object)
     /\ UNCHANGED <<tree, files>>

\* _walk_pocket: the directories on the way are opened one in the other, never listed.
EnterPocket ==
  LET frame == Head(call.todo)
      object == Opens(frame.directory, Head(frame.name))
      next == Frame("pocket", object, Tail(frame.name), frame.parts)
  IN /\ Visiting("pocket")
     /\ IF object = None THEN Proceeds([todo |-> Rest])
        ELSE IF object \notin Directory \ closed THEN Missed(object)
        ELSE IF Len(frame.name) = 1 THEN Proceeds([todo |-> Visits(object, frame.parts) \o Rest])
        ELSE Proceeds([todo |-> <<next>> \o Rest])
     /\ UNCHANGED <<tree, files>>

\* _consider
Consider ==
  LET frame == Head(call.todo)
      object == Opens(frame.directory, frame.name)
      batch == Append(call.batch, Taken(frame.parts, object))
  IN /\ Visiting("file")
     /\ IF object \in File /\ RefusesOtherNames(call.view, "scope_search", Links(object))
        THEN Proceeds([todo |-> Rest])
        ELSE IF object \notin File \ closed THEN Missed(object)
        ELSE Proceeds([batch |-> batch, step |-> IF Len(batch) = BatchLimit THEN "flush" ELSE "visit",
                       todo |-> Rest])
     /\ UNCHANGED <<tree, files>>

\* max_entries, max_files, max_bytes end the walk but not the search; the deadline ends both.
Exhaust ==
  /\ call.kind = "scope_search" /\ call.step = "visit" /\ call.todo # <<>>
  /\ \E late \in BOOLEAN :
       Proceeds([cut |-> TRUE, todo |-> <<>>, batch |-> IF late THEN <<>> ELSE call.batch,
                 step |-> IF late THEN "filter" ELSE "flush"])
  /\ UNCHANGED <<tree, files>>

Walked ==
  /\ call.kind = "scope_search" /\ call.step = "visit" /\ call.todo = <<>>
  /\ Proceeds([step |-> "flush"])
  /\ UNCHANGED <<tree, files>>

\* _run_ripgrep: the files as they are now.  When it fails, is late, or has found enough, some of
\* what it found is kept and the search ends incomplete.
Flush ==
  LET found == {b \in ToSet(call.batch) : Holds(b.object)}
  IN /\ call.step = "flush"
     /\ \/ Proceeds([batch |-> <<>>, got |-> call.got \cup found,
                     step |-> IF call.todo = <<>> THEN "filter" ELSE "visit"])
        \/ /\ call.batch # <<>>
           /\ \E some \in SUBSET found :
                Proceeds([batch |-> <<>>, todo |-> <<>>, got |-> call.got \cup some,
                          cut |-> TRUE, step |-> "filter"])
     /\ UNCHANGED <<tree, files>>

\* A hit that the policy does not allow any more is withheld, and with it that there is none.
Filter ==
  LET may == {g \in call.got : MaySearch(g.path)}
  IN /\ call.step = "filter"
     /\ Proceeds([step |-> "answered", got |-> may, withheld |-> may # call.got])
     /\ UNCHANGED <<tree, files>>

ScopeSearchNext ==
  \/ \E scope \in Scope : BeginScope(scope)
  \/ Snapshot \/ MayScope \/ Scan \/ Enter \/ EnterPocket \/ Consider \/ Exhaust \/ Walked
  \/ Flush \/ Filter

=============================================================================
