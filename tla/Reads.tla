-------------------------------- MODULE Reads --------------------------------
(***************************************************************************)
(* What UAM reads for a client while others change the tree, the           *)
(* RootScopes and the registry: Reader and ScopeSearch together.           *)
(***************************************************************************)
EXTENDS ScopeSearch

VARIABLE during   \* history: what has held all through the call, or at some time of it

vars == <<tree, files, call, during>>

\* A file that the call would be expected to report: it and everything above it can be opened, it is
\* allowed by the policy and lies no deeper than the call goes.  What is expected all through the call
\* lies in the same directories, under as many names.
ExpectedNow ==
  LET scoped == call.workspace # "static"
      view == IF scoped THEN Beneath(Loaded(policy), <<>>) ELSE Unrestricted
      operation == OperationOf(call.kind)
      open == {d \in Placed : d[2] \notin closed /\ ToSet(d[3]) \cap closed = {}}
      due == {d \in open :
                /\ call.kind \in {"tree", "search", "scope_search"}
                /\ d[2] \in File
                /\ call.kind # "tree" => Holds(d[2]) /\ ~RefusesOtherNames(view, operation, Links(d[2]))
                /\ call.kind = "tree" => Len(d[1]) - Len(call.path) <= TreeDepth + 1
                /\ call.kind = "scope_search" => MaySearch(d[1])
                /\ Allows(view, operation, d[1])
                /\ IsStrictPrefix(call.path, d[1])}
  IN {[path |-> d[1], object |-> d[2], above |-> d[3], links |-> Links(d[2])] : d \in due}

Nothing == [policies |-> {}, expected |-> {}]

Observes ==
  during' = IF call' = NoCall THEN Nothing
            ELSE [policies |-> during.policies \cup {policy'},
                  expected |-> IF call = NoCall THEN ExpectedNow'
                               ELSE IF UNCHANGED <<tree, policy>> THEN during.expected
                               ELSE during.expected \cap ExpectedNow']

Init == TreeInit /\ WorkspacesInit /\ call = NoCall /\ during = Nothing

\* What others do; an answer that is given is looked at as it was given.
Others ==
  /\ call.step # "answered"
  /\ (TreeNext /\ UNCHANGED files) \/ EditPolicy \/ EditRegistry

Next ==
  /\ \/ Others /\ UNCHANGED call
     \/ ReaderNext
     \/ ScopeSearchNext
  /\ Observes

Spec == Init /\ [][Next]_vars

-----------------------------------------------------------------------------

TypeOK ==
  /\ TreeTypeOK
  /\ policy \in Policies
  /\ registry.says \in Registries /\ registry.stamp \in 0..MaxChanges
  /\ loaded.root \in Directory \cup {None}
  /\ call.kind \in Kind \cup {"scope_search", None}
  /\ \A g \in call.got : g.object \in Object

\* What a call takes from a derived workspace or a scope lay, when it was opened, under names that a
\* policy in force during the call allowed, all of them: whatever the path was spelled like,
\* whatever a link led to, whatever was put in the way between a look and an open.  An answer
\* from a derived workspace is given under the policy it was asked under.
ContentIsAllowed ==
  (call.step = "answered" /\ call.workspace # "static") =>
    /\ call.workspace = "derived" => policy = call.bound.generation
    /\ \A g \in call.got : \E p \in during.policies : \A place \in g.places :
         Allows(Beneath(Loaded(p), <<>>), OperationOf(call.kind), place)

\* A digest that is given as complete is of one content: all that was hashed was in the file at once,
\* and was still there, under that name, after the last byte.
DigestIsOneContent ==
  (call.step = "answered" /\ call.complete) =>
    \A i \in DOMAIN call.chunks : call.chunks[i] = call.version

\* A listing or a search that says nothing of a limit or an error has every file that could be
\* opened, was allowed and held the text all through the call, those in an allowed scope inside of
\* a denied one too.
NothingStableIsMissed ==
  (call.step = "answered" /\ call.kind \in {"tree", "search", "scope_search"}
     /\ ~call.cut /\ ~call.skipped) =>
    \A x \in during.expected : x.path \in {g.path : g \in call.got}

-----------------------------------------------------------------------------
(* What the properties take for granted of the tree: without it they do    *)
(* not hold.                                                               *)

\* The names that may ever name something.
MayName(directory, name) ==
  FirstNames[directory][name] # None \/ \E t \in Turns : t[1] = directory /\ t[2] = name

\* Directories are not moved: each has one place, whatever comes and goes there.
Settled(home) ==
  /\ home \in [Directory -> Seq(Name)]
  /\ home[Root] = <<>> /\ home[Spare] = <<>>
  /\ \A d \in Directory, n \in Name :
       FirstNames[d][n] \in Directory => home[FirstNames[d][n]] = Append(home[d], n)
  /\ \A t \in Turns : t[3] \in Directory => home[t[3]] = Append(home[t[1]], t[2])

\* Scopes are spelled as the tree is: NothingStableIsMissed takes that for granted of any tree.
ScopesSpelled(home) ==
  \A d \in Directory, n \in Name, s \in Scope :
    MayName(d, n) /\ CoversFolded(s, Append(home[d], n)) => Covers(s, Append(home[d], n))

\* ContentIsAllowed only where the file system does not tell spellings apart.
SpelledAlike(home) == CaseBlind => ScopesSpelled(home)

=============================================================================
