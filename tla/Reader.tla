-------------------------------- MODULE Reader --------------------------------
(***************************************************************************)
(* WorkspaceReader: read_file, file_digest, tree and search_text           *)
(* (workspace.py, descriptor_io.py, file_digest.py).  A call decides by    *)
(* the path as it is written, walks it name by name through open           *)
(* directories, decides again by where it arrived, and checks before it    *)
(* answers that root and authority are what they were.  Between any two    *)
(* steps others change the tree and the policy.  The calls of a process    *)
(* share nothing but what they read, so one at a time is enough.           *)
(***************************************************************************)
EXTENDS Workspaces

CONSTANTS
  Paths,      \* paths that clients name
  MaxHops,    \* MAX_SYMLINK_HOPS
  TreeDepth   \* depth that tree is asked for

ASSUME PathsAssumption == Paths \subseteq Seq(Name \cup {".."}) /\ ".." \notin Name
ASSUME DepthAssumption == TreeDepth \in Nat

VARIABLE call

NoCall ==
  [step |-> "idle", kind |-> None, workspace |-> None, path |-> <<>>, bound |-> None,
   view |-> NoPolicy, at |-> <<>>, below |-> <<>>, pending |-> <<>>, hops |-> 0, again |-> FALSE,
   held |-> None, parts |-> <<>>, version |-> 0, chunks |-> <<>>, complete |-> FALSE,
   todo |-> <<>>, got |-> {}, withheld |-> FALSE, skipped |-> FALSE, cut |-> FALSE, batch |-> <<>>]

Kind == {"read", "digest", "tree", "search"}

OpensFile(kind) == kind \in {"read", "digest"}

\* The operation that the scopes are asked for.
OperationOf(kind) ==
  IF OpensFile(kind) THEN "read" ELSE IF kind = "tree" THEN "enumerate" ELSE kind

Proceeds(fields) == call' = With(fields, call)

Refused == call' = NoCall

\* Content taken, by the path it is reported under, and where the object was when it was opened.
Taken(path, object) == [path |-> path, object |-> object, places |-> PlacesOf(object)]

\* _reader, and then its view of the nested scopes.
Begin(kind, workspace, path) ==
  /\ call = NoCall
  /\ Reads(workspace)
  /\ IF Bind(workspace) = None THEN Refused
     ELSE call' = [NoCall EXCEPT !.step = "view", !.kind = kind, !.workspace = workspace,
                                 !.path = path, !.bound = Bind(workspace)]
  /\ UNCHANGED <<tree, policy, registry>>

TakeView ==
  /\ call.step = "view"
  /\ Proceeds([step |-> "session", view |-> PathPolicy(call.workspace)])
  /\ UNCHANGED <<tree, files>>

\* _reverify_resolution
StillBound == Bind(call.workspace) = call.bound

Session ==
  /\ call.step = "session"
  /\ Reads(call.workspace)
  /\ IF StillBound THEN Proceeds([step |-> "root"]) ELSE Refused
  /\ UNCHANGED <<tree, policy, registry>>

\* verify_bound_root_fd
RootIsBound == top = call.bound.root /\ top \notin closed

\* open_verified_root, and _authorize: the path as it is written, before the file system is asked.
OpenRoot ==
  /\ call.step = "root"
  /\ IF RootIsBound /\ Allows(call.view, OperationOf(call.kind), call.path)
     THEN Proceeds([step |-> "stat", at |-> <<top>>, pending |-> call.path])
     ELSE Refused
  /\ UNCHANGED <<tree, files>>

-----------------------------------------------------------------------------
(* open_beneath *)

\* A digest is told that its second walk did not arrive; any other walk ends the call.
Astray ==
  IF call.again THEN Proceeds([step |-> "return"]) ELSE Refused

Arrives(object, parts) ==
  LET file == OpensFile(call.kind)
  IN IF ~Allows(call.view, OperationOf(call.kind), parts)
        \/ (file /\ RefusesOtherNames(call.view, "read", Links(object)))
     THEN Refused
     ELSE Proceeds([step |-> IF file THEN "bytes" ELSE "list", held |-> object, parts |-> parts,
                    version |-> IF file THEN text[object] ELSE 0,
                    got |-> IF file THEN {Taken(parts, object)} ELSE {}])

\* One name: what it is, not followed.
Stat ==
  LET here == Last(call.at)
      name == Head(call.pending)
      object == At(here, name)
      last == Len(call.pending) = 1
      wanted == IF last /\ OpensFile(call.kind) THEN File ELSE Directory
  IN /\ call.step = "stat"
     /\ \/ /\ call.pending = <<>>
           /\ IF OpensFile(call.kind) THEN Astray ELSE Arrives(here, call.below)
        \/ /\ call.pending # <<>>
           /\ IF name = ".."
              THEN IF call.below = <<>> THEN Astray
                   ELSE Proceeds([at |-> Front(call.at), below |-> Front(call.below),
                                  pending |-> Tail(call.pending)])
              ELSE IF here \in closed THEN Astray
              ELSE IF object \in Link
              THEN IF call.hops = MaxHops THEN Astray
                   ELSE Proceeds([hops |-> call.hops + 1,
                                  at |-> IF object \in Absolute THEN <<call.at[1]>> ELSE call.at,
                                  below |-> IF object \in Absolute THEN <<>> ELSE call.below,
                                  pending |-> Target[object] \o Tail(call.pending)])
              ELSE IF object \in wanted THEN Proceeds([step |-> "open"])
              ELSE Astray
     /\ UNCHANGED <<tree, files>>

\* Mutant of Opens: the kernel follows a link that was put there meanwhile.
OpensFollowing(directory, name) ==
  LET object == At(directory, name)
  IN IF object \in Link THEN At(top, Target[object][1]) ELSE object

\* open_child: O_NOFOLLOW
Opens(directory, name) == At(directory, name)

\* Mutant of SameFile: size and time are not compared.
SameInode(object) == object = call.held

SameFile(object) == object = call.held /\ text[object] = call.version

\* The same name, opened: it may have become something else.
Open ==
  LET name == Head(call.pending)
      object == Opens(Last(call.at), name)
      last == Len(call.pending) = 1
      parts == Append(call.below, name)
      wanted == IF last /\ OpensFile(call.kind) THEN File ELSE Directory
  IN /\ call.step = "open"
     /\ IF object \notin wanted \/ Last(call.at) \in closed THEN Astray
        ELSE IF object \in closed
        THEN IF last /\ call.kind = "digest" THEN Proceeds([step |-> "return", complete |-> FALSE])
             ELSE Astray
        ELSE IF ~last
        THEN Proceeds([step |-> "stat", at |-> Append(call.at, object), below |-> parts,
                       pending |-> Tail(call.pending)])
        ELSE IF call.again
        THEN Proceeds([step |-> "return", complete |-> SameFile(object)])
        ELSE Arrives(object, parts)
     /\ UNCHANGED <<tree, files>>

-----------------------------------------------------------------------------
(* read_bounded and digest_opened_file *)

Chunks == Append(call.chunks, text[call.held])

\* The descriptor's next bytes, two times; a file that is longer than may be read refuses the call.
ReadBytes ==
  /\ call.step = "bytes" /\ call.kind = "read"
  /\ \/ Proceeds([chunks |-> Chunks, step |-> IF Len(Chunks) = 1 THEN "bytes" ELSE "return"])
     \/ Refused
  /\ UNCHANGED <<tree, files>>

\* After the last byte the name is walked once more.  At the end of the budget there is no digest.
HashBytes ==
  /\ call.step = "bytes" /\ call.kind = "digest"
  /\ \/ Len(Chunks) = 1 /\ Proceeds([chunks |-> Chunks])
     \/ /\ Len(Chunks) # 1
        /\ Proceeds([chunks |-> Chunks, step |-> "stat", again |-> TRUE, at |-> <<call.at[1]>>,
                     below |-> <<>>, hops |-> 0, pending |-> call.parts])
     \/ Proceeds([step |-> "return"])
  /\ UNCHANGED <<tree, files>>

-----------------------------------------------------------------------------
(* tree and search_text: what is still to be visited is a sequence of names in open directories *)

Frame(kind, directory, name, parts) ==
  [kind |-> kind, directory |-> directory, name |-> name, parts |-> parts]

\* The entries of a directory that a walk looks at: never a link.
Entries(directory, object) == {n \in Name : names[directory][n] \in object}

Frames(kind, directory, parts, some) ==
  LET order == SetToSeq(some)
  IN [i \in DOMAIN order |-> Frame(kind, directory, order[i], Append(parts, order[i]))]

\* _tree_directory
ListTree(directory, parts, rest) ==
  LET deeper == Len(parts) - Len(call.parts) < TreeDepth
      dirs == IF deeper THEN Entries(directory, Directory) ELSE {}
      into == {n \in dirs : Descends(call.view, "enumerate", Append(parts, n))}
      shown == {n \in into \cup Entries(directory, File) :
                Allows(call.view, "enumerate", Append(parts, n))}
      hidden == (dirs \cup Entries(directory, File)) \ shown
  IN Proceeds([step |-> "visit", todo |-> Frames("dir", directory, parts, into) \o rest,
               withheld |-> call.withheld \/ hidden # {},
               got |-> call.got \cup
                       {[path |-> Append(parts, n), object |-> names[directory][n],
                         places |-> {Append(p, n) : p \in PlacesOf(directory)}] : n \in shown}])

\* _search_directory: its files, then its directories.
ListSearch(directory, parts, rest) ==
  LET dirs == Entries(directory, Directory)
      into == {n \in dirs : Descends(call.view, "search", Append(parts, n))}
  IN Proceeds([step |-> "visit", withheld |-> call.withheld \/ into # dirs,
               todo |-> Frames("file", directory, parts, Entries(directory, File))
                        \o Frames("dir", directory, parts, into) \o rest])

List(directory, parts, rest) ==
  IF call.kind = "tree" THEN ListTree(directory, parts, rest) ELSE ListSearch(directory, parts, rest)

ListBase ==
  /\ call.step = "list"
  /\ List(call.held, call.parts, <<>>)
  /\ UNCHANGED <<tree, files>>

\* A directory that cannot be opened any more is left out without a word.
EnterDirectory ==
  LET frame == Head(call.todo)
      object == Opens(frame.directory, frame.name)
  IN /\ call.step = "visit" /\ call.todo # <<>> /\ frame.kind = "dir"
     /\ call.kind \in {"tree", "search"}
     /\ IF object \in Directory \ closed /\ frame.directory \notin closed
        THEN List(object, frame.parts, Tail(call.todo))
        ELSE Proceeds([todo |-> Tail(call.todo)])
     /\ UNCHANGED <<tree, files>>

\* Whether what is searched for is in a file: nothing that others write later holds it.
Holds(file) == text[file] = 0

\* _search_file
SearchFile ==
  LET frame == Head(call.todo)
      object == Opens(frame.directory, frame.name)
      rest == Tail(call.todo)
  IN /\ call.step = "visit" /\ call.todo # <<>> /\ frame.kind = "file"
     /\ call.kind = "search"
     /\ IF ~Allows(call.view, "search", frame.parts) THEN Proceeds([withheld |-> TRUE, todo |-> rest])
        ELSE IF object \in Link \cup (File \cap closed) \/ frame.directory \in closed
        THEN Proceeds([skipped |-> TRUE, todo |-> rest])
        ELSE IF object \notin File THEN Proceeds([todo |-> rest])
        ELSE IF RefusesOtherNames(call.view, "search", Links(object))
        THEN Proceeds([withheld |-> TRUE, todo |-> rest])
        ELSE IF Holds(object)
        THEN Proceeds([got |-> call.got \cup {Taken(frame.parts, object)}, todo |-> rest])
        ELSE Proceeds([todo |-> rest])
     /\ UNCHANGED <<tree, files>>

\* max_entries, max_search_files, max_results
Limit ==
  /\ call.step = "visit" /\ call.kind \in {"tree", "search"} /\ call.todo # <<>>
  /\ Proceeds([step |-> "return", cut |-> TRUE, todo |-> <<>>])
  /\ UNCHANGED <<tree, files>>

WalkEnds ==
  /\ call.step = "visit" /\ call.kind \in {"tree", "search"} /\ call.todo = <<>>
  /\ Proceeds([step |-> "return"])
  /\ UNCHANGED <<tree, files>>

\* _verify_return_stage: the answer is given only by the authority that it was asked under.
Return ==
  /\ call.step = "return"
  /\ Reads(call.workspace)
  /\ IF RootIsBound /\ StillBound THEN Proceeds([step |-> "answered"]) ELSE Refused
  /\ UNCHANGED <<tree, policy, registry>>

Done ==
  /\ call.step = "answered"
  /\ Refused
  /\ UNCHANGED <<tree, files>>

ReaderNext ==
  \/ \E kind \in Kind, workspace \in Workspace, path \in Paths : Begin(kind, workspace, path)
  \/ TakeView \/ Session \/ OpenRoot \/ Stat \/ Open \/ ReadBytes \/ HashBytes
  \/ ListBase \/ EnterDirectory \/ SearchFile \/ Limit \/ WalkEnds
  \/ Return \/ Done

=============================================================================
