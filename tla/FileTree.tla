------------------------------- MODULE FileTree -------------------------------
(***************************************************************************)
(* The files beneath the roots that UAM serves, as the operating system    *)
(* (external) keeps them: directories hold names of objects, and whoever   *)
(* opened a directory or a file keeps that object whatever becomes of its  *)
(* name.  Others change names, contents and permissions at any moment.     *)
(***************************************************************************)
EXTENDS Scopes

CONSTANTS
  Root,        \* the directory that the workspace's root names at first
  Directory,
  File,
  Link,
  Target,      \* text of a symlink: names, and ".."
  Absolute,    \* symlinks whose text starts at the root
  FirstNames,  \* what each directory holds at first
  Turns,       \* entries that others may set: directory, name, object
  Private,     \* objects that others may close to UAM's account, and open again
  Spare,       \* the directory that others may put in the root's place
  CaseBlind,   \* the file system compares names folded
  MaxChanges   \* bound: changes of the tree

ASSUME TreeAssumption ==
  /\ IsFiniteSet(Name) /\ IsFiniteSet(Directory)
  /\ Directory \cap File = {} /\ (Directory \cup File) \cap Link = {}
  /\ None \notin Directory \cup File \cup Link
  /\ Root \in Directory
  /\ FirstNames \in [Directory -> [Name -> Directory \cup File \cup Link \cup {None}]]
  /\ CaseBlind => \A d \in Directory : \A n, m \in {k \in Name : FirstNames[d][k] # None} :
                    Fold[n] = Fold[m] => n = m
  /\ Target \in [Link -> Seq(Name \cup {".."})]
  /\ Absolute \subseteq Link
  /\ Turns \subseteq Directory \X Name \X (Directory \cup File \cup Link \cup {None})
  /\ Private \subseteq Directory \cup File
  /\ Spare \in Directory
  /\ CaseBlind \in BOOLEAN
  /\ MaxChanges \in Nat

VARIABLES
  names,    \* entries of each directory
  text,     \* content of a file and when it was written: both change together
  closed,   \* objects that UAM's account may not open
  top,      \* the directory that the root names now
  changes   \* changes so far

tree == <<names, text, closed, top, changes>>

Object == Directory \cup File \cup Link

TreeTypeOK ==
  /\ names \in [Directory -> [Name -> Object \cup {None}]]
  /\ text \in [File -> 0..MaxChanges]
  /\ closed \subseteq Directory \cup File
  /\ top \in Directory
  /\ changes \in 0..MaxChanges

TreeInit ==
  /\ names = FirstNames
  /\ text = [f \in File |-> 0]
  /\ closed = {}
  /\ top = Root
  /\ changes = 0

\* What a name means in an open directory.
At(directory, name) ==
  IF ~CaseBlind THEN names[directory][name]
  ELSE LET same == {n \in Name : Fold[n] = Fold[name] /\ names[directory][n] # None}
       IN IF same = {} THEN None ELSE names[directory][CHOOSE n \in same : TRUE]

\* st_nlink
Links(object) == Cardinality({e \in Directory \X Name : names[e[1]][e[2]] = object})

\* Every path below the root that names something, with what it names and the directories on the way,
\* the root first (the tree is three deep).
Placed ==
  LET Within(places) ==
        UNION {{<<Append(d[1], n), names[d[2]][n], Append(d[3], d[2])>> :
                  n \in {m \in Name : names[d[2]][m] # None}} :
               d \in {e \in places : e[2] \in Directory}}
      one == Within({<<<<>>, top, <<>>>>})
      two == Within(one)
  IN one \cup two \cup Within(two)

PlacesOf(object) ==
  {d[1] : d \in {e \in Placed : e[2] = object}} \cup (IF object = top THEN {<<>>} ELSE {})

-----------------------------------------------------------------------------

Change == changes < MaxChanges /\ changes' = changes + 1

\* What is in a directory under other spellings of a name.
OtherSpellings(directory, name) ==
  {n \in Name \ {name} : Fold[n] = Fold[name] /\ names[directory][n] # None}

\* An entry is removed, created or replaced.  A file system that does not tell spellings apart has one
\* entry for all of them.
Turn ==
  \E t \in Turns :
    /\ Change
    /\ names[t[1]][t[2]] # t[3]
    /\ CaseBlind /\ t[3] # None => OtherSpellings(t[1], t[2]) = {}
    /\ names' = [names EXCEPT ![t[1]][t[2]] = t[3]]
    /\ UNCHANGED <<text, closed, top>>

Rewrite ==
  \E f \in File :
    /\ Change
    /\ text' = [text EXCEPT ![f] = changes + 1]
    /\ UNCHANGED <<names, closed, top>>

Forbid ==
  \E o \in Private :
    /\ Change
    /\ closed' = (closed \cup {o}) \ (closed \cap {o})
    /\ UNCHANGED <<names, text, top>>

\* The root is replaced by another directory, or the first one is put back.
ReplaceRoot ==
  /\ Change
  /\ top' = IF top = Root THEN Spare ELSE Root
  /\ UNCHANGED <<names, text, closed>>

TreeNext == Turn \/ Rewrite \/ Forbid \/ ReplaceRoot

=============================================================================
