-------------------------------- MODULE Scopes --------------------------------
(***************************************************************************)
(* RootScopes: who may do what where (root_scope.py), and the authority of *)
(* a path beneath the root of a workspace (path_authority.py).             *)
(*                                                                         *)
(* A path is a sequence of names.  Fold is a name as a file system         *)
(* compares it that ignores case and normalization (policy.fold_name): the *)
(* caller chooses the spelling, so a path is judged as it is spelled and   *)
(* as it folds, and both must allow.                                       *)
(***************************************************************************)
EXTENDS Naturals, Sequences, FiniteSets, SequencesExt

CONSTANTS
  None,       \* no object, no scope, no answer
  Name,       \* names of directory entries
  Fold,       \* what each name folds to
  Scope,      \* ids of RootScopes
  ScopeRoot   \* the directory at which a scope starts

ASSUME FoldAssumption == Fold \in [Name -> Name] /\ \A n \in Name : Fold[Fold[n]] = Fold[n]
ASSUME ScopeAssumption == None \notin Scope
ASSUME ScopeRootAssumption == ScopeRoot \in [Scope -> Seq(Name)]

\* f, and g where f says nothing (TLC's @@, written out so that the prover can expand it).
With(f, g) == [x \in DOMAIN f \cup DOMAIN g |-> IF x \in DOMAIN f THEN f[x] ELSE g[x]]

Right == {"discover", "metadata_read", "content_read", "text_search", "git_observe", "index",
          "auto_admit", "directory_admit"}

IsPolicy(file) ==
  /\ IsFiniteSet(DOMAIN file) /\ DOMAIN file \subseteq Scope
  /\ \A s \in DOMAIN file : file[s] \subseteq Right

NoPolicy == [s \in {} |-> {}]

\* A configuration that is missing or cannot be read grants nothing.  Every question below asks the
\* file again: what was loaded is kept only while size, time and hash are those of the file.
Loaded(file) == IF file = None THEN NoPolicy ELSE file

Folded(path) == [i \in DOMAIN path |-> Fold[path[i]]]

Covers(scope, path) == IsPrefix(ScopeRoot[scope], path)

CoversFolded(scope, path) == IsPrefix(Folded(ScopeRoot[scope]), Folded(path))

MostSpecific(scopes) ==
  IF scopes = {} THEN None
  ELSE CHOOSE s \in scopes : \A t \in scopes : Len(ScopeRoot[t]) <= Len(ScopeRoot[s])

ResolveScope(policy, path) == MostSpecific({s \in DOMAIN policy : Covers(s, path)})

\* What both views of the path grant.  A path that no scope covers as it is spelled is uncovered.
Authority(policy, path) ==
  LET exact == ResolveScope(policy, path)
      folded == MostSpecific({s \in DOMAIN policy : CoversFolded(s, path)})
  IN IF None \in {exact, folded} THEN {} ELSE policy[exact] \cap policy[folded]

NestedScopes(policy, root) ==
  {s \in DOMAIN policy : /\ Len(ScopeRoot[s]) > Len(root)
                         /\ IsPrefix(Folded(root), Folded(ScopeRoot[s]))}

-----------------------------------------------------------------------------

(***************************************************************************)
(* A view is what one operation knows of the scopes beneath the root of    *)
(* its workspace: it is taken once.  A static registration is its own      *)
(* contract, and its view has no scope.                                    *)
(***************************************************************************)
Beneath(policy, root) == [s \in NestedScopes(policy, root) |-> policy[s]]

Unrestricted == NoPolicy

Operation == {"read", "search", "enumerate", "scope_search"}

\* search returns lines, scope_search only which files have the text.
Grants(rights, operation) ==
  \/ operation = "read" /\ "content_read" \in rights
  \/ operation = "search" /\ {"content_read", "text_search"} \subseteq rights
  \/ operation = "enumerate" /\ {"content_read", "metadata_read"} \cap rights # {}
  \/ operation = "scope_search" /\ "text_search" \in rights

\* The scopes that must all allow: the most specific one as spelled, and the most specific as folded.
Governing(view, path) ==
  {MostSpecific({s \in DOMAIN view : Covers(s, path)}),
   MostSpecific({s \in DOMAIN view : CoversFolded(s, path)})} \ {None}

Allows(view, operation, path) ==
  \A s \in Governing(view, path) : Grants(view[s], operation)

Denies(view, operation) == \E s \in DOMAIN view : ~Grants(view[s], operation)

\* The same bytes under another name may lie in the scope that denies.
RefusesOtherNames(view, operation, names) == Denies(view, operation) /\ names > 1

\* A walk enters a directory that denies when a scope beneath it allows.
Descends(view, operation, directory) ==
  \/ Allows(view, operation, directory)
  \/ \E s \in DOMAIN view : /\ Grants(view[s], operation)
                            /\ IsStrictPrefix(directory, ScopeRoot[s])

\* Scopes that allow inside of one that denies: a walk that never lists the latter must be led there.
Pockets(view, operation) ==
  {ScopeRoot[s] : s \in {t \in DOMAIN view : /\ Allows(view, operation, ScopeRoot[t])
                                             /\ ~Allows(view, operation, Front(ScopeRoot[t]))}}

=============================================================================
