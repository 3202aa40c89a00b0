---------------------------- MODULE ReleaseContent ----------------------------
(***************************************************************************)
(* What lies in the directory of a release, and the checks that compare it *)
(* with itself, with the commit and with a seal: release_build.py,         *)
(* release_seal.py, release_probe.py, validate_release of runtime.py and   *)
(* _validate_existing_release of release.py.                               *)
(*                                                                         *)
(* A directory is a record of what is in it.  A digest is the content      *)
(* itself: equal digests are equal contents.  The blob of a package file   *)
(* is the release whose commit holds it, as release ids name commits.      *)
(***************************************************************************)
EXTENDS Integers, FiniteSets

CONSTANTS
  Name,     \* package files of every commit
  Nothing   \* a file or directory that is not there

\* The package files of a commit, as Git stores them.
Blobs(release) == [name \in Name |-> release]

\* Members of a wheel: what kind of name it is, the name and the content.
Member(kind, name, blob) == [kind |-> kind, name |-> name, blob |-> blob]

Wheel(package, version) ==
  {Member("package", name, package[name]) : name \in DOMAIN package}
    \cup {Member("METADATA", "METADATA", version)}

-----------------------------------------------------------------------------

\* How one map of files differs from another.
DiffFiles(expected, observed) ==
  [missing |-> DOMAIN expected \ DOMAIN observed,
   unexpected |-> DOMAIN observed \ DOMAIN expected,
   changed |-> {name \in DOMAIN expected \cap DOMAIN observed : expected[name] # observed[name]}]

Same(expected, observed) ==
  LET diff == DiffFiles(expected, observed)
  IN diff.missing \cup diff.unexpected \cup diff.changed = {}

\* Every file of the export is an object of the tree and the other way round.
ExportIsCommits(release, export) == Same(Blobs(release), export)

\* The members of a wheel that the commit does not account for, and what is missing.
WheelViolations(wheel, expected, version) ==
  LET package == {m \in wheel : m.kind = "package"}
      metadata == {m \in wheel : m.kind = "METADATA"}
  IN {m \in wheel : m.kind \in {"unsafe", "bytecode", "stray"}}
       \cup {m \in package : \/ m.name \notin DOMAIN expected
                             \/ expected[m.name] # m.blob
                             \/ \E n \in package : n # m /\ n.name = m.name}
       \cup {Member("package", name, expected[name]) :
               name \in {x \in DOMAIN expected : \A m \in package : m.name # x}}
       \cup {m \in metadata : m.blob # version}
       \cup (IF metadata = {} THEN {Member("METADATA", "METADATA", version)} ELSE {})

\* The wheel and the installed package are the commit's and nothing else.
BuildIsCommits(d, release) ==
  /\ WheelViolations(d.wheel, Blobs(release), release) = {}
  /\ Same(Blobs(release), d.package)

\* The files that a manifest pins: everything installed, the service files and the wheel.
ReleaseFiles(d) ==
  [package |-> d.package, dependencies |-> d.dependencies, interpreter |-> d.interpreter,
   service |-> d.service, wheel |-> d.wheel]

\* The manifest that the build writes; the tool contract follows after the probe.
NewManifest(d, release) ==
  [release |-> release, files |-> ReleaseFiles(d), wheel |-> d.wheel, contract |-> Nothing]

\* The runtime manifest of a release pins its release manifest and the configuration.
NewRuntime(manifest, bundle) == [manifest |-> manifest, bundle |-> bundle]

\* _validate_existing_release: the directory is the whole release that its own manifest describes.
ValidExisting(d, release) ==
  /\ d.manifest # Nothing
  /\ d.manifest.release = release
  /\ d.manifest.files = ReleaseFiles(d)
  /\ d.manifest.contract # Nothing
  /\ d.manifest.wheel = d.wheel

\* validate_release without the link: the runtime manifest selects this very release manifest.
ValidRelease(d, release) ==
  /\ d.runtime # Nothing
  /\ d.manifest # Nothing
  /\ d.manifest = d.runtime.manifest
  /\ d.manifest.release = release
  /\ d.manifest.contract # Nothing
  /\ d.manifest.files = ReleaseFiles(d)
  /\ d.manifest.wheel = d.wheel

-----------------------------------------------------------------------------

\* create_seal refuses a release that is not the commit's; the seal holds what it observed.
Sealable(d, release) ==
  /\ d.manifest # Nothing
  /\ d.manifest.release = release
  /\ d.manifest.contract # Nothing
  /\ BuildIsCommits(d, release)

SealOf(d, release) ==
  [release |-> release, manifest |-> d.manifest, runtime |-> d.runtime, wheel |-> d.wheel,
   package |-> Blobs(release), dependencies |-> d.dependencies, service |-> d.service,
   interpreter |-> d.interpreter]

\* The commit, the tree and the directory are the sealed ones.
IdentityHolds(seal, release) == seal.release = release

\* Everything the seal states, derived again from the directory and from Git.
VerifySeal(seal, d, release) ==
  /\ IdentityHolds(seal, release)
  /\ d # Nothing
  /\ d.manifest = seal.manifest
  /\ d.runtime = seal.runtime
  /\ d.wheel = seal.wheel
  /\ Same(seal.package, d.package)
  /\ Same(seal.package, Blobs(release))
  /\ d.dependencies = seal.dependencies
  /\ d.service = seal.service
  /\ d.interpreter = seal.interpreter

\* The tool contract that is committed with a release.
Reviewed(release) == [tool |-> release]

\* The contract that the artifact serves against the reviewed one: exact names and digests.
ContractMatches(reviewed, actual) == Same(reviewed, actual)

=============================================================================
