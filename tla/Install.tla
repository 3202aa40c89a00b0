------------------------------- MODULE Install -------------------------------
(***************************************************************************)
(* What the processes of one host share: the releases on disk, the link    *)
(* `current`, the freeze latch, the Supervisor's lock, the configuration,  *)
(* credential and audit ledger (runtime.py, release_config.py), and what   *)
(* happens to them from outside.                                           *)
(*                                                                         *)
(* The runtime manifest that every process reads is a link into `current`: *)
(* reading it is reading disk[current].runtime.                            *)
(***************************************************************************)
EXTENDS Acceptance, ReleaseContent

CONSTANTS
  Release,     \* release ids
  Old,         \* the release that serves at first
  New,         \* the release of the source's HEAD
  Canaries,    \* workspaces that the runtime's canaries name
  Trouble,     \* kinds of disturbances, and "clock": the clock may be set back
  MaxTrouble   \* bound: disturbances

ASSUME ReleasesAssumption == {Old, New} \subseteq Release /\ Old # New
ASSUME CanariesAssumption == Canaries \subseteq Workspace
ASSUME MaxTroubleAssumption == MaxTrouble \in Nat

VARIABLES
  disk,      \* content of a release directory, Nothing when there is none
  current,   \* release that the link names
  frozen,    \* FROZEN.json: failure class in it, Nothing when there is none
  lock,      \* who has supervisor.lock
  registry,  \* workspaces that the registry file declares
  gaps,      \* workspaces whose root is gone, with the reason
  broken,    \* of the credential and the audit ledger, what does not check
  troubles   \* disturbances so far

install == <<disk, current, frozen, lock>>
world == <<registry, gaps, broken>>

Class == {"release_manifest_failure", "credential_security_failure", "audit_integrity_failure",
          "runtime_path_failure", "restart_storm", "recovery_state_failure",
          "sealed_activation_failed", "sealed_activation_interrupted"}

ASSUME NothingAssumption == Nothing \notin Class

InstallTypeOK ==
  /\ current \in Release
  /\ frozen \in Class \cup {Nothing}
  /\ lock \in {"FREE", "SUPERVISOR", "RELEASE"}
  /\ registry \in SUBSET Workspace
  /\ broken \in SUBSET {"credential", "audit"}
  /\ troubles \in 0..MaxTrouble

\* compute_bundle: the configuration that a runtime manifest can record.
Bundle == [registry |-> registry, canaries |-> Canaries]

\* What _build_release leaves, with the configuration that is there.
Unprobed(release) ==
  LET parts == [package |-> Blobs(release), wheel |-> Wheel(Blobs(release), release),
                dependencies |-> "resolved", interpreter |-> "python", service |-> "scripts",
                manifest |-> Nothing, runtime |-> Nothing]
      manifest == NewManifest(parts, release)
  IN [parts EXCEPT !.manifest = manifest, !.runtime = NewRuntime(manifest, Bundle)]

\* ... with the tool contract in its manifest, and with the runtime manifest that selects it.
Unpinned(release) == [Unprobed(release) EXCEPT !.manifest.contract = Reviewed(release)]
Built(release) == [Unpinned(release) EXCEPT !.runtime.manifest = Unpinned(release).manifest]

EmptyDirectory ==
  [package |-> [name \in {} |-> New], wheel |-> {}, dependencies |-> Nothing,
   interpreter |-> Nothing, service |-> Nothing, manifest |-> Nothing, runtime |-> Nothing]

\* The old release serves; the new one may be there, also as a run left it that died before it pinned
\* the manifest.
InstallInit ==
  /\ current = Old
  /\ frozen = Nothing
  /\ lock = "FREE"
  /\ registry = Workspace
  /\ gaps = NoGap
  /\ broken = {}
  /\ troubles = 0
  /\ \E left \in {Nothing, Unpinned(New), Built(New)} :
       disk = [r \in Release |-> IF r = Old THEN Built(r) ELSE IF r = New THEN left ELSE Nothing]

-----------------------------------------------------------------------------

\* validate_release(runtime) of the release that the link names.
CurrentIsValid == ValidRelease(disk[current], current)

\* check_credential and _check_audit.
CredentialPasses == "credential" \notin broken
AuditPasses == "audit" \notin broken

\* atomic_json of FROZEN.json: whatever latch was there is replaced.
Latch(class) == frozen' = class

\* config_violations: the files load, every canary is registered, and they are what was recorded.
ConfigHolds(runtime) ==
  /\ Canaries \subseteq registry
  /\ runtime.bundle = Bundle

\* WorkspaceRegistry.coverage: the registered workspaces and those that cannot be served.
Coverage ==
  LET lost == [w \in DOMAIN gaps \cap registry |-> gaps[w]] IN
  [registered |-> Cardinality(registry),
   available |-> Cardinality(registry) - Cardinality(DOMAIN lost),
   unavailable |-> lost,
   complete |-> lost = NoGap]

-----------------------------------------------------------------------------

\* An alteration that the manifests follow, as somebody who rewrites a release would make it.
Forged(d) ==
  LET manifest == [d.manifest EXCEPT !.files = ReleaseFiles(d), !.wheel = d.wheel]
  IN [d EXCEPT !.manifest = manifest, !.runtime.manifest = manifest]

Altered(d) == {[d EXCEPT !.wheel = @ \cup {Member("stray", "extra", "other")}],
               Forged([d EXCEPT !.dependencies = "other"])}

Disturb(kind) ==
  /\ kind \in Trouble
  /\ troubles < MaxTrouble
  /\ troubles' = troubles + 1

LoseCredential ==
  /\ Disturb("credential")
  /\ broken' = broken \cup {"credential"}
  /\ UNCHANGED <<install, registry, gaps>>

BreakAudit ==
  /\ Disturb("audit")
  /\ broken' = broken \cup {"audit"}
  /\ UNCHANGED <<install, registry, gaps>>

LoseRoot(w) ==
  /\ Disturb("root")
  /\ w \notin DOMAIN gaps
  /\ gaps' = [v \in DOMAIN gaps \cup {w} |-> IF v = w THEN "root_missing" ELSE gaps[v]]
  /\ UNCHANGED <<install, registry, broken>>

ChangeRegistry(S) ==
  /\ Disturb("registry")
  /\ S # registry
  /\ registry' = S
  /\ UNCHANGED <<install, gaps, broken>>

Alter(r) ==
  /\ Disturb("release")
  /\ disk[r] # Nothing
  /\ disk[r].runtime # Nothing
  /\ \E d \in Altered(disk[r]) : disk' = [disk EXCEPT ![r] = d]
  /\ UNCHANGED <<current, frozen, lock, world>>

Outside ==
  \/ LoseCredential
  \/ BreakAudit
  \/ \E w \in Workspace : LoseRoot(w)
  \/ \E S \in SUBSET Workspace : ChangeRegistry(S)
  \/ \E r \in Release : Alter(r)

=============================================================================
