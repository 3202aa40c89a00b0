------------------------------ MODULE ReleaseRun ------------------------------
(***************************************************************************)
(* `uam release` (release.py): a run stages the release of HEAD, passes    *)
(* the gates, takes the Supervisor's lock, stops the tunnel, switches      *)
(* `current`, starts the tunnel and judges what Doctor reports.  A sealed  *)
(* run activates exactly what its seal names, and isolates the install     *)
(* when it fails after it stopped the service.                             *)
(*                                                                         *)
(* An interruption (KeyboardInterrupt) can be caught, SIGTERM and SIGKILL  *)
(* end the process where it is: no handler is installed.                   *)
(***************************************************************************)
EXTENDS Supervisor

CONSTANTS
  Kind,            \* kinds of runs: "PLAIN", "SEALED", "DRY"
  Declarations,    \* acceptance declarations, or Strict
  Signal,          \* how a process may end: "INTERRUPT", "SIGTERM", "SIGKILL"
  Flaw,            \* what may go wrong in a run: "stage", "start", "stop", "switch", "latch"
  MaxRuns          \* bound: runs

ASSUME KindAssumption == Kind \subseteq {"PLAIN", "SEALED", "DRY"}
ASSUME DeclarationsAssumption == \A d \in Declarations \ {Strict} : Declaration(d)
ASSUME SignalAssumption == Signal \subseteq {"INTERRUPT", "SIGTERM", "SIGKILL"}
ASSUME MaxRunsAssumption == MaxRuns \in Nat

VARIABLES
  phase,     \* what the run does next
  run,       \* what it was asked for and what it did so far; `verified` and `checked` are the
             \* disturbances there had been at its last checks before and under the lock
  examined,  \* what Doctor found in the switched install
  runs       \* runs begun

release == <<phase, run, examined, runs>>

Phase == {"IDLE", "STAGE", "BUILD", "GATES", "PROBE", "PIN", "VERIFY", "LOCK", "GUARDS", "STOP",
          "STOPPING", "SWITCH", "MANIFEST", "START", "REFRESH", "DOCTOR", "JUDGE", "ISOLATE",
          "ISOLATING", "LATCH"}

\* Where an exception or an interruption is caught and a sealed run isolates the install.
Guarded == {"SWITCH", "MANIFEST", "START", "REFRESH", "DOCTOR", "JUDGE"}

\* How a run ended; "UNLATCHED" returned or was caught, and its isolation reports no latch.
End == {"NONE", "RETURNED", "CAUGHT", "UNLATCHED", "INTERRUPT", "SIGTERM", "SIGKILL"}

NoRun == [kind |-> "PLAIN", declaration |-> Strict, seal |-> Nothing, recorded |-> Nothing,
          stopped |-> FALSE, started |-> FALSE, postOk |-> FALSE, accepted |-> FALSE,
          verified |-> 0, checked |-> 0, end |-> "NONE"]

ReleaseTypeOK ==
  /\ phase \in Phase
  /\ run.end \in End
  /\ run.kind \in {"PLAIN", "SEALED", "DRY"}
  /\ {run.stopped, run.started, run.postOk, run.accepted} \subseteq BOOLEAN
  /\ runs \in 0..MaxRuns

ReleaseInit ==
  /\ phase = "IDLE"
  /\ run = NoRun
  /\ examined = Nothing
  /\ runs = 0

Sealed == run.kind = "SEALED"
Candidate == disk[New]

\* What no step of a run writes.
Else == <<world, troubles, supervisor, kick, origin, identity>>

Advance(next) ==
  /\ phase' = next
  /\ UNCHANGED <<lock, examined>>

\* What is kept of a run that is over: that a sealed one had stopped the service, and its end.
Remembered(end) ==
  IF Sealed /\ run.stopped
  THEN [NoRun EXCEPT !.kind = "SEALED", !.stopped = TRUE, !.end = end]
  ELSE NoRun

\* The run is over; closing the file gives the lock back.
Over(end) ==
  /\ phase' = "IDLE"
  /\ run' = Remembered(end)
  /\ examined' = Nothing
  /\ lock' = IF lock = "RELEASE" THEN "FREE" ELSE lock

\* A step that refuses or fails outside the guarded part.
Refuse ==
  /\ Over("RETURNED")
  /\ UNCHANGED <<disk, current, frozen>>

-----------------------------------------------------------------------------

\* The runtime loads, the declaration and the seal are read, and a freeze refuses the run.  A seal
\* is made of a release that is on disk.
BeginRun(kind, declaration) ==
  /\ phase = "IDLE"
  /\ frozen = Nothing
  /\ runs < MaxRuns
  /\ runs' = runs + 1
  /\ examined' = Nothing
  /\ \E r \in Release :
       /\ IF kind = "SEALED" THEN disk[r] # Nothing /\ Sealable(disk[r], r) ELSE r = New
       /\ run' = [NoRun EXCEPT !.kind = kind, !.declaration = declaration,
                               !.seal = IF kind = "SEALED" THEN SealOf(disk[r], r) ELSE Nothing]
  /\ phase' = "STAGE"
  /\ UNCHANGED <<install, tunnel, world, troubles, supervisor>>

\* An existing release is validated and reused, a missing one is built; a sealed run never builds.
StageCandidate ==
  /\ phase = "STAGE"
  /\ LET mayUse == /\ Sealed => Candidate # Nothing /\ IdentityHolds(run.seal, New)
                   /\ Candidate # Nothing => ValidExisting(Candidate, New)
     IN \/ /\ mayUse
           /\ Advance(IF Candidate = Nothing THEN "BUILD" ELSE "GATES")
           /\ disk' = IF Candidate = Nothing THEN [disk EXCEPT ![New] = EmptyDirectory] ELSE disk
           /\ UNCHANGED <<run, current, frozen>>
        \/ /\ ~mayUse \/ "stage" \in Flaw  \* no source, a dirty worktree, git fails
           /\ Refuse
  /\ UNCHANGED <<Else, job, wrapper, client, runs>>

\* What git archive may export, and what may be in the wheel that is built of it: the commit's files,
\* or something else.
Exports == {Blobs(New)} \cup (IF "stage" \in Flaw THEN {[name \in Name |-> Old]} ELSE {})
Wheels(export) == {Wheel(export, New)} \cup
  (IF "stage" \in Flaw THEN {Wheel(export, New) \cup {Member("bytecode", "core", "other")}} ELSE {})

\* _build_release.  A build that fails, or is not the commit's, is removed again.
BuildRelease ==
  /\ phase = "BUILD"
  /\ \E export \in Exports : \E wheel \in Wheels(export) :
       LET parts == [Unprobed(New) EXCEPT !.wheel = wheel, !.package = export]
           manifest == NewManifest(parts, New)
           built == [parts EXCEPT !.manifest = manifest, !.runtime = NewRuntime(manifest, Bundle)]
       IN IF ExportIsCommits(New, export) /\ BuildIsCommits(built, New)
          THEN /\ disk' = [disk EXCEPT ![New] = built]
               /\ Advance("GATES")
               /\ UNCHANGED run
          ELSE /\ disk' = [disk EXCEPT ![New] = Nothing]
               /\ Over("RETURNED")
  /\ UNCHANGED <<Else, current, frozen, job, wrapper, client, runs>>

\* _guard_sealed_release: its own manifest, and everything the seal states.
SealGuard == Sealed => ValidExisting(Candidate, New) /\ VerifySeal(run.seal, Candidate, New)

\* _guard_config_bundle.
ConfigGuard == Candidate.runtime # Nothing /\ ConfigHolds(Candidate.runtime)

\* Before the release's own code is run: it is the sealed one, and the files it is probed against
\* are its combination.
CheckBeforeProbe ==
  /\ phase = "GATES"
  /\ IF SealGuard /\ ConfigGuard
     THEN Advance("PROBE") /\ UNCHANGED <<run, disk, current, frozen>>
     ELSE Refuse
  /\ UNCHANGED <<Else, job, wrapper, client, runs>>

\* What the artifact may say of its contract.
Served == {Reviewed(New)} \cup (IF "stage" \in Flaw THEN {Reviewed(Old)} ELSE {})

\* The artifact reports its contract and the coverage.  A contract that the manifest does not have
\* yet goes into it, unless the release is sealed.
ProbeRelease ==
  /\ phase = "PROBE"
  /\ \E actual \in Served :
       LET recorded == Candidate.manifest.contract = actual IN
       IF ~ContractMatches(Reviewed(New), actual) \/ (Sealed /\ ~recorded)
       THEN Refuse
       ELSE IF ~recorded
       THEN /\ disk' = [disk EXCEPT ![New].manifest.contract = actual]
            /\ Advance("PIN")
            /\ UNCHANGED <<run, current, frozen>>
       ELSE IF CheckCoverage(Coverage, run.declaration) = {}
       THEN Advance("VERIFY") /\ UNCHANGED <<run, disk, current, frozen>>
       ELSE Refuse
  /\ UNCHANGED <<Else, job, wrapper, client, runs>>

\* _update_runtime_sha: the runtime manifest selects the manifest that was just rewritten.
PinManifest ==
  /\ phase = "PIN"
  /\ disk' = [disk EXCEPT ![New].runtime.manifest = Candidate.manifest]
  /\ IF CheckCoverage(Coverage, run.declaration) = {}
     THEN Advance("VERIFY") /\ UNCHANGED run
     ELSE Over("RETURNED")
  /\ UNCHANGED <<Else, current, frozen, job, wrapper, client, runs>>

\* _verify_artifacts.
ArtifactsVerified == ValidRelease(Candidate, New) /\ BuildIsCommits(Candidate, New)

VerifyArtifacts ==
  /\ phase = "VERIFY"
  /\ IF ArtifactsVerified /\ run.kind # "DRY"
     THEN /\ Advance("LOCK")
          /\ run' = [run EXCEPT !.verified = troubles]
          /\ UNCHANGED <<disk, current, frozen>>
     ELSE Refuse
  /\ UNCHANGED <<Else, job, wrapper, client, runs>>

-----------------------------------------------------------------------------

\* A running cycle is waited for, up to a limit.
HoldLock ==
  /\ phase = "LOCK"
  /\ IF lock = "FREE"
     THEN /\ lock' = "RELEASE"
          /\ phase' = "GUARDS"
          /\ UNCHANGED <<run, examined, disk, current, frozen>>
     ELSE Refuse
  /\ UNCHANGED <<Else, job, wrapper, client, runs>>

\* Mutant of MaySwitch: what was checked before the lock is not checked again.
MaySwitchAsBefore == frozen = Nothing

\* What was checked before the lock was held is checked again under it.
MaySwitch == frozen = Nothing /\ SealGuard /\ ConfigGuard

CheckUnderLock ==
  /\ phase = "GUARDS"
  /\ IF MaySwitch
     THEN /\ Advance("STOP")
          /\ run' = [run EXCEPT !.checked = troubles]
          /\ UNCHANGED <<disk, current, frozen>>
     ELSE Refuse
  /\ UNCHANGED <<Else, job, wrapper, client, runs>>

\* launchctl bootout.
Bootout == job' = IF job = "LOADED" THEN "ENDING" ELSE job

\* _stop_tunnel: the recorded process is read, and the job is booted out.  A freeze refuses.
StopTunnel ==
  /\ phase = "STOP"
  /\ IF frozen = Nothing
     THEN /\ Bootout
          /\ run' = [run EXCEPT !.recorded = identity]
          /\ Advance("STOPPING")
          /\ UNCHANGED <<disk, current, frozen>>
     ELSE Refuse /\ UNCHANGED job
  /\ UNCHANGED <<Else, wrapper, client, runs>>

\* Mutant of TunnelIsGone: bootout is taken for the stop.
TunnelIsGoneByBootout == job # "LOADED"

\* launchd does not list the job any more, and the recorded process is gone.
TunnelIsGone ==
  /\ job = "UNLOADED"
  /\ run.recorded # Nothing => client.state = "NONE" \/ client.id # run.recorded.id

TunnelStopped ==
  /\ phase = "STOPPING"
  /\ TunnelIsGone
  /\ run' = [run EXCEPT !.stopped = TRUE]
  /\ Advance("SWITCH")
  /\ UNCHANGED <<Else, disk, current, frozen, job, wrapper, client, runs>>

\* No answer in time: nothing is switched and nothing is started.
StopUncertain ==
  /\ phase = "STOPPING"
  /\ "stop" \in Flaw
  /\ Refuse
  /\ UNCHANGED <<Else, job, wrapper, client, runs>>

\* launchctl bootstrap; RunAtLoad starts the wrapper.
Bootstrap ==
  IF job = "UNLOADED"
  THEN job' = "LOADED" /\ wrapper' = "LAUNCHED"
  ELSE UNCHANGED <<job, wrapper>>

\* A step fails after the stop: a sealed run isolates the install, another one just returns.
FailSwitch ==
  IF Sealed THEN Advance("ISOLATE") /\ UNCHANGED run ELSE Over("RETURNED")

\* _activate, and its failure: what served before is started again, unless the run is sealed.
SwitchCurrent ==
  /\ phase = "SWITCH"
  /\ \/ /\ frozen = Nothing
        /\ current' = New
        /\ Advance("MANIFEST")
        /\ UNCHANGED <<run, job, wrapper>>
     \/ /\ frozen # Nothing \/ "switch" \in Flaw
        /\ IF ~Sealed /\ frozen = Nothing THEN Bootstrap ELSE UNCHANGED <<job, wrapper>>
        /\ FailSwitch
        /\ UNCHANGED current
  /\ UNCHANGED <<Else, disk, frozen, client, runs>>

\* _update_global_runtime follows the link: the runtime manifest pins the manifest that is there.
UpdateRuntime ==
  /\ phase = "MANIFEST"
  /\ IF Candidate.manifest # Nothing /\ Candidate.runtime # Nothing
     THEN /\ disk' = [disk EXCEPT ![New].runtime.manifest = Candidate.manifest]
          /\ Advance("START")
          /\ UNCHANGED run
     ELSE FailSwitch /\ UNCHANGED disk
  /\ UNCHANGED <<Else, current, frozen, job, wrapper, client, runs>>

\* _start_tunnel.  A bootstrap that is reported as failed may have been carried out.
StartTunnel ==
  /\ phase = "START"
  /\ \E ok \in IF frozen # Nothing THEN {FALSE} ELSE IF "start" \in Flaw THEN BOOLEAN ELSE {TRUE} :
       /\ run' = [run EXCEPT !.started = TRUE, !.postOk = ok]
       /\ IF frozen # Nothing THEN UNCHANGED <<job, wrapper>>
          ELSE \/ Bootstrap
               \/ ~ok /\ UNCHANGED <<job, wrapper>>
  /\ Advance(IF frozen # Nothing THEN "DOCTOR" ELSE "REFRESH")
  /\ UNCHANGED <<Else, disk, current, frozen, client, runs>>

\* _refresh_index runs whether or not the start was reported.
RefreshIndex ==
  /\ phase = "REFRESH"
  /\ \E ok \in IF "index" \in Doubt THEN BOOLEAN ELSE {TRUE} :
       run' = [run EXCEPT !.postOk = @ /\ ok]
  /\ Advance("DOCTOR")
  /\ UNCHANGED <<Else, disk, current, frozen, job, wrapper, client, runs>>

\* _run_doctor, up to the tunnel.  It may end without a report.
ExamineSwitched ==
  /\ phase = "DOCTOR"
  /\ \/ \E doubtful \in SUBSET (Doubt \ {"probe"}) : examined' = Examine(doubtful)
     \/ "probe" \in Doubt /\ examined' = Nothing
  /\ phase' = "JUDGE"
  /\ UNCHANGED <<Else, run, lock, disk, current, frozen, job, wrapper, client, runs>>

\* What the predicate says of the report that Doctor gives now.
Verdict(answer) ==
  Evaluate(IF examined = Nothing THEN Nothing ELSE Report(WithTunnel(examined, answer), current),
           Nothing, run.declaration, run.postOk, New, Canaries)

\* The release is judged; only a tunnel that is still starting is looked at again.
Judge ==
  /\ phase = "JUDGE"
  /\ \E answer \in TunnelAnswers :
       LET verdict == Verdict(answer) IN
         \/ /\ verdict = {}
            /\ phase' = "IDLE"
            /\ lock' = "FREE"
            /\ run' = [run EXCEPT !.accepted = TRUE, !.end = "RETURNED"]
            /\ UNCHANGED examined
         \/ OnlyTunnelPending(verdict) /\ Advance("DOCTOR") /\ UNCHANGED run
         \/ verdict # {} /\ FailSwitch
  /\ UNCHANGED <<Else, disk, current, frozen, job, wrapper, client, runs>>

-----------------------------------------------------------------------------

\* _isolate: what this run may have started is stopped first, unless a latch does that already.
Isolate ==
  /\ phase = "ISOLATE"
  /\ IF run.started /\ frozen = Nothing
     THEN /\ Bootout
          /\ run' = [run EXCEPT !.recorded = identity]
          /\ Advance("ISOLATING")
     ELSE Advance("LATCH") /\ UNCHANGED <<run, job>>
  /\ UNCHANGED <<Else, disk, current, frozen, wrapper, client, runs>>

\* The stop is confirmed or given up; the latch follows in any case.
IsolationStop ==
  /\ phase = "ISOLATING"
  /\ TunnelIsGone \/ "stop" \in Flaw
  /\ Advance("LATCH")
  /\ UNCHANGED <<Else, run, disk, current, frozen, job, wrapper, client, runs>>

\* Mutant of WriteFreezeLatch: only a run that started the service latches.
WriteFreezeLatchIfStarted ==
  IF frozen = Nothing /\ run.started THEN frozen' = "sealed_activation_failed" ELSE UNCHANGED frozen

\* _write_freeze_latch: os.link is exclusive, a latch that is there stays.
WriteFreezeLatch ==
  IF frozen = Nothing
  THEN frozen' = IF run.end = "CAUGHT" THEN "sealed_activation_interrupted"
                                       ELSE "sealed_activation_failed"
  ELSE UNCHANGED frozen

\* The run ends also when the latch could not be created; `isolation` says so.
LatchIsolation ==
  /\ phase = "LATCH"
  /\ \/ WriteFreezeLatch /\ Over(IF run.end = "CAUGHT" THEN "CAUGHT" ELSE "RETURNED")
     \/ "latch" \in Flaw /\ UNCHANGED frozen /\ Over("UNLATCHED")
  /\ UNCHANGED <<Else, disk, current, job, wrapper, client, runs>>

\* Ctrl-C.  It is caught only where a sealed run may have left something; an isolation that is
\* interrupted itself is not resumed.
Interrupt ==
  /\ phase # "IDLE"
  /\ "INTERRUPT" \in Signal
  /\ IF Sealed /\ phase \in Guarded
     THEN Advance("ISOLATE") /\ run' = [run EXCEPT !.end = "CAUGHT"]
     ELSE Over("INTERRUPT")
  /\ UNCHANGED <<Else, disk, current, frozen, job, wrapper, client, runs>>

\* The process is ended where it is.
Die(signal) ==
  /\ phase # "IDLE"
  /\ Over(signal)
  /\ UNCHANGED <<Else, disk, current, frozen, job, wrapper, client, runs>>

ReleaseNext ==
  \/ \E kind \in Kind, declaration \in Declarations : BeginRun(kind, declaration)
  \/ StageCandidate
  \/ BuildRelease
  \/ CheckBeforeProbe
  \/ ProbeRelease
  \/ PinManifest
  \/ VerifyArtifacts
  \/ HoldLock
  \/ CheckUnderLock
  \/ StopTunnel
  \/ TunnelStopped
  \/ StopUncertain
  \/ SwitchCurrent
  \/ UpdateRuntime
  \/ StartTunnel
  \/ RefreshIndex
  \/ ExamineSwitched
  \/ Judge
  \/ Isolate
  \/ IsolationStop
  \/ LatchIsolation
  \/ Interrupt
  \/ \E signal \in Signal \ {"INTERRUPT"} : Die(signal)

=============================================================================
