------------------------------ MODULE HostProofs ------------------------------
(***************************************************************************)
(* Theorems about Host, for any releases, workspaces, disturbances and     *)
(* bounds.                                                                 *)
(*                                                                         *)
(* The argument: the lock keeps cycles and releases apart; a job that is   *)
(* not loaded has no wrapper, and without a wrapper that has started it no *)
(* client serves; a run switches only while the job is not loaded.  After  *)
(* a sealed run has stopped the service, whatever could start is started   *)
(* from `current`, and that is the sealed release, or the job is not       *)
(* loaded, or a latch holds.                                               *)
(*                                                                         *)
(* The budget: every window holds at most as many requested restarts as    *)
(* there are entries of the budget in it, where a restart that was allowed *)
(* and not requested yet has its entry already; and no window holds more   *)
(* entries than the policy allows, because an entry is made only while the *)
(* clock is not behind the others, so that those of the window that ends   *)
(* with it are the recent ones.                                            *)
(*                                                                         *)
(* What is switched to: what a check of a run found stays true until the   *)
(* next disturbance, for nothing else changes a release that is built; a   *)
(* candidate keeps its shape while it is built, and its two manifests      *)
(* agree once it is verified; a seal is made only of a release whose build *)
(* is that of its commit.                                                  *)
(***************************************************************************)
EXTENDS Host, TLAPS, FiniteSetTheorems

UnderLock == {"GUARDS", "STOP", "STOPPING", "SWITCH", "MANIFEST", "START", "REFRESH", "DOCTOR", "JUDGE",
              "ISOLATE", "ISOLATING", "LATCH"}

BeforeStop == {"STAGE", "BUILD", "GATES", "PROBE", "PIN", "VERIFY", "LOCK", "GUARDS", "STOP", "STOPPING"}

Switched == {"MANIFEST", "START", "REFRESH", "DOCTOR", "JUDGE"}

Shape ==
  /\ DOMAIN client = {"id", "release", "state"}
  /\ DOMAIN run = DOMAIN NoRun

LockInv ==
  /\ phase \in UnderLock => lock = "RELEASE"
  /\ step # "IDLE" => lock = "SUPERVISOR"

ServiceInv ==
  /\ job = "UNLOADED" => wrapper = "NONE"
  /\ wrapper \in {"NONE", "LAUNCHED", "ADMITTED"} => ~Serving
  /\ phase = "SWITCH" => TunnelIsGone

PhaseInv ==
  /\ phase \in BeforeStop => ~run.stopped
  /\ phase \in Switched => current = New
  /\ phase # "IDLE" => run.end \in {"NONE", "CAUGHT"}

Replaced == Sealed /\ run.stopped /\ run.end \in {"NONE", "RETURNED", "CAUGHT"}

ReplacedInv ==
  Replaced =>
    /\ Serving => client.release = New
    /\ wrapper = "ADMITTED" => origin.release = New
    /\ current = New \/ (IF phase = "IDLE" THEN frozen # Nothing ELSE job = "UNLOADED")

Inv == Shape /\ LockInv /\ ServiceInv /\ PhaseInv /\ ReplacedInv

-----------------------------------------------------------------------------

LEMMA InitInv == Init => Inv
  BY DEF Init, InstallInit, TunnelInit, SupervisorInit, ReleaseInit, NoRun, Inv, Shape, LockInv,
         ServiceInv, TunnelIsGone, PhaseInv, ReplacedInv, Replaced, Sealed, Serving, UnderLock,
         BeforeStop, Switched

\* Others change neither the service nor a run.
LEMMA OutsideInv ==
  ASSUME Inv, Outside, UNCHANGED <<tunnel, supervisor, release>> PROVE Inv'
<1>1. UNCHANGED <<current, frozen, lock, tunnel, supervisor, release>>
  BY DEF Outside, LoseCredential, BreakAudit, LoseRoot, ChangeRegistry, Alter, install
<1> QED
  BY <1>1 DEF Inv, Shape, LockInv, ServiceInv, TunnelIsGone, PhaseInv, ReplacedInv, Replaced, Sealed,
              Serving, tunnel, supervisor, release

\* The tunnel's own steps.
LEMMA TunnelInv ==
  ASSUME Inv, TunnelNext, UNCHANGED <<supervisor, release>> PROVE Inv'
<1> USE DEF Inv, Shape, LockInv, ServiceInv, TunnelIsGone, PhaseInv, ReplacedInv, Replaced, Sealed,
            Serving, supervisor, release, install, tunnel, NoWrapper
<1>1. ASSUME AdmitInstall PROVE Inv'
  BY <1>1, NothingAssumption DEF AdmitInstall, Latch, Class
<1>2. ASSUME StartClient PROVE Inv'
  BY <1>2 DEF StartClient
<1>3. ASSUME RecordIdentity \/ IdentityUnverified \/ ObeyLatch \/ ClientEnds \/ ClientExits PROVE Inv'
  BY <1>3 DEF RecordIdentity, IdentityUnverified, ObeyLatch, ClientEnds, ClientExits
<1>4. ASSUME WatchAlignment PROVE Inv'
  <2>1. UNCHANGED <<current, lock, tunnel, supervisor, release>> /\ frozen' # Nothing
    BY <1>4, NothingAssumption DEF WatchAlignment, Latch, Class
  <2> QED
    BY <2>1
<1>5. ASSUME Unload PROVE Inv'
  BY <1>5 DEF Unload, Killed
<1>6. ASSUME CarryOutKick PROVE Inv'
  BY <1>6 DEF CarryOutKick, Killed
<1> QED
  BY <1>1, <1>2, <1>3, <1>4, <1>5, <1>6 DEF TunnelNext

\* A cycle holds the lock from its first step to its last, and it only ever adds a latch.
LEMMA SupervisorInv ==
  ASSUME Inv, SupervisorNext, UNCHANGED release PROVE Inv'
<1>1. UNCHANGED <<current, job, wrapper, origin, client>>
  BY DEF SupervisorNext, BeginCycle, CheckRelease, CheckCredential, RunDoctor, DoctorTimesOut, ProbeTunnel,
         Decide, RequestRestart, CycleDies, Rest, tunnel
<1>0. UNCHANGED frozen \/ frozen' # Nothing
  <2>1. UNCHANGED frozen \/ \E class \in Class : frozen' = class
    <3>1. ASSUME Decide PROVE UNCHANGED frozen \/ \E class \in Class : frozen' = class
      <4>1. ReportedP0 # Nothing => ReportedP0 \in Class
        BY DEF ReportedP0, Class
      <4> QED
        BY <3>1, <4>1 DEF Decide, Freeze, Latch, Class
    <3> QED
      BY <3>1 DEF SupervisorNext, BeginCycle, CheckRelease, CheckCredential, RunDoctor, DoctorTimesOut,
                  ProbeTunnel, RequestRestart, CycleDies, Freeze, Latch, Class, Rest
  <2> QED
    BY <2>1, NothingAssumption
<1>2. LockInv'
  BY DEF SupervisorNext, BeginCycle, CheckRelease, CheckCredential, RunDoctor, DoctorTimesOut, ProbeTunnel,
         Decide, RequestRestart, CycleDies, EndCycle, Go, Rest, Freeze, Inv, LockInv, release, UnderLock
<1> QED
  BY <1>0, <1>1, <1>2 DEF Inv, Shape, ServiceInv, TunnelIsGone, PhaseInv, ReplacedInv, Replaced, Sealed,
                          Serving, release

\* What is kept of a run that is over.
LEMMA RememberedRun ==
  ASSUME Inv, NEW end
  PROVE  /\ DOMAIN Remembered(end) = DOMAIN NoRun
         /\ Remembered(end).stopped => Sealed /\ run.stopped /\ Remembered(end).end = end
  BY DEF Remembered, NoRun

\* A run that is over: when it replaced a release, nothing is promised of its end or there is a latch.
LEMMA OverInv ==
  ASSUME Inv, NEW end, phase # "IDLE", Over(end),
         UNCHANGED <<current, job, wrapper, origin, client, step>>,
         UNCHANGED frozen \/ frozen' # Nothing,
         Sealed /\ run.stopped => end \notin {"NONE", "RETURNED", "CAUGHT"} \/ frozen' # Nothing
  PROVE  Inv'
<1>1. /\ phase' = "IDLE" /\ DOMAIN run' = DOMAIN NoRun
      /\ run'.stopped => Sealed /\ run.stopped /\ run'.end = end
      /\ lock' = IF lock = "RELEASE" THEN "FREE" ELSE lock
  BY RememberedRun DEF Over
<1>2. Shape' /\ LockInv' /\ ServiceInv' /\ PhaseInv'
  BY <1>1 DEF Inv, Shape, LockInv, ServiceInv, TunnelIsGone, PhaseInv, Serving, UnderLock, BeforeStop,
              Switched, NoRun
<1>3. ASSUME Replaced' PROVE Replaced /\ frozen' # Nothing
  BY <1>1, <1>3 DEF Replaced, Inv, PhaseInv
<1>4. ReplacedInv'
  BY <1>1, <1>3 DEF Inv, ReplacedInv, Serving
<1> QED
  BY <1>2, <1>4 DEF Inv

\* A run goes on, up to the stop of the service.
LEMMA BeforeStopInv ==
  ASSUME Inv,
         \/ \E kind \in Kind, declaration \in Declarations : BeginRun(kind, declaration)
         \/ StageCandidate \/ BuildRelease \/ CheckBeforeProbe \/ ProbeRelease \/ PinManifest
         \/ VerifyArtifacts \/ HoldLock \/ CheckUnderLock \/ StopTunnel \/ StopUncertain
  PROVE  Inv'
<1> USE DEF Inv, Shape, LockInv, ServiceInv, TunnelIsGone, PhaseInv, ReplacedInv, Replaced, Sealed,
            Serving, UnderLock, BeforeStop, Switched, NoRun, Advance, Over, Refuse, Remembered, Else,
            supervisor
<1>1. ASSUME NEW kind \in Kind, NEW declaration \in Declarations, BeginRun(kind, declaration) PROVE Inv'
  BY <1>1 DEF BeginRun, install, tunnel
<1>2. ASSUME StageCandidate PROVE Inv'
  BY <1>2 DEF StageCandidate
<1>3. ASSUME BuildRelease PROVE Inv'
  <2>1. UNCHANGED <<current, frozen, job, wrapper, origin, client, step>> /\ phase = "BUILD"
    BY <1>3 DEF BuildRelease
  <2>2. (Advance("GATES") /\ UNCHANGED run) \/ Over("RETURNED")
    BY <1>3 DEF BuildRelease
  <2>3. ~run.stopped
    BY <1>3 DEF BuildRelease
  <2>4. CASE Advance("GATES") /\ UNCHANGED run
    BY <2>1, <2>3, <2>4
  <2> QED
    BY <2>1, <2>2, <2>3, <2>4, OverInv
<1>4. ASSUME CheckBeforeProbe \/ VerifyArtifacts \/ CheckUnderLock PROVE Inv'
  BY <1>4 DEF CheckBeforeProbe, VerifyArtifacts, CheckUnderLock
<1>5. ASSUME ProbeRelease PROVE Inv'
  BY <1>5 DEF ProbeRelease
<1>6. ASSUME PinManifest PROVE Inv'
  BY <1>6 DEF PinManifest
<1>7. ASSUME HoldLock PROVE Inv'
  BY <1>7 DEF HoldLock
<1>8. ASSUME StopTunnel PROVE Inv'
  BY <1>8 DEF StopTunnel, Bootout
<1>9. ASSUME StopUncertain PROVE Inv'
  BY <1>9 DEF StopUncertain
<1> QED
  BY <1>1, <1>2, <1>3, <1>4, <1>5, <1>6, <1>7, <1>8, <1>9

\* The switch and what follows.
LEMMA AfterStopInv ==
  ASSUME Inv,
         TunnelStopped \/ SwitchCurrent \/ UpdateRuntime \/ StartTunnel \/ RefreshIndex \/ ExamineSwitched
         \/ Judge \/ Isolate \/ IsolationStop \/ LatchIsolation
  PROVE  Inv'
<1> USE DEF Inv, Shape, LockInv, ServiceInv, TunnelIsGone, PhaseInv, ReplacedInv, Replaced, Sealed,
            Serving, UnderLock, BeforeStop, Switched, NoRun, Advance, Over, Refuse, Remembered, Else,
            supervisor
<1>1. ASSUME TunnelStopped PROVE Inv'
  BY <1>1 DEF TunnelStopped
<1>2. ASSUME SwitchCurrent PROVE Inv'
  BY <1>2 DEF SwitchCurrent, Bootstrap, FailSwitch
<1>3. ASSUME UpdateRuntime PROVE Inv'
  BY <1>3 DEF UpdateRuntime, FailSwitch
<1>4. ASSUME StartTunnel PROVE Inv'
  BY <1>4 DEF StartTunnel, Bootstrap
<1>5. ASSUME RefreshIndex PROVE Inv'
  BY <1>5 DEF RefreshIndex
<1>6. ASSUME ExamineSwitched PROVE Inv'
  BY <1>6 DEF ExamineSwitched
<1>7. ASSUME Judge PROVE Inv'
  <2>1. /\ UNCHANGED <<current, frozen, job, wrapper, origin, client, step>>
        /\ phase = "JUDGE"
    BY <1>7 DEF Judge
  <2>2. \/ phase' = "IDLE" /\ lock' = "FREE" /\ run' = [run EXCEPT !.accepted = TRUE, !.end = "RETURNED"]
        \/ Advance("DOCTOR") /\ UNCHANGED run
        \/ FailSwitch
    BY <1>7 DEF Judge
  <2>3. CASE phase' = "IDLE" /\ lock' = "FREE" /\ run' = [run EXCEPT !.accepted = TRUE, !.end = "RETURNED"]
    <3>1. run'.stopped = run.stopped /\ run'.kind = run.kind /\ DOMAIN run' = DOMAIN run
      BY <2>3
    <3>2. Replaced' => Replaced /\ current = New
      BY <2>1, <3>1
    <3> QED
      BY <2>1, <2>3, <3>1, <3>2
  <2>4. CASE Advance("DOCTOR") /\ UNCHANGED run
    BY <2>1, <2>4
  <2>5. CASE FailSwitch
    BY <2>1, <2>5, OverInv DEF FailSwitch, Switched
  <2> QED
    BY <2>2, <2>3, <2>4, <2>5
<1>8. ASSUME Isolate PROVE Inv'
  BY <1>8 DEF Isolate, Bootout
<1>9. ASSUME IsolationStop PROVE Inv'
  BY <1>9 DEF IsolationStop
<1>10. ASSUME LatchIsolation PROVE Inv'
  <2>1. UNCHANGED <<current, job, wrapper, origin, client, step>> /\ phase = "LATCH"
    BY <1>10 DEF LatchIsolation
  <2>2. \/ (\E end : Over(end)) /\ frozen' # Nothing
        \/ Over("UNLATCHED") /\ UNCHANGED frozen
    BY <1>10, NothingAssumption DEF LatchIsolation, WriteFreezeLatch, Class
  <2> HIDE DEF Over, Inv
  <2>3. CASE (\E end : Over(end)) /\ frozen' # Nothing
    BY <2>1, <2>3, OverInv
  <2>4. CASE Over("UNLATCHED") /\ UNCHANGED frozen
    BY <2>1, <2>4, OverInv
  <2> QED
    BY <2>2, <2>3, <2>4
<1> QED
  BY <1>1, <1>2, <1>3, <1>4, <1>5, <1>6, <1>7, <1>8, <1>9, <1>10

\* A run ends where it is, or isolates the install.
LEMMA EndedInv ==
  ASSUME Inv, Interrupt \/ \E signal \in Signal \ {"INTERRUPT"} : Die(signal) PROVE Inv'
<1> USE DEF Inv, Shape, LockInv, ServiceInv, TunnelIsGone, PhaseInv, ReplacedInv, Replaced, Sealed,
            Serving, UnderLock, BeforeStop, Switched, NoRun, Advance, Over, Remembered, Else, supervisor
<1>0. ASSUME NEW end \in {"INTERRUPT", "SIGTERM", "SIGKILL"}, phase # "IDLE", Over(end),
             UNCHANGED <<current, frozen, job, wrapper, origin, client, step>>
      PROVE  Inv'
  <2> HIDE DEF Over, Inv
  <2> QED
    BY <1>0, OverInv
<1>1. ASSUME Interrupt PROVE Inv'
  <2>2. CASE Sealed /\ phase \in Guarded
    <3>1. /\ UNCHANGED <<current, frozen, lock, job, wrapper, origin, client, step>>
          /\ phase' = "ISOLATE"
          /\ run' = [run EXCEPT !.end = "CAUGHT"]
      BY <1>1, <2>2 DEF Interrupt
    <3>2. run'.stopped = run.stopped /\ run'.kind = run.kind /\ DOMAIN run' = DOMAIN run
             /\ run'.end = "CAUGHT"
      BY <3>1
    <3>3. lock = "RELEASE" /\ (current = New \/ job = "UNLOADED") /\ phase # "IDLE"
      BY <2>2 DEF Guarded
    <3> QED
      BY <3>1, <3>2, <3>3
  <2>3. CASE ~(Sealed /\ phase \in Guarded)
    BY <1>0, <1>1, <2>3 DEF Interrupt
  <2> QED
    BY <2>2, <2>3
<1>2. ASSUME NEW signal \in Signal \ {"INTERRUPT"}, Die(signal) PROVE Inv'
  BY <1>0, <1>2, SignalAssumption DEF Die
<1> QED
  BY <1>1, <1>2

\* A host that restarts has no process and no client, and its wrapper is yet to read anything.
LEMMA RebootInv == ASSUME Inv, Reboot PROVE Inv'
<1>1. /\ lock' = "FREE" /\ job' = "LOADED" /\ wrapper' = "LAUNCHED" /\ step' = "IDLE" /\ phase' = "IDLE"
      /\ client' = [client EXCEPT !.state = "NONE"]
      /\ UNCHANGED <<current, frozen>>
      /\ (phase = "IDLE" /\ UNCHANGED run) \/ run' = Remembered("SIGKILL")
  BY DEF Reboot
<1>2. Shape'
  BY <1>1, RememberedRun DEF Inv, Shape
<1>3. client'.state = "NONE" /\ ~Serving'
  BY <1>1 DEF Inv, Shape, Serving
<1>4. LockInv' /\ ServiceInv' /\ PhaseInv'
  BY <1>1, <1>3 DEF LockInv, ServiceInv, TunnelIsGone, PhaseInv, UnderLock, BeforeStop, Switched
<1>5. ASSUME Replaced' PROVE phase = "IDLE" /\ UNCHANGED run
  BY <1>1, <1>5, RememberedRun DEF Replaced
<1>6. ReplacedInv'
  BY <1>1, <1>3, <1>5 DEF Inv, ReplacedInv, Replaced, Sealed
<1> QED
  BY <1>2, <1>4, <1>6 DEF Inv

LEMMA StepInv == Inv /\ [Next]_vars => Inv'
<1> SUFFICES ASSUME Inv, [Next]_vars PROVE Inv'
  OBVIOUS
<1>1. CASE UNCHANGED vars
  BY <1>1 DEF vars, install, world, tunnel, supervisor, release, Inv, Shape, LockInv, ServiceInv,
              TunnelIsGone, PhaseInv, ReplacedInv, Replaced, Sealed, Serving
<1>2. ASSUME ReleaseNext PROVE Inv'
  BY <1>2, BeforeStopInv, AfterStopInv, EndedInv DEF ReleaseNext
<1> QED
  BY <1>1, <1>2, OutsideInv, TunnelInv, SupervisorInv, RebootInv DEF Next

\* The lock is held, the job's state is known, and what may serve after a sealed run has stopped the
\* service is the sealed release.
THEOREM HostHolds == Spec => []Inv
  BY InitInv, StepInv, PTL DEF Spec

\* A sealed run that stopped the service, came to its end and did not report that its latch failed leaves
\* the replaced release out of service until the next run, whatever wrappers, cycles and restarts of the
\* host do (release.py, _isolate).
THEOREM ReplacedStayedOut == Spec => []ReplacedStaysOut
<1>1. Inv => ReplacedStaysOut
  BY DEF Inv, ReplacedInv, Replaced, Sealed, ReplacedStaysOut
<1> QED
  BY <1>1, HostHolds, PTL

-----------------------------------------------------------------------------

\* Only a run's switch moves `current`, and others leave the run alone.
LEMMA CurrentMoves == [Next]_vars => UNCHANGED current \/ SwitchCurrent
<1> SUFFICES ASSUME [Next]_vars PROVE UNCHANGED current \/ SwitchCurrent
  OBVIOUS
<1>1. CASE UNCHANGED vars
  BY <1>1 DEF vars, install
<1>2. ASSUME Outside PROVE UNCHANGED current
  BY <1>2 DEF Outside, LoseCredential, BreakAudit, LoseRoot, ChangeRegistry, Alter, install
<1>3. ASSUME TunnelNext PROVE UNCHANGED current
  BY <1>3 DEF TunnelNext, AdmitInstall, StartClient, RecordIdentity, IdentityUnverified, WatchAlignment,
              ObeyLatch, ClientEnds, Unload, ClientExits, CarryOutKick, install
<1>4. ASSUME SupervisorNext PROVE UNCHANGED current
  BY <1>4 DEF SupervisorNext, BeginCycle, CheckRelease, CheckCredential, RunDoctor, DoctorTimesOut,
              ProbeTunnel, Decide, RequestRestart, CycleDies, Rest
<1>5. ASSUME ReleaseNext PROVE UNCHANGED current \/ SwitchCurrent
  BY <1>5 DEF ReleaseNext, BeginRun, StageCandidate, BuildRelease, CheckBeforeProbe, ProbeRelease,
              PinManifest, VerifyArtifacts, HoldLock, CheckUnderLock, StopTunnel, TunnelStopped,
              StopUncertain, UpdateRuntime, StartTunnel, RefreshIndex, ExamineSwitched, Judge, Isolate,
              IsolationStop, LatchIsolation, Interrupt, Die, Refuse, install
<1>6. ASSUME Reboot PROVE UNCHANGED current
  BY <1>6 DEF Reboot
<1> QED
  BY <1>1, <1>2, <1>3, <1>4, <1>5, <1>6 DEF Next

\* Nothing serves, the process that was recorded is gone, no wrapper watches and no cycle is half way when
\* `current` moves (release.py, _hold_supervisor_lock and _stop_tunnel).
THEOREM SwitchWasQuiet == Spec => SwitchIsQuiet
<1> DEFINE Gone == /\ wrapper = "NONE" /\ ~Serving /\ step = "IDLE"
                   /\ run.recorded # Nothing => client.state = "NONE" \/ client.id # run.recorded.id
           Quiet == current' # current => Gone
<1>1. ASSUME Inv, [Next]_vars PROVE Quiet
  <2>1. ASSUME SwitchCurrent PROVE Gone
    BY <1>1, <2>1 DEF SwitchCurrent, Inv, LockInv, ServiceInv, TunnelIsGone, UnderLock
  <2> QED
    BY <1>1, <2>1, CurrentMoves
<1>2. Inv /\ [Next]_vars => [Quiet]_vars
  BY <1>1
<1> QED
  BY <1>2, HostHolds, PTL DEF Spec, SwitchIsQuiet

-----------------------------------------------------------------------------

AFunction(f) == f = [x \in DOMAIN f |-> f[x]]

\* What a report must show when no violation is left.
Exact(shown, declaration, canaries) ==
  /\ shown.workspace_registry.unavailable = Declared(declaration)
  /\ \A w \in canaries :
       LET result == shown.workspace_canary.results[w] IN
       IF declaration # Strict /\ w \in declaration.canaryFailing
       THEN result = declaration.unavailable[w]
       ELSE result = "PASS"

\* The acceptance predicate as a whole: no code of it is dropped when the report is judged.
LEMMA NoViolationIsExact ==
  ASSUME NEW report, NEW none, NEW declaration, NEW postOk, NEW id, NEW canaries,
         Evaluate(report, none, declaration, postOk, id, canaries) = {},
         AFunction(report.checks.workspace_registry.unavailable), AFunction(Declared(declaration))
  PROVE  /\ report # none /\ postOk
         /\ NotPassing(report.checks) = {}
         /\ Exact(report.checks, declaration, canaries)
<1> DEFINE shown == report.checks
           observed == shown.workspace_registry.unavailable
           canary == shown.workspace_canary
           failing == {w \in DOMAIN canary.results : canary.results[w] # "PASS"}
<1>1. report # none /\ postOk /\ NotPassing(shown) = {}
  BY DEF Evaluate, Code
<1>2. RegistryViolations(shown.workspace_registry, declaration) = {}
      /\ CanaryViolations(canary, declaration, canaries) = {}
  BY <1>1 DEF Evaluate
<1>3. observed = Declared(declaration)
  <2>0. AFunction(observed)
    OBVIOUS
  <2> HIDE DEF shown
  <2>1. /\ DOMAIN observed = DOMAIN Declared(declaration)
        /\ \A w \in DOMAIN observed : observed[w] = Declared(declaration)[w]
    BY <1>2 DEF RegistryViolations, Code
  <2> QED
    BY <2>0, <2>1 DEF AFunction
<1>4. /\ DOMAIN canary.results = canaries
      /\ declaration = Strict => failing = {}
      /\ declaration # Strict =>
           /\ failing = declaration.canaryFailing
           /\ \A w \in failing : canary.results[w] = declaration.unavailable[w]
  <2> HIDE DEF shown
  <2> QED
    BY <1>2 DEF CanaryViolations, Code
<1>5. \A w \in canaries :
        IF declaration # Strict /\ w \in declaration.canaryFailing
        THEN canary.results[w] = declaration.unavailable[w]
        ELSE canary.results[w] = "PASS"
  BY <1>4
<1> QED
  BY <1>1, <1>3, <1>5 DEF Exact

\* What Doctor found may be judged: its checks are there, and a latch fails.
Examined(shown) ==
  /\ {"workspace_registry", "workspace_canary"} \subseteq DOMAIN shown
  /\ AFunction(shown.workspace_registry.unavailable)
  /\ "freeze_latch" \in DOMAIN shown => shown["freeze_latch"].status = "FAIL"

AcceptInv ==
  /\ run.declaration \in Declarations \cup {Strict}
  /\ phase # "IDLE" => ~run.accepted
  /\ phase \in {"SWITCH"} \cup Switched => run.stopped
  /\ phase \in {"REFRESH", "DOCTOR", "JUDGE"} => run.started
  /\ phase = "JUDGE" /\ examined # Nothing => Examined(examined)
  /\ AcceptedIsJustified

LEMMA DeclaredIsAFunction ==
  ASSUME NEW declaration \in Declarations \cup {Strict} PROVE AFunction(Declared(declaration))
BY DeclarationsAssumption DEF Declaration, Declared, AFunction, NoGap

LEMMA ExamineIsExamined == ASSUME NEW doubtful PROVE Examined(Examine(doubtful))
BY DEF Examine, Examined, AFunction, RegistryCheck, Coverage

\* The run that is accepted: the predicate was judged on what Doctor found and the tunnel answered.
LEMMA JudgedIsJustified ==
  ASSUME Inv, AcceptInv, phase = "JUDGE", NEW answer, Verdict(answer) = {}
  PROVE  /\ run.postOk /\ current = New /\ run.started /\ run.stopped
         /\ "freeze_latch" \notin DOMAIN examined
         /\ Exact(examined, run.declaration, Canaries)
<1> DEFINE shown == WithTunnel(examined, answer)
           report == Report(shown, current)
<1>1. examined # Nothing
  BY DEF Verdict, Evaluate
<1>2. Examined(examined)
  BY <1>1 DEF AcceptInv
<1>3. report.checks = shown
  BY DEF Report
<1>4. /\ shown.workspace_registry = examined.workspace_registry
      /\ shown.workspace_canary = examined.workspace_canary
  BY <1>2 DEF WithTunnel, Examined
<1>5. Evaluate(report, Nothing, run.declaration, run.postOk, New, Canaries) = {}
  BY <1>1 DEF Verdict
<1>6. AFunction(report.checks.workspace_registry.unavailable) /\ AFunction(Declared(run.declaration))
  BY <1>2, <1>3, <1>4, DeclaredIsAFunction DEF Examined, AcceptInv
<1>7. run.postOk /\ NotPassing(report.checks) = {} /\ Exact(report.checks, run.declaration, Canaries)
  <2> HIDE DEF report
  <2> QED
    BY <1>5, <1>6, NoViolationIsExact
<1>8. "freeze_latch" \notin DOMAIN examined
  <2> SUFFICES ASSUME "freeze_latch" \in DOMAIN examined PROVE FALSE
    OBVIOUS
  <2>1. "freeze_latch" \in DOMAIN shown /\ shown["freeze_latch"] = examined["freeze_latch"]
    BY DEF WithTunnel
  <2>2. shown["freeze_latch"].status # "PASS"
    BY <1>2, <2>1 DEF Examined
  <2> QED
    BY <1>3, <1>7, <2>1, <2>2 DEF NotPassing, MustPass, CoverageChecks
<1>9. Exact(examined, run.declaration, Canaries)
  BY <1>3, <1>4, <1>7 DEF Exact
<1> QED
  BY <1>7, <1>8, <1>9 DEF AcceptInv, Inv, PhaseInv, Switched

\* A run that is over has nothing to be justified.
LEMMA OverAccepts ==
  ASSUME AcceptInv, phase # "IDLE", NEW end, Over(end) \/ run' = Remembered(end), phase' = "IDLE"
  PROVE  AcceptInv'
<1>0. Remembered(end).declaration = Strict /\ Remembered(end).accepted = FALSE
  BY DEF Remembered, NoRun
<1>1. run'.declaration = Strict /\ ~run'.accepted
  BY <1>0 DEF Over
<1> QED
  BY <1>1 DEF AcceptInv, AcceptedIsJustified, Switched

\* Nobody but a run writes what it is judged by.
LEMMA OthersAccept ==
  ASSUME AcceptInv, UNCHANGED <<phase, run, examined, current>> PROVE AcceptInv'
BY DEF AcceptInv, AcceptedIsJustified

LEMMA AcceptInit == Init => AcceptInv
BY DEF Init, ReleaseInit, NoRun, AcceptInv, AcceptedIsJustified, Switched

LEMMA RunAccepts == ASSUME Inv, AcceptInv, ReleaseNext PROVE AcceptInv'
<1> USE DEF Advance, Switched
<1>1. ASSUME NEW kind \in Kind, NEW declaration \in Declarations, BeginRun(kind, declaration)
      PROVE  AcceptInv'
  BY <1>1 DEF BeginRun, NoRun, AcceptInv, AcceptedIsJustified
<1>2. ASSUME NEW end, Over(end), phase # "IDLE" PROVE AcceptInv'
  BY <1>2, OverAccepts DEF Over
<1>3. ASSUME phase # "IDLE", phase' \notin {"IDLE", "SWITCH", "JUDGE"} \cup Switched,
             run'.declaration = run.declaration, run'.accepted = run.accepted
      PROVE  AcceptInv'
  BY <1>3 DEF AcceptInv, AcceptedIsJustified
<1>4. ASSUME StageCandidate \/ CheckBeforeProbe \/ ProbeRelease \/ PinManifest
             \/ VerifyArtifacts \/ HoldLock \/ CheckUnderLock \/ StopTunnel \/ StopUncertain
             \/ Isolate \/ IsolationStop \/ LatchIsolation \/ Interrupt
             \/ \E signal \in Signal \ {"INTERRUPT"} : Die(signal)
      PROVE  AcceptInv'
  <2>1. phase # "IDLE"
    BY <1>4 DEF StageCandidate, CheckBeforeProbe, ProbeRelease, PinManifest, VerifyArtifacts, HoldLock,
                CheckUnderLock, StopTunnel, StopUncertain, Isolate, IsolationStop, LatchIsolation, Interrupt,
                Die
  <2>2. \/ \E end : Over(end)
        \/ /\ phase' \notin {"IDLE", "SWITCH", "JUDGE"} \cup Switched
           /\ run'.declaration = run.declaration
           /\ run'.accepted = run.accepted
    <3>1. ASSUME CheckBeforeProbe \/ ProbeRelease \/ PinManifest
          PROVE  (\E end : Over(end)) \/ (phase' \in {"PROBE", "PIN", "VERIFY"} /\ UNCHANGED run)
      BY <3>1 DEF CheckBeforeProbe, ProbeRelease, PinManifest, Refuse
    <3>2. ASSUME StageCandidate \/ Isolate \/ IsolationStop \/ LatchIsolation \/ StopUncertain
                 \/ \E signal \in Signal \ {"INTERRUPT"} : Die(signal)
          PROVE  \/ \E end : Over(end)
                 \/ /\ phase' \in {"BUILD", "GATES", "ISOLATING", "LATCH"}
                    /\ run' = run \/ run' = [run EXCEPT !.recorded = identity]
      BY <3>2 DEF StageCandidate, Isolate, IsolationStop, LatchIsolation, StopUncertain, Die, Refuse
    <3>3. ASSUME VerifyArtifacts \/ HoldLock \/ CheckUnderLock \/ StopTunnel \/ Interrupt
          PROVE  \/ \E end : Over(end)
                 \/ /\ phase' \in {"LOCK", "GUARDS", "STOP", "STOPPING", "ISOLATE"}
                    /\ \/ run' = run
                       \/ run' = [run EXCEPT !.recorded = identity]
                       \/ run' = [run EXCEPT !.verified = troubles]
                       \/ run' = [run EXCEPT !.checked = troubles]
                       \/ run' = [run EXCEPT !.end = "CAUGHT"]
      BY <3>3 DEF VerifyArtifacts, HoldLock, CheckUnderLock, StopTunnel, Interrupt, Refuse
    <3> QED
      BY <1>4, <3>1, <3>2, <3>3 DEF Inv, Shape, NoRun
  <2> QED
    BY <1>2, <1>3, <2>1, <2>2
<1>5. ASSUME BuildRelease PROVE AcceptInv'
  <2>1. phase = "BUILD" /\ (Over("RETURNED") \/ (phase' = "GATES" /\ UNCHANGED run))
    BY <1>5 DEF BuildRelease
  <2> QED
    BY <1>2, <1>3, <2>1
<1>6. ASSUME TunnelStopped \/ SwitchCurrent \/ UpdateRuntime \/ StartTunnel \/ RefreshIndex
             \/ ExamineSwitched
      PROVE  AcceptInv'
  <2>1. phase \in {"STOPPING", "SWITCH", "MANIFEST", "START", "REFRESH", "DOCTOR"}
    BY <1>6 DEF TunnelStopped, SwitchCurrent, UpdateRuntime, StartTunnel, RefreshIndex, ExamineSwitched
  <2>2. \/ \E end : Over(end)
        \/ /\ phase' \in {"SWITCH", "MANIFEST", "START", "REFRESH", "DOCTOR", "JUDGE", "ISOLATE"}
           /\ run'.declaration = run.declaration /\ run'.accepted = run.accepted
           /\ run'.stopped = TRUE \/ run'.stopped = run.stopped
           /\ run'.started = TRUE \/ run'.started = run.started
           /\ phase = "STOPPING" => phase' = "SWITCH" /\ run'.stopped = TRUE
           /\ phase' \in {"REFRESH", "DOCTOR", "JUDGE"} =>
                phase \in {"REFRESH", "DOCTOR"} \/ run'.started = TRUE
           /\ phase' = "JUDGE" => examined' = Nothing \/ \E doubtful : examined' = Examine(doubtful)
    BY <1>6 DEF TunnelStopped, SwitchCurrent, FailSwitch, UpdateRuntime, StartTunnel, RefreshIndex,
                ExamineSwitched, Inv, Shape, NoRun
  <2>3. ASSUME phase' = "JUDGE", examined' # Nothing,
               examined' = Nothing \/ \E doubtful : examined' = Examine(doubtful)
        PROVE  Examined(examined)'
    BY <2>3, ExamineIsExamined DEF Examined, AFunction
  <2> QED
    BY <1>2, <2>1, <2>2, <2>3 DEF AcceptInv, AcceptedIsJustified
<1>7. ASSUME Judge PROVE AcceptInv'
  <2>1. phase = "JUDGE" /\ UNCHANGED current
    BY <1>7 DEF Judge
  <2>2. \/ \E answer : /\ Verdict(answer) = {} /\ phase' = "IDLE" /\ UNCHANGED examined
                       /\ run' = [run EXCEPT !.accepted = TRUE, !.end = "RETURNED"]
        \/ phase' = "DOCTOR" /\ UNCHANGED run
        \/ phase' = "ISOLATE" /\ UNCHANGED run
        \/ Over("RETURNED")
    BY <1>7 DEF Judge, FailSwitch
  <2>3. ASSUME NEW answer, Verdict(answer) = {}, phase' = "IDLE", UNCHANGED examined,
               run' = [run EXCEPT !.accepted = TRUE, !.end = "RETURNED"]
        PROVE  AcceptInv'
    <3>1. /\ run.postOk /\ current = New /\ run.started /\ run.stopped
          /\ "freeze_latch" \notin DOMAIN examined
          /\ Exact(examined, run.declaration, Canaries)
      BY <2>1, <2>3, JudgedIsJustified
    <3>2. /\ run'.postOk = run.postOk /\ run'.started = run.started /\ run'.stopped = run.stopped
          /\ run'.declaration = run.declaration
      BY <2>3 DEF Inv, Shape, NoRun
    <3> QED
      BY <2>1, <2>3, <3>1, <3>2 DEF AcceptInv, AcceptedIsJustified, Exact
  <2>4. ASSUME phase' \in {"DOCTOR", "ISOLATE"}, UNCHANGED run PROVE AcceptInv'
    BY <2>1, <2>4 DEF AcceptInv, AcceptedIsJustified
  <2> QED
    BY <1>2, <2>1, <2>2, <2>3, <2>4
<1> QED
  BY <1>1, <1>4, <1>5, <1>6, <1>7 DEF ReleaseNext

LEMMA AcceptStep == Inv /\ AcceptInv /\ [Next]_vars => AcceptInv'
<1> SUFFICES ASSUME Inv, AcceptInv, [Next]_vars PROVE AcceptInv'
  OBVIOUS
<1>1. CASE UNCHANGED <<phase, run, examined>> /\ ~ReleaseNext
  <2>1. UNCHANGED current
    BY <1>1, CurrentMoves DEF ReleaseNext
  <2> QED
    BY <1>1, <2>1, OthersAccept
<1>2. CASE ReleaseNext
  BY <1>2, RunAccepts
<1>3. CASE Reboot
  <2>1. CASE phase = "IDLE"
    BY <1>3, <2>1, OthersAccept DEF Reboot
  <2>2. CASE phase # "IDLE"
    BY <1>3, <2>2, OverAccepts DEF Reboot
  <2> QED
    BY <2>1, <2>2
<1> QED
  BY <1>1, <1>2, <1>3 DEF Next, vars, release

\* A release is accepted only on a report of the release that was switched to, by a run that stopped
\* and started the service, with exactly the gaps and canary failures that were declared, and it says
\* so for as long as the run's end is known (release_acceptance.py, evaluate).
THEOREM AcceptedWasJustified == Spec => []AcceptedIsJustified
<1>1. AcceptInv => AcceptedIsJustified
  BY DEF AcceptInv
<1> QED
  BY <1>1, AcceptInit, AcceptStep, HostHolds, PTL DEF Spec


-----------------------------------------------------------------------------
(* The restart budget.                                                     *)

Span(from) == from..(from + Window - 1)
Counted(times, from) == {k \in DOMAIN times : times[k] \in Span(from)}
Count(times, from) == Cardinality(Counted(times, from))

\* A restart that was allowed, and not requested yet.
Pending(from) == IF step = "RESTART" /\ budget[Len(budget)] \in Span(from) THEN 1 ELSE 0

BudgetInv ==
  /\ {budget, restarts} \subseteq Seq(Nat)
  /\ step = "RESTART" => budget # <<>>
  /\ \A from \in Nat : /\ Count(budget, from) <= MaxAttempts
                       /\ Count(restarts, from) + Pending(from) <= Count(budget, from)

-----------------------------------------------------------------------------

LEMMA CountedIsFinite ==
  ASSUME NEW times \in Seq(Nat), NEW from
  PROVE  IsFiniteSet(Counted(times, from)) /\ Count(times, from) \in Nat
<1>1. IsFiniteSet(1..Len(times)) /\ Counted(times, from) \subseteq 1..Len(times)
  BY FS_Interval DEF Counted
<1> QED
  BY <1>1, FS_Subset, FS_CardinalityType DEF Count

\* One more time counts in its windows and in no other.
LEMMA CountAppend ==
  ASSUME NEW times \in Seq(Nat), NEW now \in Nat, NEW from
  PROVE  Count(Append(times, now), from) = Count(times, from) + (IF now \in Span(from) THEN 1 ELSE 0)
<1> DEFINE more == Append(times, now)
           last == Len(times) + 1
<1>1. /\ DOMAIN more = 1..last /\ more[last] = now
      /\ DOMAIN times = 1..Len(times)
      /\ \A k \in 1..Len(times) : more[k] = times[k]
  OBVIOUS
<1>2. last \notin Counted(times, from) /\ IsFiniteSet(Counted(times, from)) /\ Count(times, from) \in Nat
  <2>1. last \notin DOMAIN times
    BY <1>1
  <2> QED
    BY <2>1, CountedIsFinite DEF Counted
<1>3. Counted(more, from) = IF now \in Span(from) THEN Counted(times, from) \cup {last}
                                                  ELSE Counted(times, from)
  <2> HIDE DEF more
  <2> QED
    BY <1>1 DEF Counted
<1>4. Cardinality(Counted(times, from) \cup {last}) = Cardinality(Counted(times, from)) + 1
  BY <1>2, FS_AddElement
<1> HIDE DEF more, last
<1>5. Count(more, from) = Count(times, from) + (IF now \in Span(from) THEN 1 ELSE 0)
  BY <1>2, <1>3, <1>4 DEF Count
<1> QED
  BY <1>5 DEF more

\* An entry that the budget allows, while the clock is sound, overfills no window.
LEMMA AllowedIsCounted ==
  ASSUME budget \in Seq(Nat), NEW now \in Nat, NEW from \in Nat,
         ClockIsSound(budget, now), BudgetAllows(now), Count(budget, from) <= MaxAttempts
  PROVE  Count(Append(budget, now), from) <= MaxAttempts
<1>1. Count(budget, from) \in Nat /\ MaxAttempts \in Nat /\ Window \in Nat
  BY CountedIsFinite, BudgetAssumption
<1>2. CASE now \notin Span(from)
  BY <1>1, <1>2, CountAppend
<1>3. CASE now \in Span(from)
  <2>1. Counted(budget, from) \subseteq Recent(budget, now)
    BY <1>1, <1>3 DEF Counted, Recent, Span
  <2>2. IsFiniteSet(Recent(budget, now))
    <3>1. IsFiniteSet(1..Len(budget)) /\ Recent(budget, now) \subseteq 1..Len(budget)
      BY FS_Interval DEF Recent
    <3> QED
      BY <3>1, FS_Subset
  <2>3. Count(budget, from) <= Cardinality(Recent(budget, now)) /\ Cardinality(Recent(budget, now)) \in Nat
    BY <2>1, <2>2, FS_Subset, FS_CardinalityType DEF Count
  <2> QED
    BY <1>1, <1>3, <2>3, CountAppend DEF BudgetAllows
<1> QED
  BY <1>2, <1>3

-----------------------------------------------------------------------------

LEMMA BudgetInit == Init => BudgetInv
<1> SUFFICES ASSUME Init PROVE BudgetInv
  OBVIOUS
<1>1. budget = <<>> /\ restarts = <<>> /\ step = "IDLE"
  BY DEF Init, SupervisorInit
<1>2. \A from : Counted(<<>>, from) = {}
  BY DEF Counted
<1>3. \A from : Count(<<>>, from) = 0
  BY <1>2, FS_EmptySet DEF Count
<1> QED
  BY <1>1, <1>3, BudgetAssumption DEF BudgetInv, Pending

\* A cycle that ends, and a step that has nothing to do with restarts.
LEMMA NothingRestarted ==
  ASSUME BudgetInv, UNCHANGED <<budget, restarts>>, step' = step \/ step' # "RESTART" PROVE BudgetInv'
<1>1. \A from \in Nat : Count(budget, from) \in Nat /\ Count(restarts, from) \in Nat
  BY CountedIsFinite DEF BudgetInv
<1>2. \A from \in Nat : Pending(from)' \in {0, Pending(from)}
  BY DEF Pending, Span
<1>3. \A from : Count(budget, from)' = Count(budget, from) /\ Count(restarts, from)' = Count(restarts, from)
  BY DEF Count, Counted, Span
<1>4. \A from \in Nat : Pending(from) \in {0, 1}
  BY DEF Pending
<1>5. ASSUME NEW from \in Nat
      PROVE  /\ Count(budget, from)' <= MaxAttempts
             /\ Count(restarts, from)' + Pending(from)' <= Count(budget, from)'
  <2>1. Count(budget, from) <= MaxAttempts /\ Count(restarts, from) + Pending(from) <= Count(budget, from)
    BY DEF BudgetInv
  <2> HIDE DEF Count, Pending
  <2> QED
    BY <1>1, <1>2, <1>3, <1>4, <2>1
<1>6. {budget, restarts}' \subseteq Seq(Nat) /\ (step' = "RESTART" => budget' # <<>>)
  BY DEF BudgetInv
<1> QED
  BY <1>5, <1>6 DEF BudgetInv

LEMMA DecideKeeps == ASSUME BudgetInv, Decide PROVE BudgetInv'
<1>1. UNCHANGED restarts /\ step = "DECIDE"
  BY DEF Decide
<1>2. CASE step' # "RESTART" /\ UNCHANGED budget
  BY <1>1, <1>2, NothingRestarted
<1>3. ASSUME NEW now \in Now, ClockIsSound(budget, now), BudgetAllows(now), budget' = Append(budget, now),
             step' = "RESTART"
      PROVE  BudgetInv'
  <2>1. now \in Nat /\ budget \in Seq(Nat) /\ restarts \in Seq(Nat)
    BY BudgetAssumption DEF Now, BudgetInv
  <2>2. budget' \in Seq(Nat) /\ budget' # <<>> /\ budget'[Len(budget')] = now
    BY <1>3, <2>1
  <2>3. ASSUME NEW from \in Nat
        PROVE  /\ Count(budget', from) <= MaxAttempts
               /\ Count(restarts, from) + (IF now \in Span(from) THEN 1 ELSE 0) <= Count(budget', from)
    <3>2. Count(budget, from) \in Nat /\ Count(restarts, from) \in Nat
      BY <2>1, CountedIsFinite
    <3>0. Pending(from) = 0
      BY <1>1 DEF Pending
    <3>1. Count(budget, from) <= MaxAttempts /\ Count(restarts, from) <= Count(budget, from)
      <4>1. /\ Count(budget, from) <= MaxAttempts
            /\ Count(restarts, from) + Pending(from) <= Count(budget, from)
        BY DEF BudgetInv
      <4> HIDE DEF Count, Pending
      <4> QED
        BY <3>0, <3>2, <4>1
    <3> HIDE DEF Count
    <3> QED
      BY <1>3, <2>1, <3>1, <3>2, AllowedIsCounted, CountAppend
  <2>4. \A from : Count(budget, from)' = Count(budget', from) /\ Count(restarts, from)' = Count(restarts, from)
    BY <1>1 DEF Count, Counted, Span
  <2>5. \A from : Pending(from)' = IF now \in Span(from) THEN 1 ELSE 0
    BY <1>3, <2>2 DEF Pending, Span
  <2> HIDE DEF Count, Pending
  <2> QED
    BY <1>1, <2>1, <2>2, <2>3, <2>4, <2>5 DEF BudgetInv
<1>4. \/ step' # "RESTART" /\ UNCHANGED budget
      \/ \E now \in Now : /\ ClockIsSound(budget, now) /\ BudgetAllows(now)
                          /\ budget' = Append(budget, now) /\ step' = "RESTART"
  BY DEF Decide, Freeze, EndCycle, Go
<1> QED
  BY <1>2, <1>3, <1>4

LEMMA RequestKeeps == ASSUME BudgetInv, RequestRestart PROVE BudgetInv'
<1> DEFINE now == budget[Len(budget)]
<1>1. /\ step = "RESTART" /\ step' = "IDLE" /\ UNCHANGED budget
      /\ restarts' = Append(restarts, now)
  BY DEF RequestRestart, EndCycle
<1>2. budget \in Seq(Nat) /\ restarts \in Seq(Nat) /\ now \in Nat
  BY <1>1 DEF BudgetInv
<1>3. ASSUME NEW from \in Nat
      PROVE  Count(budget, from) <= MaxAttempts /\ Count(restarts', from) <= Count(budget, from)
  <2>1. Pending(from) = IF now \in Span(from) THEN 1 ELSE 0
    BY <1>1 DEF Pending
  <2>2. Count(restarts', from) = Count(restarts, from) + Pending(from)
    BY <1>1, <1>2, <2>1, CountAppend
  <2> QED
    BY <2>2 DEF BudgetInv
<1>4. \A from : Count(budget, from)' = Count(budget, from) /\ Count(restarts, from)' = Count(restarts', from)
  BY <1>1 DEF Count, Counted, Span
<1>5. \A from : Pending(from)' = 0
  BY <1>1 DEF Pending
<1>6. \A from \in Nat : Count(restarts', from) \in Nat
  <2>1. restarts' \in Seq(Nat)
    BY <1>1, <1>2
  <2> QED
    BY <2>1, CountedIsFinite
<1>7. ASSUME NEW from \in Nat
      PROVE  /\ Count(budget, from)' <= MaxAttempts
             /\ Count(restarts, from)' + Pending(from)' <= Count(budget, from)'
  <2>1. Count(budget, from) <= MaxAttempts /\ Count(restarts', from) <= Count(budget, from)
    BY <1>3
  <2> HIDE DEF Count, Pending
  <2> QED
    BY <1>4, <1>5, <1>6, <2>1
<1>8. {budget, restarts}' \subseteq Seq(Nat) /\ (step' = "RESTART" => budget' # <<>>)
  <2>1. restarts' \in Seq(Nat) /\ budget' \in Seq(Nat) /\ step' # "RESTART"
    BY <1>1, <1>2
  <2> QED
    BY <2>1
<1> QED
  BY <1>7, <1>8 DEF BudgetInv

LEMMA BudgetStep == BudgetInv /\ [Next]_vars => BudgetInv'
<1> SUFFICES ASSUME BudgetInv, [Next]_vars PROVE BudgetInv'
  OBVIOUS
<1>1. CASE UNCHANGED supervisor
  BY <1>1, NothingRestarted DEF supervisor
<1>2. ASSUME SupervisorNext PROVE BudgetInv'
  <2>1. CASE Decide
    BY <2>1, DecideKeeps
  <2>2. CASE RequestRestart
    BY <2>2, RequestKeeps
  <2>3. CASE BeginCycle \/ CheckRelease \/ CheckCredential \/ RunDoctor \/ DoctorTimesOut \/ ProbeTunnel
               \/ CycleDies
    <3>1. UNCHANGED <<budget, restarts>> /\ step' # "RESTART"
      BY <2>3 DEF BeginCycle, CheckRelease, CheckCredential, RunDoctor, DoctorTimesOut, ProbeTunnel,
                  CycleDies, EndCycle, Go, Freeze, Rest
    <3> QED
      BY <3>1, NothingRestarted
  <2> QED
    BY <1>2, <2>1, <2>2, <2>3 DEF SupervisorNext
<1>3. ASSUME ReleaseNext PROVE UNCHANGED supervisor
  BY <1>3 DEF ReleaseNext, BeginRun, StageCandidate, BuildRelease, CheckBeforeProbe, ProbeRelease,
              PinManifest, VerifyArtifacts, HoldLock, CheckUnderLock, StopTunnel, TunnelStopped,
              StopUncertain, SwitchCurrent, UpdateRuntime, StartTunnel, RefreshIndex, ExamineSwitched, Judge,
              Isolate, IsolationStop, LatchIsolation, Interrupt, Die, Else
<1>4. CASE Reboot
  <2>1. UNCHANGED <<budget, restarts>> /\ step' # "RESTART"
    BY <1>4 DEF Reboot
  <2> QED
    BY <2>1, NothingRestarted
<1> QED
  BY <1>1, <1>2, <1>3, <1>4 DEF Next, vars

\* No window holds more restarts than the policy allows, however cycles die, clocks move and requests
\* fail (supervisor.py, consume_budget).
THEOREM RestartsStayWithinBudget == Spec => []RestartsWithinBudget
<1>1. BudgetInv => RestartsWithinBudget
  <2> SUFFICES ASSUME BudgetInv, NEW from \in 0..MaxTime
               PROVE  Count(restarts, from) <= MaxAttempts
    BY DEF RestartsWithinBudget, Count, Counted, Span
  <2>1. from \in Nat /\ MaxAttempts \in Nat
    BY BudgetAssumption
  <2>2. /\ Count(budget, from) <= MaxAttempts
        /\ Count(restarts, from) + Pending(from) <= Count(budget, from)
        /\ Count(budget, from) \in Nat /\ Count(restarts, from) \in Nat /\ Pending(from) \in Nat
    BY <2>1, CountedIsFinite DEF BudgetInv, Pending
  <2> HIDE DEF Count, Pending
  <2> QED
    BY <2>1, <2>2
<1> QED
  BY <1>1, BudgetInit, BudgetStep, PTL DEF Spec

-----------------------------------------------------------------------------
(* What is switched to. *)

Parts == {"package", "wheel", "dependencies", "interpreter", "service", "manifest", "runtime"}

Pinned(d) == DOMAIN d.runtime = {"manifest", "bundle"}

Shaped(d) == DOMAIN d = Parts /\ (d.runtime = Nothing \/ Pinned(d))

\* The steps at which the run has a candidate, at which its runtime manifest is there, and those after
\* its two checks.
Staged == {"GATES", "PROBE", "PIN", "VERIFY", "LOCK", "GUARDS", "STOP", "STOPPING", "SWITCH", "MANIFEST"}
Probed == {"PROBE", "PIN", "LOCK", "GUARDS", "STOP", "STOPPING", "SWITCH"}
AfterVerify == {"LOCK", "GUARDS", "STOP", "STOPPING", "SWITCH"}
AfterGuards == {"STOP", "STOPPING", "SWITCH"}

\* A seal is made of a release whose build is its commit's.
SealIsMade ==
  /\ run.seal.package = Blobs(run.seal.release)
  /\ WheelViolations(run.seal.wheel, Blobs(run.seal.release), run.seal.release) = {}

CandidateInv ==
  /\ DOMAIN disk = Release
  /\ Candidate = Nothing \/ Shaped(Candidate)
  /\ phase \in Staged => Shaped(Candidate)
  /\ phase \in Probed => Pinned(Candidate)
  /\ phase \in AfterVerify => Candidate.manifest = Candidate.runtime.manifest

\* What a check found is true until there is another disturbance.
CheckedInv ==
  /\ troubles \in Nat /\ run.verified \in 0..troubles /\ run.checked \in 0..troubles
  /\ phase \in AfterVerify /\ troubles = run.verified => ArtifactsVerified
  /\ phase \in AfterGuards /\ troubles = run.checked => SealGuard /\ ConfigGuard

WholeInv ==
  /\ CandidateInv
  /\ CheckedInv
  /\ Sealed /\ phase # "IDLE" => SealIsMade

\* What is recorded of a run, but for its steps.
SameRun ==
  /\ run'.kind = run.kind /\ run'.seal = run.seal
  /\ run'.verified = run.verified /\ run'.checked = run.checked

LEMMA AlteredIsShaped ==
  ASSUME NEW d, Shaped(d), d.runtime # Nothing, NEW e \in Altered(d)
  PROVE  Shaped(e) /\ Pinned(e) /\ (d.manifest = d.runtime.manifest => e.manifest = e.runtime.manifest)
<1>1. Pinned(d) /\ DOMAIN d = Parts
  BY DEF Shaped
<1>2. CASE e = [d EXCEPT !.wheel = @ \cup {Member("stray", "extra", "other")}]
  <2>1. DOMAIN e = Parts /\ e.runtime = d.runtime /\ e.manifest = d.manifest
    BY <1>1, <1>2 DEF Parts
  <2> QED
    BY <1>1, <2>1 DEF Shaped, Pinned
<1>3. CASE e = Forged([d EXCEPT !.dependencies = "other"])
  <2> DEFINE f == [d EXCEPT !.dependencies = "other"]
             manifest == [f.manifest EXCEPT !.files = ReleaseFiles(f), !.wheel = f.wheel]
  <2>1. DOMAIN f = Parts /\ f.runtime = d.runtime
    BY <1>1 DEF Parts
  <2>2. e = [f EXCEPT !.manifest = manifest, !.runtime.manifest = manifest]
    BY <1>3 DEF Forged
  <2> HIDE DEF f, manifest
  <2>3. DOMAIN e = Parts /\ e.manifest = manifest /\ e.runtime = [f.runtime EXCEPT !.manifest = manifest]
    BY <2>1, <2>2 DEF Parts
  <2>4. DOMAIN e.runtime = {"manifest", "bundle"} /\ e.runtime.manifest = manifest
    BY <1>1, <2>1, <2>3 DEF Pinned
  <2> QED
    BY <2>3, <2>4 DEF Shaped, Pinned
<1> QED
  BY <1>2, <1>3 DEF Altered

\* A disturbance: the candidate may be altered, but stays a release that pins its manifest.
LEMMA DisturbedWhole ==
  ASSUME WholeInv, troubles' = troubles + 1, UNCHANGED <<phase, run>>,
         UNCHANGED disk \/ \E r \in Release : Alter(r)
  PROVE  WholeInv'
<1>1. CheckedInv'
  BY DEF WholeInv, CheckedInv
<1>2. Sealed' /\ phase' # "IDLE" => SealIsMade'
  BY DEF WholeInv, Sealed, SealIsMade
<1>3. CandidateInv'
  <2>1. CASE UNCHANGED disk
    BY <2>1 DEF WholeInv, CandidateInv, Candidate
  <2>2. ASSUME NEW r \in Release, Alter(r) PROVE CandidateInv'
    <3>1. PICK e \in Altered(disk[r]) : disk' = [disk EXCEPT ![r] = e]
      BY <2>2 DEF Alter
    <3>2. DOMAIN disk' = Release /\ disk[r] # Nothing /\ disk[r].runtime # Nothing
          /\ Candidate' = IF r = New THEN e ELSE Candidate
      BY <2>2, <3>1, ReleasesAssumption DEF Alter, WholeInv, CandidateInv, Candidate
    <3>3. CASE r # New
      BY <3>2, <3>3 DEF WholeInv, CandidateInv
    <3>4. CASE r = New
      <4>1. Shaped(Candidate) /\ disk[r] = Candidate
        BY <3>2, <3>4 DEF WholeInv, CandidateInv, Candidate
      <4>2. Shaped(e) /\ Pinned(e)
            /\ (Candidate.manifest = Candidate.runtime.manifest => e.manifest = e.runtime.manifest)
        BY <3>1, <3>2, <4>1, AlteredIsShaped
      <4> QED
        BY <3>2, <3>4, <4>2 DEF WholeInv, CandidateInv
    <3> QED
      BY <3>3, <3>4
  <2> QED
    BY <2>1, <2>2
<1> QED
  BY <1>1, <1>2, <1>3 DEF WholeInv

\* A step that leaves the candidate and the configuration, to a point that promises no more.
LEMMA OnWhole ==
  ASSUME WholeInv, UNCHANGED <<disk, world, troubles>>, SameRun, phase # "IDLE" \/ UNCHANGED phase,
         phase' \in Staged => phase \in Staged,
         phase' \in Probed => phase \in Probed,
         phase' \in AfterVerify => phase \in AfterVerify,
         phase' \in AfterGuards => phase \in AfterGuards
  PROVE  WholeInv'
<1>1. UNCHANGED <<Candidate, Bundle, registry, Sealed>>
  BY DEF Candidate, Bundle, world, SameRun, Sealed
<1>2. CandidateInv'
  BY <1>1 DEF WholeInv, CandidateInv
<1>3. (ArtifactsVerified' <=> ArtifactsVerified) /\ (ConfigGuard' <=> ConfigGuard)
  BY <1>1 DEF ArtifactsVerified, ConfigGuard, ConfigHolds
<1>4. SealGuard' <=> SealGuard
  BY <1>1 DEF SealGuard, SameRun
<1>5. CheckedInv'
  BY <1>3, <1>4 DEF WholeInv, CheckedInv, SameRun
<1>6. Sealed' /\ phase' # "IDLE" => SealIsMade'
  BY <1>1 DEF WholeInv, SealIsMade, SameRun
<1> QED
  BY <1>2, <1>5, <1>6 DEF WholeInv

\* A run that is over promises nothing.
LEMMA OverWhole ==
  ASSUME WholeInv, NEW end, run' = Remembered(end), phase' = "IDLE", UNCHANGED troubles \/ troubles' = troubles + 1,
         DOMAIN disk' = Release, Candidate' = Nothing \/ Shaped(Candidate')
  PROVE  WholeInv'
<1>1. run'.verified = 0 /\ run'.checked = 0
  BY DEF Remembered, NoRun
<1> QED
  BY <1>1 DEF WholeInv, CandidateInv, CheckedInv, Staged, Probed, AfterVerify, AfterGuards

\* ... also where nothing was written.
LEMMA RefusedWhole ==
  ASSUME WholeInv, NEW end, Over(end), UNCHANGED <<disk, troubles>> PROVE WholeInv'
  BY OverWhole DEF Over, WholeInv, CandidateInv, Candidate

LEMMA BeginWhole ==
  ASSUME WholeInv, NEW kind, NEW declaration, BeginRun(kind, declaration) PROVE WholeInv'
<1>1. PICK r \in Release :
        /\ IF kind = "SEALED" THEN disk[r] # Nothing /\ Sealable(disk[r], r) ELSE r = New
        /\ run' = [NoRun EXCEPT !.kind = kind, !.declaration = declaration,
                                !.seal = IF kind = "SEALED" THEN SealOf(disk[r], r) ELSE Nothing]
  BY DEF BeginRun
<1>2. UNCHANGED <<disk, troubles>> /\ phase' = "STAGE"
  BY DEF BeginRun, install
<1>3. run'.kind = kind /\ run'.verified = 0 /\ run'.checked = 0
      /\ run'.seal = IF kind = "SEALED" THEN SealOf(disk[r], r) ELSE Nothing
  BY <1>1 DEF NoRun
<1>4. CandidateInv'
  BY <1>2 DEF WholeInv, CandidateInv, Candidate, Staged, Probed, AfterVerify
<1>5. CheckedInv'
  BY <1>2, <1>3 DEF WholeInv, CheckedInv, AfterVerify, AfterGuards
<1>6. kind = "SEALED" => SealIsMade'
  BY <1>1, <1>3 DEF SealIsMade, SealOf, Sealable, BuildIsCommits
<1> QED
  BY <1>3, <1>4, <1>5, <1>6 DEF WholeInv, Sealed

\* The run has a candidate: the one that is there, or the one it builds.
LEMMA StageWhole == ASSUME WholeInv, StageCandidate PROVE WholeInv'
<1>1. UNCHANGED <<world, troubles>> /\ phase = "STAGE"
  BY DEF StageCandidate, Else
<1>2. CASE Advance("BUILD") /\ disk' = [disk EXCEPT ![New] = EmptyDirectory] /\ UNCHANGED run
  <2>1. DOMAIN disk' = Release /\ Candidate' = EmptyDirectory /\ phase' = "BUILD"
    BY <1>2, ReleasesAssumption DEF Candidate, WholeInv, CandidateInv, Advance
  <2>2. Shaped(EmptyDirectory)
    BY DEF Shaped, EmptyDirectory, Parts
  <2>3. CandidateInv'
    BY <2>1, <2>2 DEF CandidateInv, Staged, Probed, AfterVerify
  <2> QED
    BY <1>1, <1>2, <2>1, <2>3 DEF WholeInv, CheckedInv, Sealed, SealIsMade, AfterVerify, AfterGuards
<1>3. CASE Candidate # Nothing /\ Advance("GATES") /\ UNCHANGED <<disk, run>>
  <2>1. phase' = "GATES" /\ UNCHANGED Candidate
    BY <1>3 DEF Advance, Candidate
  <2>2. CandidateInv'
    BY <1>3, <2>1 DEF WholeInv, CandidateInv, Probed, AfterVerify
  <2> QED
    BY <1>1, <1>3, <2>1, <2>2 DEF WholeInv, CheckedInv, Sealed, SealIsMade, AfterVerify, AfterGuards
<1>4. CASE Refuse
  BY <1>1, <1>4, RefusedWhole DEF Refuse
<1> QED
  BY <1>2, <1>3, <1>4 DEF StageCandidate

LEMMA BuildWhole == ASSUME WholeInv, BuildRelease PROVE WholeInv'
<1>0. PICK export \in Exports : \E wheel \in Wheels(export) :
        LET parts == [Unprobed(New) EXCEPT !.wheel = wheel, !.package = export]
            manifest == NewManifest(parts, New)
            built == [parts EXCEPT !.manifest = manifest, !.runtime = NewRuntime(manifest, Bundle)]
        IN \/ disk' = [disk EXCEPT ![New] = built] /\ Advance("GATES") /\ UNCHANGED run
           \/ disk' = [disk EXCEPT ![New] = Nothing] /\ Over("RETURNED")
  BY DEF BuildRelease
<1>1. PICK wheel \in Wheels(export) :
        LET parts == [Unprobed(New) EXCEPT !.wheel = wheel, !.package = export]
            manifest == NewManifest(parts, New)
            built == [parts EXCEPT !.manifest = manifest, !.runtime = NewRuntime(manifest, Bundle)]
        IN \/ disk' = [disk EXCEPT ![New] = built] /\ Advance("GATES") /\ UNCHANGED run
           \/ disk' = [disk EXCEPT ![New] = Nothing] /\ Over("RETURNED")
  BY <1>0
<1> DEFINE parts == [Unprobed(New) EXCEPT !.wheel = wheel, !.package = export]
           manifest == NewManifest(parts, New)
           built == [parts EXCEPT !.manifest = manifest, !.runtime = NewRuntime(manifest, Bundle)]
<1>2. UNCHANGED <<world, troubles>> /\ phase = "BUILD" /\ DOMAIN disk = Release
  BY DEF BuildRelease, Else, WholeInv, CandidateInv
<1>3. Shaped(built)
  <2>1. DOMAIN parts = Parts
    BY DEF Unprobed, Parts
  <2> HIDE DEF parts
  <2>2. DOMAIN built = Parts /\ built.runtime = NewRuntime(manifest, Bundle)
    BY <2>1 DEF Parts
  <2> QED
    BY <2>2 DEF Shaped, Pinned, NewRuntime
<1> HIDE DEF built
<1>4. CASE disk' = [disk EXCEPT ![New] = built] /\ Advance("GATES") /\ UNCHANGED run
  <2>1. DOMAIN disk' = Release /\ Candidate' = built /\ phase' = "GATES"
    BY <1>2, <1>4, ReleasesAssumption DEF Candidate, Advance
  <2>2. CandidateInv'
    BY <1>3, <2>1 DEF CandidateInv, Probed, AfterVerify
  <2> QED
    BY <1>2, <1>4, <2>1, <2>2 DEF WholeInv, CheckedInv, Sealed, SealIsMade, AfterVerify, AfterGuards
<1>5. CASE disk' = [disk EXCEPT ![New] = Nothing] /\ Over("RETURNED")
  <2>1. DOMAIN disk' = Release /\ Candidate' = Nothing
    BY <1>2, <1>5, ReleasesAssumption DEF Candidate
  <2> QED
    BY <1>2, <1>5, <2>1, OverWhole DEF Over
<1> QED
  BY <1>1, <1>4, <1>5 DEF built

\* The run writes a manifest of its candidate.
LEMMA RewrittenWhole ==
  ASSUME WholeInv, UNCHANGED <<world, troubles, run>>, phase \in Staged \ AfterVerify, NEW d, Shaped(d),
         disk' = [disk EXCEPT ![New] = d], phase' \in {"PIN", "VERIFY", "START"}, phase' = "PIN" => Pinned(d)
  PROVE  WholeInv'
<1>1. DOMAIN disk' = Release /\ Candidate' = d
  BY ReleasesAssumption DEF Candidate, WholeInv, CandidateInv
<1>2. CandidateInv'
  BY <1>1 DEF CandidateInv, Probed, AfterVerify
<1> QED
  BY <1>2 DEF WholeInv, CheckedInv, Sealed, SealIsMade, AfterVerify, AfterGuards, Staged

LEMMA GatesWhole ==
  ASSUME WholeInv, CheckBeforeProbe PROVE WholeInv'
<1>1. UNCHANGED <<world, troubles>> /\ phase = "GATES"
  BY DEF CheckBeforeProbe, Else
<1>2. CASE ConfigGuard /\ Advance("PROBE") /\ UNCHANGED <<run, disk>>
  <2>1. phase' = "PROBE" /\ UNCHANGED Candidate
    BY <1>2 DEF Advance, Candidate
  <2>2. Pinned(Candidate) /\ Shaped(Candidate)
    BY <1>1, <1>2 DEF WholeInv, CandidateInv, ConfigGuard, Shaped, Staged
  <2>3. CandidateInv'
    BY <1>2, <2>1, <2>2 DEF WholeInv, CandidateInv, AfterVerify
  <2> QED
    BY <1>1, <1>2, <2>1, <2>3 DEF WholeInv, CheckedInv, Sealed, SealIsMade, AfterVerify, AfterGuards
<1>3. CASE Refuse
  BY <1>1, <1>3, RefusedWhole DEF Refuse
<1> QED
  BY <1>2, <1>3 DEF CheckBeforeProbe

LEMMA ProbeWhole == ASSUME WholeInv, ProbeRelease PROVE WholeInv'
<1>1. UNCHANGED <<world, troubles>> /\ phase = "PROBE" /\ Shaped(Candidate) /\ Pinned(Candidate)
  BY DEF ProbeRelease, Else, WholeInv, CandidateInv, Staged, Probed
<1>2. ASSUME NEW actual, disk' = [disk EXCEPT ![New].manifest.contract = actual], Advance("PIN"),
             UNCHANGED run
      PROVE  WholeInv'
  <2> DEFINE d == [Candidate EXCEPT !.manifest.contract = actual]
  <2>1. disk' = [disk EXCEPT ![New] = d] /\ phase' = "PIN"
    BY <1>2 DEF Candidate, Advance
  <2>2. DOMAIN d = Parts /\ d.runtime = Candidate.runtime
    BY <1>1 DEF Shaped, Parts
  <2> HIDE DEF d
  <2>3. Shaped(d) /\ Pinned(d)
    BY <1>1, <2>2 DEF Shaped, Pinned
  <2> QED
    BY <1>1, <1>2, <2>1, <2>3, RewrittenWhole DEF Staged, AfterVerify
<1>3. CASE Advance("VERIFY") /\ UNCHANGED <<run, disk>>
  BY <1>1, <1>3, OnWhole DEF Advance, SameRun, Staged, Probed, AfterVerify, AfterGuards
<1>4. CASE Refuse
  BY <1>1, <1>4, RefusedWhole DEF Refuse
<1>5. \/ Refuse
      \/ Advance("VERIFY") /\ UNCHANGED <<run, disk>>
      \/ \E actual \in Served :
           disk' = [disk EXCEPT ![New].manifest.contract = actual] /\ Advance("PIN") /\ UNCHANGED run
  BY DEF ProbeRelease
<1> QED
  BY <1>2, <1>3, <1>4, <1>5

LEMMA PinWhole == ASSUME WholeInv, PinManifest PROVE WholeInv'
<1> DEFINE d == [Candidate EXCEPT !.runtime.manifest = Candidate.manifest]
<1>1. UNCHANGED <<world, troubles>> /\ phase = "PIN" /\ Shaped(Candidate) /\ Pinned(Candidate)
  BY DEF PinManifest, Else, WholeInv, CandidateInv, Staged, Probed
<1>2. disk' = [disk EXCEPT ![New] = d]
  BY DEF PinManifest, Candidate
<1>3. DOMAIN d = Parts /\ DOMAIN d.runtime = {"manifest", "bundle"}
  BY <1>1 DEF Shaped, Pinned, Parts
<1>4. Shaped(d)
  BY <1>3 DEF Shaped, Pinned
<1> HIDE DEF d
<1>5. CASE Advance("VERIFY") /\ UNCHANGED run
  BY <1>1, <1>2, <1>4, <1>5, RewrittenWhole DEF Advance, Staged, AfterVerify
<1>6. CASE Over("RETURNED")
  <2>1. DOMAIN disk' = Release /\ Candidate' = d
    BY <1>2, ReleasesAssumption DEF Candidate, WholeInv, CandidateInv
  <2> QED
    BY <1>1, <1>4, <1>6, <2>1, OverWhole DEF Over
<1> QED
  BY <1>5, <1>6 DEF PinManifest

\* The check before the lock.
LEMMA VerifyWhole == ASSUME Inv, WholeInv, VerifyArtifacts PROVE WholeInv'
<1>1. UNCHANGED <<world, troubles, disk>> /\ phase = "VERIFY" /\ Shaped(Candidate)
  BY DEF VerifyArtifacts, Else, Refuse, WholeInv, CandidateInv, Staged
<1>2. CASE ArtifactsVerified /\ Advance("LOCK") /\ run' = [run EXCEPT !.verified = troubles]
  <2>1. /\ phase' = "LOCK" /\ UNCHANGED Candidate
        /\ run'.kind = run.kind /\ run'.seal = run.seal /\ run'.verified = troubles
        /\ run'.checked = run.checked
    BY <1>1, <1>2 DEF Advance, Candidate, Inv, Shape, NoRun
  <2>2. Pinned(Candidate) /\ Candidate.manifest = Candidate.runtime.manifest
    BY <1>1, <1>2 DEF ArtifactsVerified, ValidRelease, Shaped
  <2>3. CandidateInv'
    BY <1>1, <2>1, <2>2 DEF WholeInv, CandidateInv
  <2>4. ArtifactsVerified'
    BY <1>2, <2>1 DEF ArtifactsVerified
  <2>5. CheckedInv'
    BY <1>1, <2>1, <2>4 DEF WholeInv, CheckedInv, AfterGuards
  <2> QED
    BY <1>1, <2>1, <2>3, <2>5 DEF WholeInv, Sealed, SealIsMade
<1>3. CASE Refuse
  BY <1>1, <1>3, RefusedWhole DEF Refuse
<1> QED
  BY <1>2, <1>3 DEF VerifyArtifacts

\* The check under it.
LEMMA GuardsWhole == ASSUME Inv, WholeInv, CheckUnderLock PROVE WholeInv'
<1>1. UNCHANGED <<world, troubles, disk>> /\ phase = "GUARDS"
  BY DEF CheckUnderLock, Else, Refuse
<1>2. CASE MaySwitch /\ Advance("STOP") /\ run' = [run EXCEPT !.checked = troubles]
  <2>1. /\ phase' = "STOP" /\ UNCHANGED <<Candidate, Bundle, registry>>
        /\ run'.kind = run.kind /\ run'.seal = run.seal /\ run'.verified = run.verified
        /\ run'.checked = troubles
    BY <1>1, <1>2 DEF Advance, Candidate, Bundle, world, Inv, Shape, NoRun
  <2>2. CandidateInv'
    BY <1>1, <2>1 DEF WholeInv, CandidateInv, Staged, Probed, AfterVerify
  <2>3. SealGuard' /\ ConfigGuard'
    BY <1>2, <2>1 DEF MaySwitch, SealGuard, ConfigGuard, ConfigHolds, Sealed
  <2>4. troubles = run.verified => ArtifactsVerified'
    BY <1>1, <2>1 DEF WholeInv, CheckedInv, AfterVerify, ArtifactsVerified
  <2>5. CheckedInv'
    BY <1>1, <2>1, <2>3, <2>4 DEF WholeInv, CheckedInv
  <2> QED
    BY <1>1, <2>1, <2>2, <2>5 DEF WholeInv, Sealed, SealIsMade
<1>3. CASE Refuse
  BY <1>1, <1>3, RefusedWhole DEF Refuse
<1> QED
  BY <1>2, <1>3 DEF CheckUnderLock

\* The stop and the switch.
LEMMA StopWhole ==
  ASSUME Inv, WholeInv,
         HoldLock \/ StopTunnel \/ TunnelStopped \/ StopUncertain \/ SwitchCurrent
  PROVE  WholeInv'
<1>1. UNCHANGED <<world, troubles, disk>> /\ phase \in AfterVerify /\ DOMAIN run = DOMAIN NoRun
  BY DEF HoldLock, StopTunnel, TunnelStopped, StopUncertain, SwitchCurrent, Else, Refuse, AfterVerify, Inv,
         Shape
<1>2. ASSUME SameRun, phase' \in {"GUARDS", "STOPPING", "SWITCH", "MANIFEST", "ISOLATE"},
             phase' \in {"STOPPING", "SWITCH"} => phase \in AfterGuards
      PROVE  WholeInv'
  BY <1>1, <1>2, OnWhole DEF AfterVerify, AfterGuards, Staged, Probed
<1>3. ASSUME NEW end, Over(end) PROVE WholeInv'
  BY <1>1, <1>3, RefusedWhole
<1>4. ASSUME HoldLock PROVE WholeInv'
  BY <1>2, <1>3, <1>4 DEF HoldLock, Refuse, SameRun
<1>5. ASSUME StopTunnel PROVE WholeInv'
  BY <1>1, <1>2, <1>3, <1>5 DEF StopTunnel, Refuse, Advance, SameRun, NoRun, AfterGuards
<1>6. ASSUME TunnelStopped PROVE WholeInv'
  BY <1>1, <1>2, <1>6 DEF TunnelStopped, Advance, SameRun, NoRun, AfterGuards
<1>7. ASSUME StopUncertain PROVE WholeInv'
  BY <1>3, <1>7 DEF StopUncertain, Refuse
<1>8. ASSUME SwitchCurrent PROVE WholeInv'
  BY <1>2, <1>3, <1>8 DEF SwitchCurrent, FailSwitch, Advance, SameRun
<1> QED
  BY <1>4, <1>5, <1>6, <1>7, <1>8

\* After it.
LEMMA SwitchedWhole ==
  ASSUME Inv, WholeInv,
         \/ UpdateRuntime \/ StartTunnel \/ RefreshIndex \/ ExamineSwitched \/ Judge \/ Isolate
         \/ IsolationStop \/ LatchIsolation \/ Interrupt \/ \E signal \in Signal \ {"INTERRUPT"} : Die(signal)
  PROVE  WholeInv'
<1> DEFINE late == {"START", "REFRESH", "DOCTOR", "JUDGE", "ISOLATE", "ISOLATING", "LATCH"}
<1>1. UNCHANGED <<world, troubles>> /\ phase # "IDLE" /\ DOMAIN run = DOMAIN NoRun
  BY DEF UpdateRuntime, StartTunnel, RefreshIndex, ExamineSwitched, Judge, Isolate, IsolationStop,
         LatchIsolation, Interrupt, Die, Else, Inv, Shape
<1>2. ASSUME SameRun, phase' \in late, UNCHANGED disk PROVE WholeInv'
  BY <1>1, <1>2, OnWhole DEF AfterVerify, AfterGuards, Staged, Probed
<1>3. ASSUME NEW end, Over(end), UNCHANGED disk PROVE WholeInv'
  BY <1>1, <1>3, RefusedWhole
<1>4. ASSUME UpdateRuntime PROVE WholeInv'
  <2> DEFINE d == [Candidate EXCEPT !.runtime.manifest = Candidate.manifest]
  <2>1. phase = "MANIFEST" /\ Shaped(Candidate)
    BY <1>4 DEF UpdateRuntime, WholeInv, CandidateInv, Staged
  <2>2. CASE Candidate.runtime # Nothing /\ disk' = [disk EXCEPT ![New].runtime.manifest = Candidate.manifest]
             /\ Advance("START") /\ UNCHANGED run
    <3>1. disk' = [disk EXCEPT ![New] = d]
      BY <2>2 DEF Candidate
    <3>2. DOMAIN d = Parts /\ DOMAIN d.runtime = {"manifest", "bundle"}
      BY <2>1, <2>2 DEF Shaped, Pinned, Parts
    <3>3. Shaped(d)
      BY <3>2 DEF Shaped, Pinned
    <3> HIDE DEF d
    <3> QED
      BY <1>1, <2>1, <2>2, <3>1, <3>3, RewrittenWhole DEF Advance, Staged, AfterVerify
  <2>3. CASE FailSwitch /\ UNCHANGED disk
    BY <1>2, <1>3, <2>3 DEF FailSwitch, Advance, SameRun
  <2> QED
    BY <1>4, <2>2, <2>3 DEF UpdateRuntime
<1>5. ASSUME StartTunnel \/ RefreshIndex \/ ExamineSwitched \/ Isolate \/ IsolationStop PROVE WholeInv'
  <2>1. phase' \in late /\ UNCHANGED disk
    BY <1>5 DEF StartTunnel, RefreshIndex, ExamineSwitched, Isolate, IsolationStop, Advance
  <2>2. SameRun
    BY <1>1, <1>5 DEF StartTunnel, RefreshIndex, ExamineSwitched, Isolate, IsolationStop, SameRun, NoRun
  <2> QED
    BY <1>2, <2>1, <2>2
<1>6. ASSUME Judge PROVE WholeInv'
  <2>1. UNCHANGED disk
    BY <1>6 DEF Judge
  <2>2. \/ phase' = "IDLE" /\ run' = [run EXCEPT !.accepted = TRUE, !.end = "RETURNED"]
        \/ Advance("DOCTOR") /\ UNCHANGED run
        \/ FailSwitch
    BY <1>6 DEF Judge
  <2>3. CASE phase' = "IDLE" /\ run' = [run EXCEPT !.accepted = TRUE, !.end = "RETURNED"]
    <3>1. SameRun
      BY <1>1, <2>3 DEF SameRun, NoRun
    <3> QED
      BY <1>1, <2>1, <2>3, <3>1, OnWhole DEF Staged, Probed, AfterVerify, AfterGuards
  <2> QED
    BY <1>2, <1>3, <2>1, <2>2, <2>3 DEF FailSwitch, Advance, SameRun
<1>7. ASSUME LatchIsolation PROVE WholeInv'
  BY <1>3, <1>7 DEF LatchIsolation
<1>8. ASSUME Interrupt PROVE WholeInv'
  <2>1. CASE Advance("ISOLATE") /\ run' = [run EXCEPT !.end = "CAUGHT"]
    <3>1. SameRun
      BY <1>1, <2>1 DEF SameRun, NoRun
    <3> QED
      BY <1>2, <1>8, <2>1, <3>1 DEF Interrupt, Advance
  <2> QED
    BY <1>3, <1>8, <2>1 DEF Interrupt
<1>9. ASSUME NEW signal \in Signal \ {"INTERRUPT"}, Die(signal) PROVE WholeInv'
  BY <1>3, <1>9 DEF Die
<1> QED
  BY <1>4, <1>5, <1>6, <1>7, <1>8, <1>9

LEMMA WholeInit == Init => WholeInv
<1> SUFFICES ASSUME Init PROVE WholeInv
  OBVIOUS
<1>1. phase = "IDLE" /\ run = NoRun /\ troubles = 0
  BY DEF Init, InstallInit, ReleaseInit
<1>2. CheckedInv /\ (Sealed /\ phase # "IDLE" => SealIsMade)
  BY <1>1 DEF CheckedInv, AfterVerify, AfterGuards, NoRun
<1>3. DOMAIN disk = Release /\ Candidate \in {Nothing, Unpinned(New), Built(New)}
  BY ReleasesAssumption DEF Init, InstallInit, Candidate
<1>4. Shaped(Unprobed(New))
  BY DEF Shaped, Pinned, Parts, Unprobed, NewRuntime
<1>5. Shaped(Unpinned(New)) /\ Pinned(Unpinned(New))
  BY DEF Shaped, Pinned, Parts, Unpinned, Unprobed, NewRuntime
<1>6. Shaped(Built(New))
  <2>1. /\ DOMAIN Built(New) = Parts
        /\ Built(New).runtime = [Unpinned(New).runtime EXCEPT !.manifest = Unpinned(New).manifest]
    BY <1>5 DEF Built, Shaped, Parts
  <2> QED
    BY <1>5, <2>1 DEF Shaped, Pinned
<1>7. CandidateInv
  BY <1>1, <1>3, <1>5, <1>6 DEF CandidateInv, Staged, Probed, AfterVerify
<1> QED
  BY <1>2, <1>7 DEF WholeInv

LEMMA WholeStep == Inv /\ WholeInv /\ [Next]_vars => WholeInv'
<1> SUFFICES ASSUME Inv, WholeInv, [Next]_vars PROVE WholeInv'
  OBVIOUS
<1>0. ASSUME UNCHANGED <<disk, world, troubles, phase, run>> PROVE WholeInv'
  BY <1>0, OnWhole DEF SameRun
<1>1. CASE UNCHANGED vars
  BY <1>0, <1>1 DEF vars, install, release
<1>2. ASSUME Outside, UNCHANGED <<tunnel, supervisor, release>> PROVE WholeInv'
  <2>1. troubles' = troubles + 1 /\ (UNCHANGED disk \/ \E r \in Release : Alter(r))
    BY <1>2 DEF Outside, LoseCredential, BreakAudit, LoseRoot, ChangeRegistry, Alter, Disturb, install
  <2> QED
    BY <1>2, <2>1, DisturbedWhole DEF release
<1>3. ASSUME TunnelNext, UNCHANGED <<supervisor, release>> PROVE WholeInv'
  <2>1. UNCHANGED <<disk, phase, run>> /\ (UNCHANGED <<world, troubles>> \/ troubles' = troubles + 1)
    BY <1>3 DEF TunnelNext, AdmitInstall, StartClient, RecordIdentity, IdentityUnverified, WatchAlignment,
                ObeyLatch, ClientEnds, Unload, ClientExits, CarryOutKick, Disturb, install, release
  <2> QED
    BY <1>0, <2>1, DisturbedWhole
<1>4. ASSUME SupervisorNext, UNCHANGED release PROVE WholeInv'
  <2>1. UNCHANGED <<disk, world, troubles>>
    BY <1>4 DEF SupervisorNext, BeginCycle, CheckRelease, CheckCredential, RunDoctor, DoctorTimesOut,
                ProbeTunnel, Decide, RequestRestart, CycleDies, Rest
  <2> QED
    BY <1>0, <1>4, <2>1 DEF release
<1>5. ASSUME ReleaseNext PROVE WholeInv'
  BY <1>5, BeginWhole, StageWhole, BuildWhole, GatesWhole, ProbeWhole, PinWhole, VerifyWhole, GuardsWhole,
     StopWhole, SwitchedWhole
  DEF ReleaseNext
<1>6. ASSUME Reboot PROVE WholeInv'
  <2>1. UNCHANGED disk /\ phase' = "IDLE" /\ troubles' = troubles + 1
        /\ ((phase = "IDLE" /\ UNCHANGED run) \/ run' = Remembered("SIGKILL"))
    BY <1>6 DEF Reboot, Disturb
  <2>2. CASE phase = "IDLE" /\ UNCHANGED run
    BY <2>1, <2>2, DisturbedWhole
  <2>3. CASE run' = Remembered("SIGKILL")
    BY <2>1, <2>3, OverWhole DEF WholeInv, CandidateInv, Candidate
  <2> QED
    BY <2>1, <2>2, <2>3
<1> QED
  BY <1>1, <1>2, <1>3, <1>4, <1>5, <1>6 DEF Next

\* What a sealed run has checked under the lock is a whole release, and its commit's.
LEMMA SealedIsWhole ==
  ASSUME SealIsMade, ValidExisting(Candidate, New), VerifySeal(run.seal, Candidate, New),
         Candidate.manifest = Candidate.runtime.manifest, Candidate.runtime # Nothing
  PROVE  ValidRelease(Candidate, New) /\ BuildIsCommits(Candidate, New)
<1>1. ValidRelease(Candidate, New)
  BY DEF ValidRelease, ValidExisting
<1>2. run.seal.release = New /\ Candidate.wheel = run.seal.wheel /\ Same(run.seal.package, Candidate.package)
  BY DEF VerifySeal, IdentityHolds
<1> QED
  BY <1>1, <1>2 DEF SealIsMade, BuildIsCommits

\* What is switched to is the whole release of HEAD with the configuration that is there, and for a
\* sealed run exactly the sealed one, as long as nobody disturbs it after the check that says so
\* (release.py, the gates before the lock, the guards under it, and _activate).
THEOREM SwitchedWasWhole == Spec => SwitchedIsWhole
<1> DEFINE Whole == current' # current =>
             /\ troubles = (IF Sealed THEN run.checked ELSE run.verified) =>
                  ValidRelease(Candidate, New) /\ BuildIsCommits(Candidate, New)
             /\ troubles = run.checked =>
                  /\ ConfigHolds(Candidate.runtime)
                  /\ Sealed => VerifySeal(run.seal, Candidate, New)
<1>1. ASSUME Inv, WholeInv, [Next]_vars PROVE Whole
  <2>1. ASSUME SwitchCurrent PROVE Whole
    <3>1. phase = "SWITCH"
      BY <2>1 DEF SwitchCurrent
    <3>2. troubles = run.checked => SealGuard /\ ConfigGuard
      BY <1>1, <3>1 DEF WholeInv, CheckedInv, AfterGuards
    <3>3. troubles = run.verified => ArtifactsVerified
      BY <1>1, <3>1 DEF WholeInv, CheckedInv, AfterVerify
    <3>4. Candidate.manifest = Candidate.runtime.manifest /\ (Sealed => SealIsMade)
      BY <1>1, <3>1 DEF WholeInv, CandidateInv, AfterVerify
    <3>5. Sealed /\ troubles = run.checked => ValidRelease(Candidate, New) /\ BuildIsCommits(Candidate, New)
      BY <3>2, <3>4, SealedIsWhole DEF SealGuard, ConfigGuard
    <3> QED
      BY <3>2, <3>3, <3>5 DEF SealGuard, ConfigGuard, ArtifactsVerified
  <2> QED
    BY <1>1, <2>1, CurrentMoves
<1>2. Inv /\ WholeInv /\ [Next]_vars => [Whole]_vars
  BY <1>1
<1>3. Spec => []WholeInv
  BY HostHolds, WholeInit, WholeStep, PTL DEF Spec
<1> QED
  BY <1>2, <1>3, HostHolds, PTL DEF Spec, SwitchedIsWhole

=============================================================================
