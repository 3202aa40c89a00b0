--------------------------------- MODULE Host ---------------------------------
(***************************************************************************)
(* One host: the tunnel service, the Supervisor, a release run, and what   *)
(* others do to the install, together.  The tunnel's wrapper, the          *)
(* Supervisor's cycle and the release run are processes of their own; they *)
(* share files only.                                                       *)
(***************************************************************************)
EXTENDS ReleaseRun

vars == <<install, world, troubles, tunnel, supervisor, release>>

Init ==
  /\ InstallInit
  /\ TunnelInit
  /\ SupervisorInit
  /\ ReleaseInit

\* Every process is gone; launchd loads and starts the services at login.
Reboot ==
  /\ Disturb("reboot")
  /\ lock' = "FREE"
  /\ job' = "LOADED"
  /\ kick' = FALSE
  /\ wrapper' = "LAUNCHED"
  /\ origin' = Nothing
  /\ client' = [client EXCEPT !.state = "NONE"]
  /\ step' = "IDLE"
  /\ checks' = Nothing
  /\ phase' = "IDLE"
  /\ IF phase = "IDLE" THEN UNCHANGED <<run, examined>>
                       ELSE run' = Remembered("SIGKILL") /\ examined' = Nothing
  /\ UNCHANGED <<disk, current, frozen, world, identity, budget, restarts, runs>>

Next ==
  \/ Outside /\ UNCHANGED <<tunnel, supervisor, release>>
  \/ TunnelNext /\ UNCHANGED <<supervisor, release>>
  \/ SupervisorNext /\ UNCHANGED release
  \/ ReleaseNext
  \/ Reboot

Spec == Init /\ [][Next]_vars

\* The wrapper's loop and launchd go on; nobody has to start, to interrupt or to restart anything.
Fairness ==
  /\ WF_vars((RecordIdentity \/ IdentityUnverified \/ ObeyLatch) /\ UNCHANGED <<supervisor, release>>)
  /\ WF_vars(Unload /\ UNCHANGED <<supervisor, release>>)

FairSpec == Spec /\ Fairness

-----------------------------------------------------------------------------

\* Each part of the state keeps its shape.
TypeOK == InstallTypeOK /\ TunnelTypeOK /\ SupervisorTypeOK /\ ReleaseTypeOK

\* A sealed run that stopped the service leaves the release it was to replace out of service: whatever
\* the wrapper, the Supervisor and a restart of the host do until the next run, only the sealed release
\* serves (release.py, _isolate: the release that was active may be the one that had to be taken out).
\* It speaks of runs that came to their end and reported no failure of the latch: where the latch could
\* not be written ("UNLATCHED"), or the process was ended before, nothing keeps the old release out.
ReplacedStaysOut ==
  (/\ run.kind = "SEALED"
   /\ run.stopped
   /\ run.end \in {"RETURNED", "CAUGHT"}
   /\ Serving) => client.release = New

\* Nothing serves, no wrapper watches, the process that served when the stop began is gone, and no
\* cycle of the Supervisor is half way when `current` moves: a running service would freeze the install,
\* one that is still exiting holds the port, a cycle would judge two installs at once (release.py,
\* _stop_tunnel, _wait_for_process_exit and _hold_supervisor_lock).
SwitchIsQuiet ==
  [][current' # current =>
       /\ wrapper = "NONE" /\ ~Serving /\ step = "IDLE"
       /\ run.recorded # Nothing => client.state = "NONE" \/ client.id # run.recorded.id]_vars

\* However cycles die and requests are repeated, no window holds more restarts than the policy
\* allows (supervisor.py, consume_budget).
RestartsWithinBudget ==
  \A from \in 0..MaxTime :
    Cardinality({k \in DOMAIN restarts : restarts[k] \in from..(from + Window - 1)}) <= MaxAttempts

\* A run is accepted only on a report that has no latch in it, of the release it switched to, that
\* it started, and with exactly the gaps and canary failures that were declared.
AcceptedIsJustified ==
  run.accepted =>
    /\ run.started /\ run.stopped /\ run.postOk
    /\ current = New
    /\ "freeze_latch" \notin DOMAIN examined
    /\ examined.workspace_registry.unavailable = Declared(run.declaration)
    /\ \A w \in Canaries :
         LET result == examined.workspace_canary.results[w] IN
         IF run.declaration # Strict /\ w \in run.declaration.canaryFailing
         THEN result = run.declaration.unavailable[w]
         ELSE result = "PASS"

\* What is switched to is the whole release of HEAD, with the configuration that is there, and for
\* a sealed run exactly the sealed one, as long as nobody disturbs it after the check that says so;
\* also when an earlier run died between two of its writes.
SwitchedIsWhole ==
  [][current' # current =>
       /\ troubles = (IF Sealed THEN run.checked ELSE run.verified) =>
            ValidRelease(Candidate, New) /\ BuildIsCommits(Candidate, New)
       /\ troubles = run.checked =>
            /\ ConfigHolds(Candidate.runtime)
            /\ Sealed => VerifySeal(run.seal, Candidate, New)]_vars

\* The freeze ends the service, whoever wrote it and whatever was being started, for good.
FrozenStopsService == (frozen # Nothing) ~> [](~Serving)

=============================================================================
