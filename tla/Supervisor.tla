------------------------------ MODULE Supervisor ------------------------------
(***************************************************************************)
(* One Supervisor (supervisor.py): launchd runs a cycle again and again,   *)
(* never two at once.  A cycle holds supervisor.lock, freezes the install  *)
(* on a P0, and restarts a tunnel that Doctor found down while the budget  *)
(* lasts.  The alarm of its deadline, or a kill, ends it between any two   *)
(* steps.  The restart policies of the repository are one: MaxAttempts     *)
(* restarts in Window.                                                     *)
(***************************************************************************)
EXTENDS Doctor, Sequences

CONSTANTS
  MaxAttempts,  \* max_attempts of tunnel_unavailable
  Window,       \* its window_seconds
  MaxTime       \* bound: the clock, from 0

ASSUME BudgetAssumption == {MaxAttempts, Window, MaxTime} \subseteq Nat /\ MaxAttempts > 0

VARIABLES
  step,      \* what the cycle does next
  checks,    \* what Doctor has found so far in this cycle
  budget,    \* budget.json: when restarts were allowed
  restarts   \* the requested kickstarts: when each was allowed

supervisor == <<step, checks, budget, restarts>>

Step == {"IDLE", "RELEASE", "CREDENTIAL", "DOCTOR", "TUNNEL", "DECIDE", "RESTART"}

SupervisorTypeOK ==
  /\ step \in Step
  /\ budget \in Seq(0..MaxTime)
  /\ restarts \in Seq(0..MaxTime)

SupervisorInit ==
  /\ step = "IDLE"
  /\ checks = Nothing
  /\ budget = <<>>
  /\ restarts = <<>>

\* load_policies and policy_for: only this failure class is acted on.
Restartable(failure) == failure = "tunnel_unavailable"

\* _classify, for a report that is neither READY nor a P0.
Classify ==
  IF checks["core"].status # "PASS" \/ checks["mcp"].status # "PASS" THEN "core_semantic_failure"
  ELSE IF checks["tunnel"].status = "FAIL" THEN "tunnel_unavailable"
  ELSE IF checks["tunnel"].status = "UNKNOWN" THEN "tunnel_probe_uncertain"
  ELSE IF checks["reality_index"].status # "PASS" THEN "reality_index_stale"
  ELSE "workspace_degraded"

\* The P0 of a report, in the order in which the cycle looks for it.
ReportedP0 ==
  IF checks["audit_chain"].status # "PASS" THEN "audit_integrity_failure"
  ELSE IF checks["runtime_paths"].status # "PASS" THEN "runtime_path_failure"
  ELSE IF checks["release"].status # "PASS" THEN "release_manifest_failure"
  ELSE IF checks["credential"].status # "PASS" THEN "credential_security_failure"
  ELSE IF Overall(checks) = "FROZEN" THEN "runtime_path_failure"
  ELSE Nothing

\* Entries from the future are a clock that went back, which is an error of the budget.
ClockIsSound(entries, now) == \A k \in DOMAIN entries : entries[k] <= now

\* Mutant of Recent: a restart stops to count one step early.
RecentByEnd(entries, now) == {k \in DOMAIN entries : entries[k] > now - Window + 1}

\* The entries that count against the budget.
Recent(entries, now) == {k \in DOMAIN entries : entries[k] > now - Window}

\* consume_budget has room.
BudgetAllows(now) == Cardinality(Recent(budget, now)) < MaxAttempts

\* What time.time() may be, counted from the first restart: not before the last one, unless
\* somebody sets the clock back.
Now == IF budget = <<>> THEN {0}
       ELSE {now \in 0..MaxTime : "clock" \in Trouble \/ ClockIsSound(budget, now)}

-----------------------------------------------------------------------------

EndCycle ==
  /\ step' = "IDLE"
  /\ checks' = Nothing
  /\ lock' = "FREE"

Go(next) ==
  /\ step' = next
  /\ UNCHANGED <<checks, lock>>

Rest == <<disk, current, world, troubles, tunnel, budget, restarts>>

\* flock, then the runtime is loaded under the lock.  A latch ends the cycle: nothing is examined
\* and nothing is done under it.
BeginCycle ==
  /\ step = "IDLE"
  /\ lock = "FREE"
  /\ frozen = Nothing
  /\ lock' = "SUPERVISOR"
  /\ step' = "RELEASE"
  /\ UNCHANGED <<checks, frozen, Rest>>

Freeze(class) ==
  /\ Latch(class)
  /\ EndCycle

CheckRelease ==
  /\ step = "RELEASE"
  /\ IF CurrentIsValid THEN Go("CREDENTIAL") /\ UNCHANGED frozen
                       ELSE Freeze("release_manifest_failure")
  /\ UNCHANGED Rest

CheckCredential ==
  /\ step = "CREDENTIAL"
  /\ IF CredentialPasses THEN Go("DOCTOR") /\ UNCHANGED frozen
                         ELSE Freeze("credential_security_failure")
  /\ UNCHANGED Rest

\* Doctor runs in a process of its own; without a usable answer in time the cycle only logs it.
RunDoctor ==
  /\ step = "DOCTOR"
  /\ \E doubtful \in SUBSET (Doubt \ {"probe"}) : checks' = Examine(doubtful)
  /\ step' = "TUNNEL"
  /\ UNCHANGED <<frozen, lock, Rest>>

DoctorTimesOut ==
  /\ step \in {"DOCTOR", "TUNNEL"}
  /\ "probe" \in Doubt
  /\ EndCycle
  /\ UNCHANGED <<frozen, Rest>>

ProbeTunnel ==
  /\ step = "TUNNEL"
  /\ \E answer \in TunnelAnswers : checks' = WithTunnel(checks, answer)
  /\ step' = "DECIDE"
  /\ UNCHANGED <<frozen, lock, Rest>>

\* The verdict of the cycle.  A restart first takes its place in the budget.
Decide ==
  /\ step = "DECIDE"
  /\ IF ReportedP0 # Nothing
     THEN Freeze(ReportedP0) /\ UNCHANGED budget
     ELSE IF Overall(checks) = "READY" \/ ~Restartable(Classify)
     THEN EndCycle /\ UNCHANGED <<frozen, budget>>
     ELSE \E now \in Now :
            IF ~ClockIsSound(budget, now)
            THEN Freeze("recovery_state_failure") /\ UNCHANGED budget
            ELSE IF ~BudgetAllows(now)
            THEN Freeze("restart_storm") /\ UNCHANGED budget
            ELSE /\ budget' = Append(budget, now)
                 /\ Go("RESTART")
                 /\ UNCHANGED frozen
  /\ UNCHANGED <<disk, current, world, troubles, tunnel, restarts>>

\* launchctl kickstart -k.  Whether it is accepted, fails or times out, the cycle ends, and the
\* next Doctor sees what became of it.
RequestRestart ==
  /\ step = "RESTART"
  /\ kick' = TRUE
  /\ restarts' = Append(restarts, budget[Len(budget)])
  /\ EndCycle
  /\ UNCHANGED <<disk, current, frozen, world, troubles, job, wrapper, origin, client, identity,
                 budget>>

\* The deadline, a kill, or an error that leaves the cycle, such as a latch that cannot be written.  The
\* kernel gives the lock back.
CycleDies ==
  /\ step # "IDLE"
  /\ EndCycle
  /\ UNCHANGED <<frozen, Rest>>

SupervisorNext ==
  \/ BeginCycle
  \/ CheckRelease
  \/ CheckCredential
  \/ RunDoctor
  \/ DoctorTimesOut
  \/ ProbeTunnel
  \/ Decide
  \/ RequestRestart
  \/ CycleDies

=============================================================================
