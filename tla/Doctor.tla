-------------------------------- MODULE Doctor --------------------------------
(***************************************************************************)
(* run_doctor (doctor.py): the checks in the order they are made.  What    *)
(* the install, the credential, the ledger and the workspaces show is read *)
(* first, the tunnel is probed last; the roll-up judges what was read.     *)
(***************************************************************************)
EXTENDS Tunnel

CONSTANT Doubt  \* what may come out otherwise at any time: "index", "core", "probe"

Status(passes) == IF passes THEN "PASS" ELSE "FAIL"

\* _check_registry_coverage: a gap is DEGRADED, never PASS.
RegistryCheck ==
  LET coverage == Coverage IN
  [status |-> IF coverage.complete THEN "PASS" ELSE "DEGRADED",
   registered |-> coverage.registered, available |-> coverage.available,
   unavailable |-> coverage.unavailable, complete |-> coverage.complete]

\* _run_canary: a failing canary names the stage, and an unavailable root its reason.
RunCanary(w) ==
  IF w \notin registry THEN "resolve" ELSE IF w \in DOMAIN gaps THEN gaps[w] ELSE "PASS"

CanaryCheck ==
  LET results == [w \in Canaries |-> RunCanary(w)] IN
  [status |-> IF results = NoGap THEN "UNKNOWN"
              ELSE Status(\A w \in Canaries : results[w] = "PASS"),
   results |-> results]

\* Everything but the tunnel.  `doubtful` are the checks that come out badly for a reason of their
\* own: an index that is stale, a gateway that does not start.
Examine(doubtful) ==
  LET checks ==
        [runtime_paths |-> [status |-> "PASS"],
         release |-> [status |-> Status(CurrentIsValid)],
         credential |-> [status |-> Status(CredentialPasses)],
         audit_chain |-> [status |-> Status(AuditPasses)],
         core |-> [status |-> IF "core" \in doubtful THEN "ERROR" ELSE "PASS"],
         mcp |-> [status |-> "PASS"],
         workspace_registry |-> RegistryCheck,
         workspace_canary |-> CanaryCheck,
         reality_index |-> [status |-> IF "index" \in doubtful THEN "DEGRADED" ELSE "PASS"]]
  IN IF frozen = Nothing
     THEN checks
     ELSE [name \in DOMAIN checks \cup {"freeze_latch"} |->
             IF name = "freeze_latch" THEN [status |-> "FAIL"] ELSE checks[name]]

\* _check_tunnel: the recorded process is there, serves the current release and answers.  A client
\* that is exiting may answer; a probe without an answer says nothing.
TunnelAnswers ==
  LET recorded == /\ identity # Nothing
                  /\ client.id = identity.id
                  /\ client.state # "NONE"
                  /\ identity.release = current
  IN (IF recorded THEN {"PASS"} ELSE {"FAIL"})
       \cup (IF recorded /\ client.state = "EXITING" THEN {"FAIL"} ELSE {})
       \cup (IF "probe" \in Doubt THEN {"UNKNOWN"} ELSE {})

WithTunnel(checks, answer) ==
  [name \in DOMAIN checks \cup {"tunnel"} |->
     IF name = "tunnel" THEN [status |-> answer] ELSE checks[name]]

Severe == {"runtime_paths", "release", "credential", "audit_chain", "freeze_latch"}

\* The roll-up.
Overall(checks) ==
  LET statuses == {checks[name].status : name \in DOMAIN checks}
      severe == \E name \in Severe \cap DOMAIN checks : checks[name].status # "PASS"
  IN IF severe THEN "FROZEN"
     ELSE IF "ERROR" \in statuses THEN "FAILED"
     ELSE IF statuses = {"PASS"} THEN "READY" ELSE "DEGRADED"

Report(checks, release) ==
  [overall |-> Overall(checks), checks |-> checks, release |-> release]

=============================================================================
