------------------------------ MODULE Acceptance ------------------------------
(***************************************************************************)
(* release_acceptance.py: when a release whose registry has gaps may ship. *)
(* A declaration names the gaps; a report (of the artifact before the      *)
(* switch, of the Doctor after it) must first agree with itself and then   *)
(* with the declaration, or, without one, show no gap at all.              *)
(*                                                                         *)
(* A map of unavailable workspaces is a function from the ids to the       *)
(* reasons.  Violations are the set of their codes.                        *)
(***************************************************************************)
EXTENDS Integers, FiniteSets

CONSTANTS
  Workspace,  \* ids a registry may hold
  Strict      \* no declaration was supplied

GapReason == {"root_missing", "root_not_directory", "root_unresolvable"}
MustPass == {"runtime_paths", "release", "credential", "audit_chain", "core", "mcp", "tunnel",
             "reality_index"}
CoverageChecks == {"workspace_registry", "workspace_canary"}

NoGap == [w \in {} |-> "root_missing"]

Code(condition, code) == IF condition THEN {code} ELSE {}

-----------------------------------------------------------------------------

\* What load_declaration accepts.
Declaration(d) ==
  /\ {d.registered, d.available, d.canaryTotal} \subseteq Nat
  /\ d.unavailable \in [DOMAIN d.unavailable -> GapReason]
  /\ d.available = d.registered - Cardinality(DOMAIN d.unavailable)
  /\ d.canaryFailing \subseteq DOMAIN d.unavailable
  /\ Cardinality(d.canaryFailing) <= d.canaryTotal

Declared(declaration) == IF declaration = Strict THEN NoGap ELSE declaration.unavailable

\* The report's own numbers and verdicts contradict each other.
CoverageConsistency(report) ==
  LET gaps == Cardinality(DOMAIN report.unavailable) IN
  Code(report.registered - report.available # gaps, "registry_counts_inconsistent")
    \cup Code(report.complete # (gaps = 0), "registry_complete_inconsistent")

\* Doctor's status is checked as well; the artifact reports none.
StatusConsistency(report) ==
  Code(report.status # (IF DOMAIN report.unavailable = {} THEN "PASS" ELSE "DEGRADED"),
       "registry_status_inconsistent")

RegistryViolations(report, declaration) ==
  LET declared == Declared(declaration)
      observed == report.unavailable
  IN CoverageConsistency(report)
       \cup Code(/\ declaration # Strict
                 /\ <<report.registered, report.available>>
                       # <<declaration.registered, declaration.available>>,
                 "registry_count_mismatch")
       \cup Code(DOMAIN observed \ DOMAIN declared # {}, "unexpected_unavailable")
       \cup Code(\E w \in DOMAIN observed \cap DOMAIN declared : observed[w] # declared[w],
                 "unavailable_reason_mismatch")
       \cup Code(DOMAIN declared \ DOMAIN observed # {}, "declared_gap_not_observed")

\* The gate before the switch.
CheckCoverage(report, declaration) == RegistryViolations(report, declaration)

\* A canary's result is PASS, the reason of the gap that its root is, or the stage that failed.
CanaryViolations(canary, declaration, canaries) ==
  LET failing == {w \in DOMAIN canary.results : canary.results[w] # "PASS"}
      declared == IF declaration = Strict THEN {} ELSE declaration.canaryFailing
      summary == IF failing = {} /\ canary.results # NoGap THEN "PASS" ELSE "FAIL"
  IN IF canary.status \notin {"PASS", "FAIL"}
     THEN {"canaries_not_evaluated"}
     ELSE Code(canary.status # summary, "canary_status_inconsistent")
            \cup Code(DOMAIN canary.results # canaries, "canary_set_mismatch")
            \cup Code(/\ declaration # Strict
                      /\ Cardinality(canaries) # declaration.canaryTotal, "canary_total_mismatch")
            \cup Code(failing \ declared # {}, "unexpected_canary_failure")
            \cup Code(\E w \in failing \cap declared :
                        canary.results[w] # declaration.unavailable[w],
                      "canary_failure_not_root_gap")
            \cup Code(declared \ failing # {}, "declared_canary_gap_not_observed")

\* The checks that no declaration can excuse.  A report may hold more than the usual ones.
NotPassing(checks) ==
  {name \in (MustPass \cup DOMAIN checks) \ CoverageChecks :
     name \notin DOMAIN checks \/ checks[name].status # "PASS"}

Gaps(checks) ==
  DOMAIN checks.workspace_registry.unavailable
    \cup {w \in DOMAIN checks.workspace_canary.results :
            checks.workspace_canary.results[w] # "PASS"}

\* Mutant of Evaluate: only the required checks are judged.
EvaluateRequired(report, none, declaration, postOk, release, canaries) ==
  IF report = none THEN {"doctor_report_invalid"}
  ELSE Code(~postOk, "post_steps_failed") \cup NotPassing(report.checks)

\* Doctor's report of the release that was switched to, against the exact predicate.  The report
\* is None when Doctor gave none.
Evaluate(report, none, declaration, postOk, release, canaries) ==
  LET post == Code(~postOk, "post_steps_failed")
      checks == report.checks
      found == Code(report.release # release, "release_identity_mismatch")
                 \cup NotPassing(checks)
                 \cup (IF checks.workspace_registry.status \notin {"PASS", "DEGRADED"}
                       THEN {"registry_not_evaluated"}
                       ELSE RegistryViolations(checks.workspace_registry, declaration)
                              \cup StatusConsistency(checks.workspace_registry))
                 \cup CanaryViolations(checks.workspace_canary, declaration, canaries)
      expected == IF Gaps(checks) = {} THEN "READY" ELSE "DEGRADED"
  IN IF report = none
     THEN post \cup {"doctor_report_invalid"}
     ELSE IF post \cup found # {}
          THEN post \cup found
          ELSE Code(report.overall # expected, "doctor_overall_unexpected")

\* The one failure worth waiting for.
OnlyTunnelPending(violations) == violations = {"tunnel"}

=============================================================================
