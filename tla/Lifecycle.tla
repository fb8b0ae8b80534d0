------------------------------ MODULE Lifecycle ------------------------------
(***************************************************************************)
(* The case life cycle of remediator/lifecycle.py: the states, the table of *)
(* legal transitions, the two session-running phases and the check made by  *)
(* transition() before it touches the database.  The module has no state of *)
(* its own; the modules that keep a case's state use these definitions.     *)
(***************************************************************************)

TERMINAL_STATES ==
    {"CI_PASSED", "CI_FAILED", "TIMED_OUT", "POLICY_REJECTED",
     "REMEDIATION_REJECTED", "REMEDIATION_FAILED", "REMEDIATION_TIMED_OUT",
     "REMEDIATION_CANCELLED", "FAILED", "CANCELLED"}

REMEDIATION_PHASE_STATES ==
    {"REMEDIATION_APPROVED", "REMEDIATION_CREATE_INTENT",
     "REMEDIATION_RECONCILING_CREATE", "REMEDIATING",
     "REMEDIATION_HUMAN_BLOCKED", "OUTPUT_VALIDATING", "PR_DISCOVERED",
     "PR_VALIDATING", "PROBE_VALIDATING_BASE", "PROBE_INFRASTRUCTURE_BLOCKED",
     "PROBE_VALIDATING_HEAD", "PR_VALIDATED", "CI_PENDING", "CI_PASSED",
     "CI_FAILED", "REMEDIATION_FAILED", "REMEDIATION_TERMINATION_PENDING",
     "REMEDIATION_TIMED_OUT", "REMEDIATION_CANCELLED"}

GENERIC_STATES ==
    {"RECEIVED", "ELIGIBILITY_EVALUATED", "TRIAGE_CREATE_INTENT", "TRIAGING",
     "TRIAGED", "AWAITING_REMEDIATION_APPROVAL", "APPROVAL_DELIVERY_FAILED",
     "REMEDIATION_REJECTED", "HUMAN_BLOCKED", "RECONCILING_CREATE",
     "TERMINATION_PENDING", "TIMED_OUT", "POLICY_REJECTED", "FAILED",
     "CANCELLED"}

CaseState == GENERIC_STATES \cup REMEDIATION_PHASE_STATES

\* The states a remediation may always leave to.
REMEDIATION_EXITS == {"REMEDIATION_FAILED", "REMEDIATION_CANCELLED"}

\* The edges written out in the table, before the loop that widens them.
BASE_TRANSITIONS ==
  [s \in CaseState |->
    CASE s = "RECEIVED" -> {"ELIGIBILITY_EVALUATED"}
      [] s = "ELIGIBILITY_EVALUATED" -> {"TRIAGE_CREATE_INTENT", "POLICY_REJECTED"}
      [] s = "TRIAGE_CREATE_INTENT" -> {"RECONCILING_CREATE", "TRIAGING"}
      [] s = "TRIAGING" -> {"TRIAGED", "HUMAN_BLOCKED", "TIMED_OUT"}
      [] s = "TRIAGED" -> {"AWAITING_REMEDIATION_APPROVAL", "POLICY_REJECTED"}
      [] s = "AWAITING_REMEDIATION_APPROVAL" ->
           {"REMEDIATION_APPROVED", "REMEDIATION_REJECTED", "APPROVAL_DELIVERY_FAILED"}
      [] s = "APPROVAL_DELIVERY_FAILED" -> {"REMEDIATION_APPROVED"}
      [] s = "REMEDIATION_APPROVED" ->
           {"PROBE_VALIDATING_BASE", "REMEDIATION_HUMAN_BLOCKED"} \cup REMEDIATION_EXITS
      [] s = "PROBE_VALIDATING_BASE" ->
           {"REMEDIATION_CREATE_INTENT", "PROBE_INFRASTRUCTURE_BLOCKED",
            "REMEDIATION_HUMAN_BLOCKED"} \cup REMEDIATION_EXITS
      [] s = "PROBE_INFRASTRUCTURE_BLOCKED" ->
           {"PROBE_VALIDATING_BASE", "REMEDIATION_CANCELLED"}
      [] s = "REMEDIATION_CREATE_INTENT" ->
           {"REMEDIATION_RECONCILING_CREATE", "REMEDIATING",
            "REMEDIATION_TERMINATION_PENDING"} \cup REMEDIATION_EXITS
      [] s = "REMEDIATION_RECONCILING_CREATE" ->
           {"REMEDIATING", "REMEDIATION_HUMAN_BLOCKED",
            "REMEDIATION_TERMINATION_PENDING"} \cup REMEDIATION_EXITS
      [] s = "REMEDIATING" ->
           {"OUTPUT_VALIDATING", "REMEDIATION_HUMAN_BLOCKED", "REMEDIATION_TIMED_OUT",
            "REMEDIATION_TERMINATION_PENDING"} \cup REMEDIATION_EXITS
      [] s = "OUTPUT_VALIDATING" ->
           {"PR_DISCOVERED", "REMEDIATION_HUMAN_BLOCKED"} \cup REMEDIATION_EXITS
      [] s = "PR_DISCOVERED" ->
           {"PR_VALIDATING", "REMEDIATION_HUMAN_BLOCKED"} \cup REMEDIATION_EXITS
      [] s = "PR_VALIDATING" ->
           {"PROBE_VALIDATING_HEAD", "REMEDIATION_HUMAN_BLOCKED"} \cup REMEDIATION_EXITS
      [] s = "PROBE_VALIDATING_HEAD" ->
           {"PR_VALIDATED", "REMEDIATION_HUMAN_BLOCKED"} \cup REMEDIATION_EXITS
      [] s = "PR_VALIDATED" -> {"CI_PENDING"} \cup REMEDIATION_EXITS
      [] s = "CI_PENDING" ->
           {"CI_PASSED", "CI_FAILED", "REMEDIATION_HUMAN_BLOCKED"} \cup REMEDIATION_EXITS
      [] s = "CI_FAILED" -> {"CI_PENDING", "REMEDIATION_CANCELLED"}
      [] s = "REMEDIATION_HUMAN_BLOCKED" ->
           {"REMEDIATION_APPROVED", "REMEDIATION_TERMINATION_PENDING"} \cup REMEDIATION_EXITS
      [] s = "REMEDIATION_TERMINATION_PENDING" ->
           {"OUTPUT_VALIDATING", "REMEDIATION_HUMAN_BLOCKED",
            "REMEDIATION_TIMED_OUT"} \cup REMEDIATION_EXITS
      [] s = "REMEDIATION_FAILED" ->
           {"REMEDIATION_APPROVED", "PROBE_VALIDATING_HEAD", "CI_PENDING",
            "REMEDIATION_CANCELLED"}
      [] s = "REMEDIATION_TIMED_OUT" -> {"REMEDIATION_APPROVED", "REMEDIATION_CANCELLED"}
      [] s = "HUMAN_BLOCKED" -> {"RECEIVED", "TRIAGING"}
      [] s = "RECONCILING_CREATE" -> {"TRIAGING", "HUMAN_BLOCKED"}
      [] s = "TERMINATION_PENDING" -> {"TIMED_OUT", "TRIAGED", "HUMAN_BLOCKED"}
      [] s \in {"TIMED_OUT", "FAILED"} -> {"RECEIVED"}
      [] OTHER -> {}]

\* Every active state outside the remediation phase may fail, be cancelled or
\* be parked for termination.
TRANSITIONS ==
    [s \in CaseState |->
        BASE_TRANSITIONS[s] \cup
        (IF s \in GENERIC_STATES \ TERMINAL_STATES
         THEN {"FAILED", "CANCELLED", "TERMINATION_PENDING"} ELSE {})]

\* The extra edges of a case that runs without an acceptance probe.
PROBE_NOT_CONFIGURED_TRANSITIONS ==
    [s \in CaseState |->
        CASE s = "REMEDIATION_APPROVED" -> {"REMEDIATION_CREATE_INTENT"}
          [] s = "PR_VALIDATING" -> {"PR_VALIDATED"}
          [] OTHER -> {}]

TERMINATION_PENDING_STATES ==
    {"TERMINATION_PENDING", "REMEDIATION_TERMINATION_PENDING"}
=============================================================================
