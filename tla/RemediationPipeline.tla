------------------------- MODULE RemediationPipeline -------------------------
(***************************************************************************)
(* The remediation of one approved case, worker/remediation.py: dispatch,   *)
(* the BASE probe, the paid session, its output, the pull request, the HEAD *)
(* probe and CI, with the operator's retries (api/operator.py).             *)
(*                                                                          *)
(* A step that ends in transition() is one action at its compare-and-set.   *)
(* A step that waits in between (for the verifier, GitHub, a capacity lease *)
(* or Devin), and writes something the compare-and-set does not protect or  *)
(* uses what it read before it waited, is a begin and an end.  The create   *)
(* and poll protocol of the session is TriageRunner.tla's; here it starts   *)
(* and ends.                                                                *)
(***************************************************************************)
EXTENDS Lifecycle, Naturals, FiniteSets, Sequences

CONSTANTS Loops,            \* the worker's loops
          Checks,           \* the names of GitHub checks
          required_checks,  \* those that must pass; empty: all that are reported
          max_attempts_per_kind,
          MaxHeads,         \* bound: commits pushed to one pull request
          MaxSnapshots,     \* bound: dispatches that find a probe
          MaxRuns,          \* bound: probe executions before a BASE probe is begun
          MaxFaults,        \* bound: transient and infrastructure failures
          MaxCrashes,       \* bound: jobs that die
          MaxLapses,        \* bound: leases that lapse under a running job
          MaxOperator       \* bound: operator actions, registry and policy changes

ASSUME ConstantsAssumption ==
    /\ IsFiniteSet(Loops) /\ Loops # {} /\ "none" \notin Loops
    /\ IsFiniteSet(Checks) /\ required_checks \subseteq Checks
    /\ {max_attempts_per_kind, MaxHeads, MaxSnapshots, MaxRuns} \subseteq Nat \ {0}
    /\ {MaxFaults, MaxCrashes, MaxLapses, MaxOperator} \subseteq Nat

VARIABLES
    state,      \* Case.state
    why,        \* Case.failure_reason: does a missing probe block the case?
    ci_status,  \* Case.ci_status
    claim,      \* Case.claimed_by, and whether its lease has lapsed
    policy,     \* PROBE_POLICY
    registered, \* the probe registry has an approved probe for the issue
    snapshots,  \* how many probe_snapshots rows there are
    decided,    \* a probe_policy_decisions row: the case goes on without a probe
    runs,       \* the probe_executions rows, oldest first
    attempts,   \* the remediation attempts, oldest first
    pr,         \* GitHub: the head of each attempt's pull request
    job,        \* what each loop is doing
    budget      \* what is left of the bounds

vars == <<state, why, ci_status, claim, policy, registered, snapshots, decided,
          runs, attempts, pr, job, budget>>

Attempts == 1..max_attempts_per_kind
Heads == 1..MaxHeads
Verdicts == {"MATCHED", "MISMATCHED", "INFRASTRUCTURE"}
Observations == [Checks -> {"none", "queued", "success", "neutral", "failure"}]

PIPELINE_STATES == {"OUTPUT_VALIDATING", "PR_DISCOVERED", "PR_VALIDATING",
                    "PROBE_VALIDATING_HEAD", "PR_VALIDATED", "CI_PENDING"}
SESSION_STATES == {"REMEDIATION_CREATE_INTENT", "REMEDIATING",
                   "REMEDIATION_TERMINATION_PENDING"}
WORK_STATES == PIPELINE_STATES \cup SESSION_STATES
               \cup {"REMEDIATION_APPROVED", "PROBE_VALIDATING_BASE"}

NoObservation == [c \in Checks |-> "none"]

\* CREATING: its create is on record, no session is attached.  snap = 0: no probe is
\* configured.  head is what the output claims; of and files are the heads the pull
\* request and its file list were read at.
NewAttempt(s) ==
    [status |-> "CREATING", snap |-> s, output |-> FALSE, head |-> 0, evidence |-> "none",
     of |-> 0, files |-> 0, stage |-> "none", infrastructure |-> FALSE, deadline |-> "none",
     checks |-> NoObservation]

AttemptRows ==
    [status : {"CREATING", "RUNNING", "SUCCEEDED", "FAILED", "BLOCKED", "TIMED_OUT", "CANCELLED"},
     snap : 0..MaxSnapshots, output : BOOLEAN, head : Heads \cup {0},
     evidence : {"none", "valid"}, of : Heads \cup {0}, files : Heads \cup {0},
     stage : {"none", "session", "output", "pr", "probe_head", "ci"},
     infrastructure : BOOLEAN, deadline : {"none", "set", "passed"},
     checks : Observations]

Runs == [snap : 0..MaxSnapshots, target : {"BASE", "HEAD"}, head : Heads \cup {0},
         verdict : Verdicts, attempt : Attempts \cup {0}]

PCs == {"idle", "run", "base", "based", "start", "attach", "session", "pull", "head", "poll"}

\* attempt, run and snap: the rows the step under way has loaded.
Idle == [pc |-> "idle", state |-> "REMEDIATION_APPROVED", attempt |-> 0, run |-> 0, snap |-> 0,
         verdict |-> "INFRASTRUCTURE", head |-> 0, late |-> FALSE]

TypeOK ==
    /\ state \in REMEDIATION_PHASE_STATES
    /\ why \in {"none", "missing_probe", "other"}
    /\ ci_status \in {"none", "PENDING", "ABSENT", "PASSED", "FAILED", "TIMED_OUT"}
    /\ claim \in [by : Loops \cup {"none"}, lapsed : BOOLEAN]
    /\ policy \in {"required", "if_available"}
    /\ registered \in BOOLEAN /\ decided \in BOOLEAN
    /\ snapshots \in 0..MaxSnapshots
    /\ \A i \in DOMAIN runs : runs[i] \in Runs
    /\ Len(attempts) <= max_attempts_per_kind
    /\ \A a \in DOMAIN attempts : attempts[a] \in AttemptRows
    /\ pr \in [Attempts -> Heads]
    /\ \A l \in Loops : job[l].pc \in PCs /\ job[l].attempt \in 0..Len(attempts)
                         /\ job[l].run \in DOMAIN runs \cup {0}

\* The label webhook has just confirmed the approval (Approval.tla).
Init ==
    /\ state = "REMEDIATION_APPROVED"
    /\ why = "none" /\ ci_status = "none"
    /\ claim = [by |-> "none", lapsed |-> FALSE]
    /\ policy \in {"required", "if_available"}
    /\ registered \in BOOLEAN
    /\ snapshots = 0 /\ decided = FALSE
    /\ runs = <<>> /\ attempts = <<>>
    /\ pr = [a \in Attempts |-> 1]
    /\ job = [l \in Loops |-> Idle]
    /\ budget = [faults |-> MaxFaults, crashes |-> MaxCrashes, lapses |-> MaxLapses,
                 operator |-> MaxOperator]
-----------------------------------------------------------------------------
\* Helpers

config == <<policy, registered>>
rows == <<snapshots, decided, runs>>

Spend(b) == budget[b] > 0 /\ budget' = [budget EXCEPT ![b] = @ - 1]

Newest == Len(attempts)      \* latest_remediation_attempt(), 0 when there is none

Active == \E a \in DOMAIN attempts : attempts[a].status \in {"CREATING", "RUNNING"}

\* transition(): the state and the claim are still what the job loaded.
Fresh(l) == claim.by = l /\ state = job[l].state

At(l, s) == job[l].pc = "run" /\ Fresh(l) /\ state = s

\* The end of a job, whatever became of the claim.
Drop(l) == IF claim.by = l THEN [by |-> "none", lapsed |-> FALSE] ELSE claim
EndJob(l) == job' = [job EXCEPT ![l] = Idle] /\ claim' = Drop(l)

\* The case moves on; the job goes on with it or has nothing left to do.
MoveTo(l, s) ==
    /\ state' = s
    /\ IF s \in WORK_STATES
       THEN /\ job' = [job EXCEPT ![l] = [Idle EXCEPT !.pc = "run", !.state = s]]
            /\ UNCHANGED claim
       ELSE EndJob(l)

\* fail_case(): FAILED, or TERMINATION_PENDING while an attempt may own a session.
failed_state == IF Active THEN "REMEDIATION_TERMINATION_PENDING" ELSE "REMEDIATION_FAILED"

\* The compare-and-set of fail_case() may be refused: not every state has that edge.
Failable == failed_state \in TRANSITIONS[state]

fail_case(l, rows_after) ==
    /\ EndJob(l)
    /\ IF Failable THEN state' = failed_state /\ why' = "other" /\ attempts' = rows_after
       ELSE UNCHANGED <<state, why, attempts>>

\* What _fail() writes on the attempt that failed.
Failed(a, stage, infrastructure) ==
    [attempts EXCEPT ![a].stage = stage, ![a].infrastructure = infrastructure]

\* _human_block(): the same, classified as policy.
Block(l, reason) == MoveTo(l, "REMEDIATION_HUMAN_BLOCKED") /\ why' = reason
-----------------------------------------------------------------------------
\* Jobs: claiming a case, losing the claim, dying

Claimable ==
    \/ state \in WORK_STATES
    \/ state = "REMEDIATION_HUMAN_BLOCKED" /\ why = "missing_probe" /\ policy = "if_available"

Claim(l) ==
    /\ job[l].pc = "idle"
    /\ Claimable
    /\ claim.by = "none" \/ claim.lapsed
    /\ claim' = [by |-> l, lapsed |-> FALSE]
    /\ job' = [job EXCEPT ![l] = [Idle EXCEPT !.pc = "run", !.state = state]]
    /\ UNCHANGED <<state, why, ci_status, config, rows, attempts, pr, budget>>

\* Mutant: any matching BASE run will do, one that authorised an attempt too.
Unclaimed_Any(i) == TRUE

Unclaimed(i) == runs[i].attempt = 0

\* _matched_base_execution(): runs that allow spending on the newest snapshot.
Authorising ==
    {i \in DOMAIN runs : /\ runs[i].snap = snapshots /\ runs[i].target = "BASE"
                         /\ runs[i].verdict = "MATCHED" /\ Unclaimed(i)}

\* _load_context() finds what a new attempt needs.
HasContext == IF snapshots > 0 THEN Authorising # {} ELSE decided

\* A job in a session state that finds no active attempt and has the context of a new one.
Starts(l) ==
    /\ job[l].pc = "run" /\ job[l].state \in {"REMEDIATION_CREATE_INTENT", "REMEDIATING"}
    /\ ~Active /\ HasContext

\* A transition of the job is refused: InvalidTransition, rollback, release.
Abandon(l) ==
    /\ job[l].pc \in {"run", "session"} /\ ~Fresh(l)
    /\ ~Starts(l)
    /\ EndJob(l)
    /\ UNCHANGED <<state, why, ci_status, config, rows, attempts, pr, budget>>

\* TransientVerificationError, a denied capacity lease or a busy verifier: process()
\* rolls back and the case is claimed again later.
Transient(l) ==
    /\ job[l].pc \notin {"idle", "based", "attach", "session"}
    /\ Spend("faults")
    /\ EndJob(l)
    /\ UNCHANGED <<state, why, ci_status, config, rows, attempts, pr>>

\* Any other exception: the worker fails the case, or parks it for termination while
\* an attempt may own a session.
JobRaises(l) ==
    /\ job[l].pc # "idle"
    /\ Fresh(l)
    /\ Spend("faults")
    /\ fail_case(l, attempts)
    /\ UNCHANGED <<ci_status, config, rows, pr>>

Crash(l) ==
    /\ job[l].pc # "idle"
    /\ Spend("crashes")
    /\ job' = [job EXCEPT ![l] = Idle]
    /\ UNCHANGED <<state, why, ci_status, claim, config, rows, attempts, pr>>

\* The lease runs out: its job is dead, or no longer renews it.
LeaseLapses ==
    /\ claim.by # "none" /\ ~claim.lapsed
    /\ claim' = [claim EXCEPT !.lapsed = TRUE]
    /\ IF job[claim.by].pc = "idle" THEN UNCHANGED budget ELSE Spend("lapses")
    /\ UNCHANGED <<state, why, ci_status, config, rows, attempts, pr, job>>
-----------------------------------------------------------------------------
\* Dispatch, without spending anything

\* _resume_missing_probe_block()
Resume(l) ==
    /\ At(l, "REMEDIATION_HUMAN_BLOCKED")
    /\ MoveTo(l, "REMEDIATION_APPROVED")
    /\ why' = "none"
    /\ UNCHANGED <<ci_status, config, rows, attempts, pr, budget>>

\* Mutant: a pull request that is already verified does not stop a new attempt.
Dispatchable_AnyPR == ~Active

\* No attempt is active and none has a verified pull request.
Dispatchable == ~Active /\ \A a \in DOMAIN attempts : attempts[a].evidence # "valid"

\* _dispatch(): the approval, label, issue or base ref is not what it has to be.
DispatchRefused(l) ==
    /\ At(l, "REMEDIATION_APPROVED")
    /\ \/ fail_case(l, attempts)
       \/ Block(l, "other") /\ UNCHANGED attempts
    /\ UNCHANGED <<ci_status, config, rows, pr, budget>>

\* _dispatch() once the approval, the label and the issue are in order.
Dispatch(l) ==
    /\ At(l, "REMEDIATION_APPROVED")
    /\ \/ /\ ~Dispatchable
          /\ Block(l, "other")
          /\ UNCHANGED <<snapshots, decided>>
       \/ /\ Dispatchable /\ registered /\ snapshots < MaxSnapshots
          /\ snapshots' = snapshots + 1
          /\ MoveTo(l, "PROBE_VALIDATING_BASE")
          /\ UNCHANGED <<why, decided>>
       \/ /\ Dispatchable /\ ~registered /\ policy = "required"
          /\ Block(l, "missing_probe")
          /\ UNCHANGED <<snapshots, decided>>
       \/ /\ Dispatchable /\ ~registered /\ policy = "if_available"
          /\ decided' = TRUE                       \* _dispatch_without_probe()
          /\ why' = "none"
          /\ MoveTo(l, "REMEDIATION_CREATE_INTENT")
          /\ UNCHANGED snapshots
    /\ UNCHANGED <<ci_status, config, runs, attempts, pr, budget>>
-----------------------------------------------------------------------------
\* The independent probe: _execute_probe()

\* What the worker is told: the verdict of the run, or INFRASTRUCTURE when there was none
\* or its answer was lost on the way (Verifier.tla).
Ask(l, loaded, pc) ==
    \E v \in Verdicts :
        /\ IF v = "INFRASTRUCTURE" THEN Spend("faults") ELSE UNCHANGED budget
        /\ job' = [job EXCEPT ![l] = [loaded EXCEPT !.pc = pc, !.verdict = v]]

\* _probe_base() up to the verifier's answer.
BeginBase(l) ==
    /\ At(l, "PROBE_VALIDATING_BASE") /\ Len(runs) < MaxRuns
    /\ Ask(l, [job[l] EXCEPT !.snap = snapshots], "base")
    /\ UNCHANGED <<state, why, ci_status, claim, config, rows, attempts, pr>>

\* The execution is committed before anything checks the claim.
RecordBase(l) ==
    /\ job[l].pc = "base"
    /\ runs' = Append(runs, [snap |-> job[l].snap, target |-> "BASE", head |-> 0,
                             verdict |-> job[l].verdict, attempt |-> 0])
    /\ job' = [job EXCEPT ![l].pc = "based"]
    /\ UNCHANGED <<state, why, ci_status, claim, config, snapshots, decided, attempts, pr, budget>>

\* The verdict moves the case; a stale job gives up.
EndBase(l) ==
    LET v == job[l].verdict
    IN  /\ job[l].pc = "based"
        /\ IF ~Fresh(l) THEN EndJob(l) /\ UNCHANGED <<state, why, attempts>>
           ELSE \/ /\ v = "MATCHED" /\ MoveTo(l, "REMEDIATION_CREATE_INTENT")
                   /\ UNCHANGED <<why, attempts>>
                \/ /\ v = "INFRASTRUCTURE" /\ why' = "other"
                   /\ MoveTo(l, "PROBE_INFRASTRUCTURE_BLOCKED") /\ UNCHANGED attempts
                \/ /\ v = "MISMATCHED" /\ Block(l, "other")   \* it passes at base already
                   /\ UNCHANGED attempts
                \/ v = "MISMATCHED" /\ fail_case(l, attempts)
        /\ UNCHANGED <<ci_status, config, rows, pr, budget>>
-----------------------------------------------------------------------------
\* The session: _load_context() and _run_session()

\* _load_context(): the newest run that authorises spending, or the decision to do without.
\* Nothing but the job's own memory says that it may go on: no claim or state is checked.
LoadContext(l) ==
    /\ Starts(l)
    /\ job' = [job EXCEPT ![l].pc = "start",
                 ![l].run = IF snapshots = 0 THEN 0
                            ELSE CHOOSE i \in Authorising : \A j \in Authorising : j <= i]
    /\ UNCHANGED <<state, why, ci_status, claim, config, rows, attempts, pr, budget>>

\* ... or there is none, and the case fails.
NoContext(l) ==
    /\ At(l, "REMEDIATION_CREATE_INTENT") \/ At(l, "REMEDIATING")
    /\ ~Active /\ ~HasContext
    /\ fail_case(l, attempts)
    /\ UNCHANGED <<ci_status, config, rows, pr, budget>>

\* Attempts that were blocked for a human; a replacement, or a cancel, withdraws them.
Blocked == {a \in DOMAIN attempts : attempts[a].status = "BLOCKED"}

Withdrawn(done) ==
    [a \in DOMAIN attempts |-> IF a \in done THEN [attempts[a] EXCEPT !.status = "CANCELLED"]
                               ELSE attempts[a]]

\* _settle_previous_sessions(): the sessions of blocked attempts are ended first ...
SettlePrevious(l) ==
    /\ job[l].pc = "start" /\ Newest < max_attempts_per_kind /\ Blocked # {}
    /\ attempts' = Withdrawn(Blocked)
    /\ UNCHANGED <<state, why, ci_status, claim, config, rows, pr, job, budget>>

\* ... unless one of them is unresolved, has an output or cannot be ended.
SettleRefused(l) ==
    /\ job[l].pc = "start" /\ Newest < max_attempts_per_kind
    /\ \E done \in SUBSET Blocked :
         /\ done # Blocked
         /\ IF Fresh(l) THEN fail_case(l, Withdrawn(done))
            ELSE EndJob(l) /\ UNCHANGED <<state, why, attempts>>
    /\ UNCHANGED <<ci_status, config, rows, pr, budget>>

\* _create(), with leases held and older sessions settled: the attempt is inserted and
\* the BASE run loaded before is linked to it, whoever it is linked to by now.
Insert(l) ==
    LET a == Newest + 1
        i == job[l].run
    IN  /\ job[l].pc = "start" /\ ~Active /\ Blocked = {} /\ a <= max_attempts_per_kind
        /\ runs' = IF i = 0 THEN runs ELSE [runs EXCEPT ![i].attempt = a]
        /\ attempts' = Append(attempts, NewAttempt(IF i = 0 THEN 0 ELSE runs[i].snap))
        /\ job' = [job EXCEPT ![l].pc = "attach", ![l].attempt = a]
        /\ UNCHANGED <<state, why, ci_status, claim, config, snapshots, decided, pr, budget>>

\* Another loop's attempt is active (the unique index: the process stops and the claim
\* is left to lapse), or no attempt is left.
InsertRefused(l) ==
    /\ job[l].pc = "start"
    /\ \/ /\ Active /\ Blocked = {}
          /\ job' = [job EXCEPT ![l] = Idle]
          /\ UNCHANGED <<state, why, claim, attempts>>
       \/ /\ Newest = max_attempts_per_kind
          /\ IF Fresh(l) THEN fail_case(l, attempts)
             ELSE EndJob(l) /\ UNCHANGED <<state, why, attempts>>
    /\ UNCHANGED <<ci_status, config, rows, pr, budget>>

\* The attempt ends with a status and the case moves with it.
Settle(l, a, status, s) ==
    /\ attempts' = [attempts EXCEPT ![a].status = status,
                      ![a].output = @ \/ status = "SUCCEEDED",
                      ![a].stage = IF status = "FAILED" THEN "session" ELSE @]
    /\ MoveTo(l, s)
    /\ why' = IF s \in WORK_STATES THEN why ELSE "other"

\* _attach(): the session is bound by compare-and-set.  When that is refused the attempt
\* is CANCELLED and its session deleted.
AttachTo(l, a) ==
    IF Fresh(l) /\ "REMEDIATING" \in TRANSITIONS[state]
    THEN /\ attempts' = [attempts EXCEPT ![a].status = "RUNNING"]
         /\ state' = "REMEDIATING"
         /\ job' = [job EXCEPT ![l] = [Idle EXCEPT !.pc = "session", !.state = "REMEDIATING",
                                                  !.attempt = a]]
         /\ UNCHANGED <<why, claim>>
    ELSE /\ attempts' = [attempts EXCEPT ![a].status = "CANCELLED"]
         /\ EndJob(l)
         /\ UNCHANGED <<state, why>>

\* The answer to the POST.  A stale job whose POST fails leaves the attempt as it is.
Attach(l) ==
    /\ job[l].pc = "attach"
    /\ \/ AttachTo(l, job[l].attempt)
       \/ Fresh(l) /\ Settle(l, job[l].attempt, "FAILED", "REMEDIATION_FAILED")
       \/ Fresh(l) /\ Settle(l, job[l].attempt, "BLOCKED", "REMEDIATION_HUMAN_BLOCKED")
       \/ ~Fresh(l) /\ EndJob(l) /\ UNCHANGED <<state, why, attempts>>
    /\ UNCHANGED <<ci_status, config, rows, pr, budget>>

\* run() with an active attempt: its session is found again, by tag if need be.
SessionResumed(l) ==
    /\ At(l, "REMEDIATION_CREATE_INTENT") \/ At(l, "REMEDIATING")
    /\ Active
    /\ \/ attempts[Newest].status = "CREATING" /\ AttachTo(l, Newest)
       \/ /\ attempts[Newest].status = "CREATING"
          /\ Settle(l, Newest, "BLOCKED", "REMEDIATION_HUMAN_BLOCKED")
       \/ /\ attempts[Newest].status = "RUNNING"
          /\ job' = [job EXCEPT ![l].pc = "session", ![l].attempt = Newest]
          /\ UNCHANGED <<state, why, claim, attempts>>
    /\ UNCHANGED <<ci_status, config, rows, pr, budget>>

SessionEnds(l) ==
    LET a == job[l].attempt
    IN  /\ job[l].pc = "session" /\ Fresh(l)
        /\ \/ Settle(l, a, "SUCCEEDED", "OUTPUT_VALIDATING")
           \/ Settle(l, a, "FAILED", "REMEDIATION_FAILED")
           \/ Settle(l, a, "BLOCKED", "REMEDIATION_HUMAN_BLOCKED")
           \/ Settle(l, a, "TIMED_OUT", "REMEDIATION_TIMED_OUT")
        /\ UNCHANGED <<ci_status, config, rows, pr, budget>>

\* A session that is to be ended is deleted, or turns out to have finished.
SessionTerminated(l) ==
    /\ At(l, "REMEDIATION_TERMINATION_PENDING")
    /\ \/ /\ Active
          /\ \/ Settle(l, Newest, "CANCELLED", "REMEDIATION_CANCELLED")
             \/ Settle(l, Newest, "FAILED", "REMEDIATION_FAILED")
             \/ Settle(l, Newest, "TIMED_OUT", "REMEDIATION_TIMED_OUT")
             \/ /\ attempts[Newest].status = "RUNNING"
                /\ \/ Settle(l, Newest, "SUCCEEDED", "OUTPUT_VALIDATING")
                   \/ Settle(l, Newest, "BLOCKED", "REMEDIATION_HUMAN_BLOCKED")
       \/ /\ ~Active
          /\ MoveTo(l, "REMEDIATION_CANCELLED")
          /\ attempts' = Withdrawn(Blocked)
          /\ UNCHANGED why
    /\ UNCHANGED <<ci_status, config, rows, pr, budget>>
-----------------------------------------------------------------------------
\* Verification of what the session delivered

FailAt(l, a, stage, infrastructure) == fail_case(l, Failed(a, stage, infrastructure))

BlockAt(l, a, stage) == attempts' = Failed(a, stage, FALSE) /\ Block(l, "other")

\* What the structured output says; sound: it is valid and names the pinned base, the
\* probe and the issue; claimed: how many pull requests Devin reports; agrees: the one
\* it reports is the one in the output, and in the repository.
Outputs ==
    [outcome : {"pr_created", "no_change_needed", "needs_human", "failed"},
     sound : BOOLEAN, claimed : 0..2, agrees : BOOLEAN, head : Heads]

\* Where _validate_output() sends a case.
Route(o, snap) ==
    CASE ~o.sound -> "fail"
      [] o.outcome = "needs_human" -> "block"
      [] o.outcome = "failed" -> "fail"
      [] o.outcome = "no_change_needed" -> IF o.claimed > 0 \/ snap = 0 THEN "block" ELSE "fail"
      [] o.claimed = 0 -> "fail"
      [] o.claimed > 1 -> "block"
      [] ~o.agrees -> "fail"
      [] OTHER -> "go"

\* The newest attempt may have no output: another loop's, whose session was refused.
ValidateOutput(l) ==
    /\ At(l, "OUTPUT_VALIDATING")
    /\ \E o \in Outputs :
         /\ o.sound => attempts[Newest].output
         /\ \/ Route(o, attempts[Newest].snap) = "fail" /\ FailAt(l, Newest, "output", FALSE)
            \/ Route(o, attempts[Newest].snap) = "block" /\ BlockAt(l, Newest, "output")
            \/ /\ Route(o, attempts[Newest].snap) = "go"
               /\ attempts' = [attempts EXCEPT ![Newest].head = o.head]
               /\ MoveTo(l, "PR_DISCOVERED") /\ UNCHANGED why
    /\ UNCHANGED <<ci_status, config, rows, pr, budget>>

PrDiscovered(l) ==
    /\ At(l, "PR_DISCOVERED")
    /\ MoveTo(l, "PR_VALIDATING")
    /\ UNCHANGED <<why, ci_status, config, rows, attempts, pr, budget>>

\* The head the pull request has now, and the one whose files are listed: both calls
\* name the pull request by its number.
get_pull_request(a) == pr[a]
list_pull_request_files(a) == pr[a]

\* _validate_pull_request() reads the pull request ...
ReadPull(l) ==
    /\ At(l, "PR_VALIDATING") /\ attempts[Newest].head # 0
    /\ job' = [job EXCEPT ![l].pc = "pull", ![l].attempt = Newest,
                          ![l].head = get_pull_request(Newest)]
    /\ UNCHANGED <<state, why, ci_status, claim, config, rows, attempts, pr, budget>>

\* ... unless the attempt has none: an output that cannot be read raises.
NoPull(l) ==
    /\ At(l, "PR_VALIDATING") /\ attempts[Newest].head = 0
    /\ fail_case(l, IF attempts[Newest].output THEN Failed(Newest, "pr", FALSE) ELSE attempts)
    /\ UNCHANGED <<ci_status, config, rows, pr, budget>>

\* The pull_request_evidence row of a valid pull request; any other row decides nothing.
Evidence(l) ==
    LET a == job[l].attempt
    IN  [attempts EXCEPT ![a].evidence = "valid", ![a].of = job[l].head,
                         ![a].files = list_pull_request_files(a)]

\* Every check holds, that of the head among them.
Corroborated(l) ==
    LET a == attempts[job[l].attempt]
    IN  /\ job[l].head = a.head
        /\ attempts' = Evidence(l)
        /\ MoveTo(l, IF a.snap = 0 THEN "PR_VALIDATED" ELSE "PROBE_VALIDATING_HEAD")
        /\ UNCHANGED why

\* ... and goes through its checks, the files last.
ValidatePull(l) ==
    LET a == job[l].attempt
    IN  /\ job[l].pc = "pull"
        /\ IF ~Fresh(l) THEN EndJob(l) /\ UNCHANGED <<state, why, attempts>>
           ELSE \/ FailAt(l, a, "pr", FALSE)                \* a check fails, or no such PR
                \/ FailAt(l, a, "pr", TRUE)                 \* GitHub refuses
                \/ BlockAt(l, a, "pr")                      \* it needs a human
                \/ Corroborated(l)
        /\ UNCHANGED <<ci_status, config, rows, pr, budget>>

\* _attempt_base_run(): the BASE run that authorised the attempt.
BaseRun(a) ==
    \E i \in DOMAIN runs : /\ runs[i].attempt = a /\ runs[i].snap = attempts[a].snap
                           /\ runs[i].target = "BASE" /\ runs[i].verdict = "MATCHED"

BeginHead(l) ==
    LET a == attempts[Newest]
    IN  /\ At(l, "PROBE_VALIDATING_HEAD")
        /\ IF a.snap = 0 \/ a.head = 0 \/ ~BaseRun(Newest)
           THEN FailAt(l, Newest, "probe_head", FALSE) /\ UNCHANGED budget
           ELSE /\ Ask(l, [job[l] EXCEPT !.attempt = Newest], "head")
                /\ UNCHANGED <<state, why, claim, attempts>>
        /\ UNCHANGED <<ci_status, config, rows, pr>>

\* The HEAD execution is committed with the transition it leads to.
EndHead(l) ==
    LET v == job[l].verdict
        a == job[l].attempt
        row == [snap |-> attempts[a].snap, target |-> "HEAD", head |-> attempts[a].head,
                verdict |-> v, attempt |-> a]
        moves == Fresh(l) /\ (v = "MATCHED" \/ Failable)
    IN  /\ job[l].pc = "head"
        /\ runs' = IF moves THEN Append(runs, row) ELSE runs
        /\ IF ~Fresh(l) THEN EndJob(l) /\ UNCHANGED <<state, why, attempts>>
           ELSE \/ v = "MATCHED" /\ MoveTo(l, "PR_VALIDATED") /\ UNCHANGED <<why, attempts>>
                \/ v = "INFRASTRUCTURE" /\ FailAt(l, a, "probe_head", TRUE)
                \/ v = "MISMATCHED" /\ FailAt(l, a, "probe_head", FALSE)
        /\ UNCHANGED <<ci_status, config, snapshots, decided, pr, budget>>
-----------------------------------------------------------------------------
\* CI for the verified head

\* Mutant: the case state's name is written where the CI status belongs.
EnterCi_State(l) ==
    /\ At(l, "PR_VALIDATED")
    /\ attempts' = [attempts EXCEPT ![Newest].deadline = "set"]
    /\ ci_status' = "CI_PENDING"
    /\ MoveTo(l, "CI_PENDING")
    /\ UNCHANGED <<why, config, rows, pr, budget>>

EnterCi(l) ==
    /\ At(l, "PR_VALIDATED")
    /\ attempts' = [attempts EXCEPT ![Newest].deadline = "set"]
    /\ ci_status' = "PENDING"
    /\ MoveTo(l, "CI_PENDING")
    /\ UNCHANGED <<why, config, rows, pr, budget>>

\* A conclusion that is neither success nor failure is enough when no check is required.
failing == IF required_checks = {} THEN {"failure"} ELSE {"failure", "neutral"}

\* Mutant: a required check that is not reported yet is not waited for.
evaluate_checks_Lenient(seen) ==
    LET reported == {c \in Checks : seen[c] # "none"}
        names == IF required_checks = {} THEN reported ELSE required_checks
        failed == {c \in names : seen[c] \in failing}
    IN  CASE failed # {} -> "FAILED"
          [] \E c \in names : seen[c] = "queued" -> "PENDING"
          [] OTHER -> "PASSED"

\* evaluate_checks(): nothing reported is absent; one failed check decides; a required
\* check that is neutral has failed, one that is missing is waited for.
evaluate_checks(seen) ==
    LET reported == {c \in Checks : seen[c] # "none"}
        names == IF required_checks = {} THEN reported ELSE required_checks
        failed == {c \in names : seen[c] \in failing}
    IN  CASE reported = {} -> "ABSENT"
          [] reported # {} /\ failed # {} -> "FAILED"
          [] reported # {} /\ failed = {} /\ (\E c \in names : seen[c] \in {"none", "queued"})
               -> "PENDING"
          [] OTHER -> "PASSED"

\* _poll_ci(): the clock is read, then list_check_runs() is asked for the attempt's head.
BeginPoll(l) ==
    /\ At(l, "CI_PENDING") /\ attempts[Newest].head # 0
    /\ job' = [job EXCEPT ![l].pc = "poll", ![l].attempt = Newest,
                          ![l].late = attempts[Newest].deadline = "passed"]
    /\ UNCHANGED <<state, why, ci_status, claim, config, rows, attempts, pr, budget>>

\* The newest attempt has no head to ask about.
NoPoll(l) ==
    /\ At(l, "CI_PENDING") /\ attempts[Newest].head = 0
    /\ FailAt(l, Newest, "ci", FALSE)
    /\ UNCHANGED <<ci_status, config, rows, pr, budget>>

\* Mutant: nobody looks at the deadline.
Overall_Forever(l, seen) == evaluate_checks(seen)

\* The verdict of one poll, the deadline applied.
Overall(l, seen) ==
    LET v == evaluate_checks(seen)
    IN  IF v \in {"PENDING", "ABSENT"} /\ job[l].late THEN "TIMED_OUT" ELSE v

\* A verdict moves the case by compare-and-set.  A poll without one commits its
\* snapshot, the deadline and ci_status unconditionally and leaves the case for later.
EndPoll(l) ==
    \E seen \in Observations :
        LET v == Overall(l, seen)
            a == job[l].attempt
        IN
        /\ job[l].pc = "poll"
        /\ \/ /\ v \in {"PENDING", "ABSENT"}
              /\ ci_status' = v
              /\ attempts' = [attempts EXCEPT ![a].deadline = IF @ = "none" THEN "set" ELSE @]
              /\ EndJob(l)
              /\ UNCHANGED <<state, why>>
           \/ /\ v = "PASSED" /\ Fresh(l)
              /\ ci_status' = v
              /\ attempts' = [attempts EXCEPT ![a].checks = seen]
              /\ MoveTo(l, "CI_PASSED") /\ UNCHANGED why
           \/ /\ v \in {"FAILED", "TIMED_OUT"} /\ Fresh(l)
              /\ ci_status' = v
              /\ attempts' = Failed(a, "ci", FALSE)
              /\ MoveTo(l, "CI_FAILED") /\ why' = "other"
           \/ /\ v \notin {"PENDING", "ABSENT"} /\ ~Fresh(l)
              /\ EndJob(l)
              /\ UNCHANGED <<state, why, ci_status, attempts>>
        /\ UNCHANGED <<config, rows, pr, budget>>

\* GitHub refuses the listing for good.
PollRefused(l) ==
    /\ At(l, "CI_PENDING") /\ attempts[Newest].head # 0
    /\ Spend("faults")
    /\ FailAt(l, Newest, "ci", TRUE)
    /\ UNCHANGED <<ci_status, config, rows, pr>>

\* ci_deadline_at passes.
DeadlinePasses ==
    /\ \E a \in DOMAIN attempts : /\ attempts[a].deadline = "set"
                                  /\ attempts' = [attempts EXCEPT ![a].deadline = "passed"]
    /\ UNCHANGED <<state, why, ci_status, claim, config, rows, pr, job, budget>>
-----------------------------------------------------------------------------
\* People: the author pushes, the operator retries and cancels, the team registers a
\* probe or changes the policy

Push ==
    /\ \E a \in DOMAIN attempts : pr[a] < MaxHeads /\ pr' = [pr EXCEPT ![a] = @ + 1]
    /\ UNCHANGED <<state, why, ci_status, claim, config, rows, attempts, job, budget>>

\* retry_case() in the remediation phase: back through dispatch, below the cap.
RetryCase ==
    /\ state \in {"REMEDIATION_FAILED", "REMEDIATION_TIMED_OUT", "REMEDIATION_HUMAN_BLOCKED"}
    /\ ~Active /\ Newest < max_attempts_per_kind
    /\ Spend("operator")
    /\ state' = "REMEDIATION_APPROVED"
    /\ UNCHANGED <<why, ci_status, claim, config, rows, attempts, pr, job>>

\* cancel_case(): a session that may be live is ended first.
CancelCase ==
    /\ state \notin TERMINAL_STATES \cup {"REMEDIATION_TERMINATION_PENDING"}
    /\ Spend("operator")
    /\ state' = IF \/ state = "REMEDIATING"
                   \/ Active \/ Blocked # {}
                THEN "REMEDIATION_TERMINATION_PENDING" ELSE "REMEDIATION_CANCELLED"
    /\ state' \in TRANSITIONS[state]
    /\ UNCHANGED <<why, ci_status, claim, config, rows, attempts, pr, job>>

\* Mutant: whatever failed at the step, the step may be run again.
Rerunnable_Any(stage) == attempts[Newest].stage = stage

\* _verified_attempt_action(): the step that failed, and for the probe, that the runner
\* failed and not the probe.
Rerunnable(stage) ==
    /\ attempts[Newest].stage = stage
    /\ stage = "probe_head" => attempts[Newest].infrastructure

Recheck(stage, s) ==
    /\ Newest > 0 /\ attempts[Newest].head # 0 /\ ~Active
    /\ Rerunnable(stage)
    /\ Spend("operator")
    /\ attempts' = [attempts EXCEPT ![Newest].stage = "none", ![Newest].infrastructure = FALSE,
                      ![Newest].deadline = IF s = "CI_PENDING" THEN "none" ELSE @]
    /\ ci_status' = IF s = "CI_PENDING" THEN "none" ELSE ci_status
    /\ state' = s /\ why' = "none"
    /\ UNCHANGED <<claim, config, rows, pr, job>>

RetryCi == state \in {"CI_FAILED", "REMEDIATION_FAILED"} /\ Recheck("ci", "CI_PENDING")

RetryHeadProbe == state = "REMEDIATION_FAILED" /\ Recheck("probe_head", "PROBE_VALIDATING_HEAD")

RetryBaseProbe ==
    /\ state = "PROBE_INFRASTRUCTURE_BLOCKED" /\ ~Active
    /\ Spend("operator")
    /\ state' = "PROBE_VALIDATING_BASE" /\ why' = "none"
    /\ UNCHANGED <<ci_status, claim, config, rows, attempts, pr, job>>

\* A probe is registered or removed; the deployment drops PROBE_POLICY=required.
Reconfigure ==
    /\ Spend("operator")
    /\ \/ registered' = ~registered /\ UNCHANGED policy
       \/ policy = "required" /\ policy' = "if_available" /\ UNCHANGED registered
    /\ UNCHANGED <<state, why, ci_status, claim, rows, attempts, pr, job>>
-----------------------------------------------------------------------------
Step(l) ==
    \/ Abandon(l) \/ Resume(l) \/ DispatchRefused(l) \/ Dispatch(l)
    \/ BeginBase(l) \/ RecordBase(l) \/ EndBase(l)
    \/ LoadContext(l) \/ NoContext(l) \/ SettlePrevious(l) \/ SettleRefused(l)
    \/ Insert(l) \/ InsertRefused(l) \/ Attach(l)
    \/ SessionResumed(l) \/ SessionEnds(l) \/ SessionTerminated(l)
    \/ ValidateOutput(l) \/ PrDiscovered(l) \/ ReadPull(l) \/ NoPull(l) \/ ValidatePull(l)
    \/ BeginHead(l) \/ EndHead(l) \/ EnterCi(l) \/ BeginPoll(l) \/ NoPoll(l) \/ EndPoll(l)

Operator == RetryCase \/ CancelCase \/ RetryCi \/ RetryHeadProbe \/ RetryBaseProbe
            \/ Reconfigure

Next ==
    \/ \E l \in Loops : Claim(l) \/ Step(l) \/ PollRefused(l) \/ Transient(l)
                        \/ JobRaises(l) \/ Crash(l)
    \/ LeaseLapses \/ DeadlinePasses \/ Push \/ Operator

Spec == Init /\ [][Next]_vars

\* A loop that holds the case goes on, a free case is claimed, a dead loop's lease runs
\* out, and so does the time allowed for CI.  Nothing is asked of GitHub or of people.
Fairness ==
    /\ \A l \in Loops : WF_vars(Step(l))
    /\ WF_vars(\E l \in Loops : Claim(l))
    /\ WF_vars(LeaseLapses /\ budget' = budget)
    /\ WF_vars(DeadlinePasses)

FairSpec == Spec /\ Fairness
-----------------------------------------------------------------------------
\* Properties

\* Every check that has to pass did, at one look: the plain reading of required_checks.
Green(seen) ==
    IF required_checks = {}
    THEN /\ \E c \in Checks : seen[c] # "none"
         /\ \A c \in Checks : seen[c] \in {"none", "success", "neutral"}
    ELSE \A c \in required_checks : seen[c] = "success"

Matched(a, target) ==
    \E i \in DOMAIN runs : /\ runs[i].attempt = a /\ runs[i].snap = attempts[a].snap
                           /\ runs[i].target = target /\ runs[i].verdict = "MATCHED"
                           /\ target = "HEAD" => runs[i].head = attempts[a].head

\* The probe of the attempt reproduced the defect at base.
Reproduced(a) ==
    \E i \in DOMAIN runs : /\ runs[i].snap = attempts[a].snap /\ runs[i].target = "BASE"
                           /\ runs[i].verdict = "MATCHED"

\* CI_PASSED is the end of a chain of evidence about one commit: the head the session
\* named is the head GitHub had, the head the probe passed at and the head whose checks
\* were green, and the same probe failed at base; without a probe, a decision to do
\* without is on record.  Pushes, retries, crashes, late polls and the attempts of loops
\* that lost their claim break no link of it.
PassedIsEarned ==
    state = "CI_PASSED" =>
        \E a \in DOMAIN attempts :
            /\ attempts[a].head # 0
            /\ attempts[a].evidence = "valid" /\ attempts[a].of = attempts[a].head
            /\ Green(attempts[a].checks)
            /\ IF attempts[a].snap = 0 THEN decided ELSE Reproduced(a) /\ Matched(a, "HEAD")

\* No session is paid for without a BASE run of its own: each attempt that has a probe
\* is the owner of a run in which that probe reproduced the defect, however often the
\* case was dispatched, probed and retried before (_matched_base_execution()).  It holds
\* of loops that renew their lease in time: the insert itself is not fenced.
SpendIsAuthorised ==
    \A a \in DOMAIN attempts :
        IF attempts[a].snap = 0 THEN decided ELSE Matched(a, "BASE")

\* A case never gets a second verified pull request (_dispatch() looks for one).
OneVerifiedPR ==
    Cardinality({a \in DOMAIN attempts : attempts[a].evidence = "valid"}) <= 1

\* "A probe that ran and produced the wrong exit code is a verification verdict and
\* cannot be retried": a verdict on record at head, either way, is the last word; only a
\* run recorded as a failure of the runner is followed by another.
HeadVerdictStands ==
    \A i, j \in DOMAIN runs :
        runs[i].target = "HEAD" /\ runs[j].target = "HEAD" /\ i < j
        => runs[i].verdict = "INFRASTRUCTURE"

\* A case the worker has to deal with is dealt with: whatever fails, polls, crashes and
\* retries happen on the way, it comes to rest with a verdict, a block or a failure; CI
\* that never reports ends at its deadline.
ComesToRest == state \in WORK_STATES ~> state \notin WORK_STATES
-----------------------------------------------------------------------------
\* What the documentation says and the code does not keep

\* HeadVerdictStands, of the probe at base: a probe that did not reproduce the defect is
\* not asked again until it does.
BaseVerdictStands ==
    \A i, j \in DOMAIN runs :
        /\ runs[i].target = "BASE" /\ runs[j].target = "BASE"
        /\ runs[i].snap = runs[j].snap
        /\ runs[i].verdict = "MISMATCHED"
        => runs[j].attempt = 0

\* The threat model says that base and head are "always addressed by full SHA": the files
\* a verified pull request was judged by are those of its verified head.
FilesOfVerifiedHead ==
    \A a \in DOMAIN attempts : attempts[a].evidence = "valid" => attempts[a].files = attempts[a].of

\* The database's ci_status "mirrors the latest" verdict of a case that is done.
CiStatusAgrees == state = "CI_PASSED" => ci_status = "PASSED"
=============================================================================
