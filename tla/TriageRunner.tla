----------------------------- MODULE TriageRunner -----------------------------
(***************************************************************************)
(* One case on its way through triage: the worker loops that claim it       *)
(* (worker/__init__.py), process_case (worker/processor.py), the bounded    *)
(* Devin session they drive (worker/devin_runner.py) and the operator who   *)
(* cancels, retries or reconciles it (api/operator.py).                     *)
(*                                                                          *)
(* An action is one transaction, or one HTTP call together with the commit  *)
(* that records its outcome, so that a crash, a stall or another process    *)
(* can come between any two of them.  Admission to a slot is Capacity.tla;  *)
(* here it is granted or denied.  Devin is external: "remote" is the        *)
(* session each create produced.                                            *)
(***************************************************************************)
EXTENDS Lifecycle, Naturals, FiniteSets

CONSTANTS Loops,        \* the worker loops of all worker processes
          Operator,     \* the API process acting for an operator
          NoOne,        \* claimed_by IS NULL
          MaxAttempts,  \* settings.max_attempts_per_kind
          MaxFaults,    \* bound: crashes, stalls, API errors, denials
          MayStall,     \* may a loop outlive its own lease?
          MayResume     \* may a session go on after it has reported its end?

ASSUME ConstantsAssumption ==
    /\ Operator \notin Loops
    /\ NoOne \notin Loops
    /\ MaxAttempts \in Nat \ {0}
    /\ MaxFaults \in Nat
    /\ MayStall \in BOOLEAN
    /\ MayResume \in BOOLEAN

Attempts == 1..MaxAttempts
Actors == Loops \cup {Operator}

VARIABLES
    state,    \* Case.state
    claim,    \* Case.claimed_by
    leased,   \* Case.lease_expires_at is in the future (a lease or a backoff)
    att,      \* the attempts rows, by ordinal
    remote,   \* the Devin session of each attempt
    posts,    \* how often POST /sessions was issued for each operation key
    job,      \* what each actor is doing
    faults    \* faults so far

vars == <<state, claim, leased, att, remote, posts, job, faults>>
-----------------------------------------------------------------------------
ACTIVE_ATTEMPT_STATUSES == {"RUNNING", "RECONCILING", "TERMINATION_PENDING"}

AttemptStatus ==
    ACTIVE_ATTEMPT_STATUSES \cup
    {"NONE", "BLOCKED", "SUCCEEDED", "FAILED", "TIMED_OUT", "CANCELLED"}

\* reconciliation_reason, by the prefix the code tests for.
Reason == {"none", "cancel", "worker_error", "ack", "no_output", "gone", "other"}

\* "sid": devin_session_id is known; "late": now >= timeout_at;
\* "unresolved": create_state = UNRESOLVED; "out": structured_output.
AttemptRow == [status : AttemptStatus, sent : BOOLEAN, sid : BOOLEAN,
               unresolved : BOOLEAN, finished : BOOLEAN, late : BOOLEAN,
               reason : Reason, out : {"none", "valid", "invalid"}]

NoRow == [status |-> "NONE", sent |-> FALSE, sid |-> FALSE, unresolved |-> FALSE,
          finished |-> FALSE, late |-> FALSE, reason |-> "none", out |-> "none"]

\* What a GET answers, by what classify() and _disposition() make of it: Working is
\* LIVE, Asking WAITING_FOR_HUMAN, Errored FAILED, Suspended (for a reason nobody
\* knows) UNKNOWN; Done, Invalid and Ended are FINISHED with a valid, a malformed or
\* no structured output.
Stopped == {"Done", "Invalid", "Ended", "Errored", "Suspended"}
Snapshot == {"Working", "Asking"} \cup Stopped
HasOutput == {"Done", "Invalid"}

\* Devin's side.  A session that reported itself stopped may be gone, or it is idle
\* (remote_terminal = False: waiting_for_user with an output, a live status with an
\* error or billing detail) and goes on when somebody writes to it: Resumed, which
\* answers anything from then on.  Deleted answers 404.
Visible == Snapshot \cup {"Resumed"}
Session == Visible \cup {"Absent", "InFlight", "Deleted"}
NeverStopped == {"InFlight", "Working", "Asking"}
Live == NeverStopped \cup {"Resumed"}   \* running, or a human may resume it

JobPC == {"eligibility", "verdict", "run", "create", "insert", "prepare", "post",
          "posted", "attach", "orphan", "reconcile", "lookup", "poll", "get",
          "settle", "final_get", "delete", "mark", "tag", "finish", "terminate",
          "reconcile_blocked", "ingest"}
PC == JobPC \cup {"idle", "mark_failed", "abandon", "release"}

\* "view" and "mem" are the in-memory case state and attempt status (a write of
\* an unchanged attribute reaches no row), "seen" the last session snapshot.
Job == [pc : PC, view : CaseState, a : Attempts, mem : AttemptStatus,
        seen : Snapshot]

Idle == [pc |-> "idle", view |-> "RECEIVED", a |-> 1, mem |-> "NONE",
         seen |-> "Working"]

TypeOK ==
    /\ state \in CaseState
    /\ claim \in Loops \cup {NoOne}
    /\ leased \in BOOLEAN
    /\ att \in [Attempts -> AttemptRow]
    /\ remote \in [Attempts -> Session]
    /\ posts \in [Attempts -> Nat]
    /\ job \in [Actors -> Job]
    /\ faults \in 0..MaxFaults

Init ==
    /\ state = "RECEIVED"
    /\ claim = NoOne
    /\ leased = FALSE
    /\ att = [a \in Attempts |-> NoRow]
    /\ remote = [a \in Attempts |-> "Absent"]
    /\ posts = [a \in Attempts |-> 0]
    /\ job = [l \in Actors |-> Idle]
    /\ faults = 0
-----------------------------------------------------------------------------
\* Helpers

lease == <<claim, leased>>
devin == <<remote, posts>>

Fault == faults < MaxFaults /\ faults' = faults + 1

At(l, pc) == job[l].pc = pc

Goto(l, pc) == job' = [job EXCEPT ![l].pc = pc]

\* The end of a job: a loop still has to release the case; the API has no claim.
Exit(l) == IF l = Operator THEN Idle ELSE [Idle EXCEPT !.pc = "release"]

Leave(l) == job' = [job EXCEPT ![l] = Exit(l)]

\* InvalidTransition leaves the loop's job, or answers the operator with 409;
\* _mark_failed() only logs it.
Lost(l) == IF l = Operator \/ At(l, "mark_failed") THEN Exit(l)
           ELSE [Idle EXCEPT !.pc = "abandon"]

\* What a GET of a's session may answer now, and what one GET of each may.
Answers(a) == IF remote[a] = "Resumed" THEN Snapshot ELSE {remote[a]}
AllAnswers == {got \in [Attempts -> Session] : \A a \in Attempts : got[a] \in Answers(a)}

Active(r) == r.status \in ACTIVE_ATTEMPT_STATUSES
ActiveAttempts(rows) == {a \in Attempts : Active(rows[a])}
RetainedSessions(rows) == {a \in Attempts : rows[a].status = "BLOCKED" /\ rows[a].sid}
Rows(rows) == {a \in Attempts : rows[a].status # "NONE"}
Newest(S) == CHOOSE a \in S : \A b \in S : b <= a

\* Mutant: the UPDATE does not compare the row with what the job last read.
CanMove_Blind(l, to) == to \in TRANSITIONS[job[l].view]

\* transition(): the in-memory state must allow the edge, and the UPDATE matches
\* only the row still in that state and, for a loop, still claimed by it.
CanMove(l, to) ==
    /\ to \in TRANSITIONS[job[l].view]
    /\ state = job[l].view
    /\ l # Operator => claim = l

\* The job goes on, with the case in memory in state "to".
Then(l, pc, to) == [job[l] EXCEPT !.pc = pc, !.view = to]

\* A transaction that contains a transition: all of it, or none of it.
Commit(l, to, rows, next) ==
    IF CanMove(l, to)
    THEN /\ state' = to
         /\ att' = rows
         /\ job' = [job EXCEPT ![l] = next]
    ELSE /\ job' = [job EXCEPT ![l] = Lost(l)]
         /\ UNCHANGED <<state, att>>

\* The row of l's attempt after "attempt.status = s".
Row(l, s) ==
    [att[job[l].a] EXCEPT !.status = IF job[l].mem = s THEN @ ELSE s]

Closed(l, s) == [Row(l, s) EXCEPT !.finished = TRUE]

\* l's attempt row replaced by r.
Put(l, r) == [att EXCEPT ![job[l].a] = r]

\* active_attempts_with_session()
MayBeLive(rows) == {a \in ActiveAttempts(rows) : rows[a].sent}

ParkForTermination(rows) ==
    [a \in Attempts |-> IF a \in MayBeLive(rows)
                        THEN [rows[a] EXCEPT !.status = "TERMINATION_PENDING",
                                             !.reason = "worker_error"]
                        ELSE rows[a]]

\* fail_case() and the commit after it, on rows already changed by the caller.
FailCase(l, rows) ==
    LET view == job[l].view
        live == MayBeLive(rows) # {}
    IN  \/ /\ view \in TERMINAL_STATES \/ (live /\ view = "TERMINATION_PENDING")
           /\ att' = IF view \in TERMINAL_STATES THEN rows ELSE ParkForTermination(rows)
           /\ Leave(l)
           /\ UNCHANGED state
        \/ /\ view \notin TERMINAL_STATES
           /\ live /\ view # "TERMINATION_PENDING"
           /\ Commit(l, "TERMINATION_PENDING", ParkForTermination(rows), Exit(l))
        \/ /\ view \notin TERMINAL_STATES
           /\ ~live
           /\ Commit(l, "FAILED", rows, Exit(l))
-----------------------------------------------------------------------------
\* Claiming, and the entry of process_case()

\* Mutant: nothing claims a case that waits for its termination.
CLAIMABLE_STATES_NoTermination ==
    {"RECEIVED", "TRIAGE_CREATE_INTENT", "TRIAGING", "RECONCILING_CREATE"}

CLAIMABLE_STATES ==
    {"RECEIVED", "TRIAGE_CREATE_INTENT", "TRIAGING", "RECONCILING_CREATE",
     "TERMINATION_PENDING"}

\* A blocked session whose end is not established is read again.
Reconcilable == \E a \in RetainedSessions(att) : att[a].reason # "gone"

\* The branch of process_case() for the state it finds.
EntryPoint ==
    CASE state = "RECEIVED" -> "eligibility"
      [] state = "HUMAN_BLOCKED" -> "reconcile_blocked"
      [] state = "TERMINATION_PENDING" ->
           IF \E a \in Attempts : att[a].status = "TERMINATION_PENDING"
           THEN "run" ELSE "terminate"
      [] state = "RECONCILING_CREATE" /\ ActiveAttempts(att) = {} -> "release"
      [] OTHER -> "run"

\* Mutant: the claim query does not look at the lease.
Claim_IgnoresLease(l) ==
    /\ At(l, "idle")
    /\ state \in CLAIMABLE_STATES \/ (state = "HUMAN_BLOCKED" /\ Reconcilable)
    /\ claim' = l
    /\ leased' = TRUE
    /\ job' = [job EXCEPT ![l] = [Idle EXCEPT !.pc = EntryPoint, !.view = state]]
    /\ UNCHANGED <<state, att, devin, faults>>

Claim(l) ==
    /\ At(l, "idle")
    /\ ~leased
    /\ state \in CLAIMABLE_STATES \/ (state = "HUMAN_BLOCKED" /\ Reconcilable)
    /\ claim' = l
    /\ leased' = TRUE
    /\ job' = [job EXCEPT ![l] = [Idle EXCEPT !.pc = EntryPoint, !.view = state]]
    /\ UNCHANGED <<state, att, devin, faults>>

\* _evaluate_eligibility() records the rubric in one transaction and acts on it
\* in the next.
Evaluate(l) ==
    /\ At(l, "eligibility")
    /\ Commit(l, "ELIGIBILITY_EVALUATED", att,
              Then(l, "verdict", "ELIGIBILITY_EVALUATED"))
    /\ UNCHANGED <<lease, devin, faults>>

Verdict(l) ==
    /\ At(l, "verdict")
    /\ \/ Commit(l, "POLICY_REJECTED", att, Exit(l))
       \/ Commit(l, "TRIAGE_CREATE_INTENT", att, Then(l, "run", "TRIAGE_CREATE_INTENT"))
    /\ UNCHANGED <<lease, devin, faults>>
-----------------------------------------------------------------------------
\* DevinRunner.run()

\* No attempt to resume: the slot is granted, or the case waits for one.
RunNew(l) ==
    /\ At(l, "run")
    /\ ActiveAttempts(att) = {}
    /\ \/ Goto(l, "create") /\ UNCHANGED faults
       \/ Leave(l) /\ Fault
    /\ UNCHANGED <<state, lease, att, devin>>

\* Mutant: an interrupted create is sent again instead of being looked up.
RunResume_Resends(l) ==
    /\ At(l, "run")
    /\ ActiveAttempts(att) # {}
    /\ job' = [job EXCEPT ![l].pc = "post", ![l].a = Newest(ActiveAttempts(att))]
    /\ UNCHANGED <<state, lease, att, devin, faults>>

RunResume(l) ==
    /\ At(l, "run")
    /\ ActiveAttempts(att) # {}
    /\ LET a == Newest(ActiveAttempts(att))
           r == att[a]
           On(pc) == [job[l] EXCEPT !.pc = pc, !.a = a, !.mem = r.status]
       IN  \/ /\ r.status = "TERMINATION_PENDING"
              /\ job' = [job EXCEPT ![l] = On(IF r.sid THEN "final_get" ELSE "tag")]
              /\ UNCHANGED <<state, att>>
           \/ /\ r.status # "TERMINATION_PENDING"
              /\ ~r.sid
              /\ job' = [job EXCEPT ![l] = On("reconcile")]
              /\ UNCHANGED <<state, att>>
           \/ /\ r.status # "TERMINATION_PENDING"
              /\ r.sid
              /\ IF job[l].view \in {"RECONCILING_CREATE", "TRIAGE_CREATE_INTENT"}
                 THEN Commit(l, "TRIAGING", att, [On("poll") EXCEPT !.view = "TRIAGING"])
                 ELSE /\ job' = [job EXCEPT ![l] = On("poll")]
                      /\ UNCHANGED <<state, att>>
    /\ UNCHANGED <<lease, devin, faults>>
-----------------------------------------------------------------------------
\* _create()

\* DELETE reaches Devin for the sessions of S.
DeleteSessions(S) ==
    [a \in Attempts |-> IF a \in S /\ remote[a] \in Visible THEN "Deleted" ELSE remote[a]]

\* allocate_attempt_ordinal()
NextOrdinal == IF Rows(att) = {} THEN 1 ELSE Newest(Rows(att)) + 1

\* Mutant: the limit is off by one.
AttemptsExhausted_OffByOne == NextOrdinal > MaxAttempts + 1

AttemptsExhausted == NextOrdinal > MaxAttempts

\* Mutant: only a session whose create is unresolved is settled.
Previous_ReconcilingOnly == {a \in Attempts : att[a].status = "RECONCILING"}

Previous == {a \in Attempts : att[a].status \in {"BLOCKED", "RECONCILING"}}

\* Why _settle_previous_sessions() refuses a replacement: an unresolved create
\* nobody vouched for, or a retained session with output to ingest.
Refuses(a, got) ==
    \/ att[a].unresolved /\ att[a].reason # "ack"
    \/ att[a].sid /\ got[a] \in HasOutput

Settled(done) ==
    [a \in Attempts |-> IF a \in done /\ (att[a].unresolved \/ att[a].sid)
                        THEN [att[a] EXCEPT !.status = "CANCELLED", !.finished = TRUE]
                        ELSE att[a]]

WithSession(S) == {a \in S : att[a].sid}

\* The ordinal is allocated under a lock on the case row, which is held until the
\* earlier sessions are settled; "done" are those settled before the first refusal.
Create(l) ==
    /\ At(l, "create")
    /\ \/ /\ AttemptsExhausted
          /\ FailCase(l, att)
          /\ UNCHANGED <<remote, faults>>
       \/ /\ ~AttemptsExhausted
          /\ \E done \in SUBSET Previous, got \in AllAnswers :
                /\ \A a \in done : ~Refuses(a, got)
                /\ remote' = DeleteSessions(WithSession(done))
                /\ \/ /\ done = Previous
                      /\ att' = Settled(done)
                      /\ job' = [job EXCEPT ![l].pc = "insert", ![l].a = NextOrdinal,
                                            ![l].mem = "RUNNING"]
                      /\ UNCHANGED <<state, faults>>
                   \/ /\ \/ (\E b \in Previous \ done : Refuses(b, got)) /\ UNCHANGED faults
                         \/ WithSession(Previous \ done) # {} /\ Fault
                      /\ FailCase(l, Settled(done))
    /\ UNCHANGED <<lease, posts>>

\* Mutant: no unique index guards the insert.
Insert_NoIndex(l) ==
    /\ At(l, "insert")
    /\ att' = Put(l, [NoRow EXCEPT !.status = "RUNNING"])
    /\ Goto(l, "prepare")
    /\ UNCHANGED <<state, lease, devin, faults>>

\* The new attempt row; the unique indexes admit one row per ordinal and one
\* unfinished row.  A duplicate is no transient error: it ends the process, and the
\* claim stays until its lease lapses.
Insert(l) ==
    /\ At(l, "insert")
    /\ \/ /\ job[l].a \notin Rows(att)
          /\ \A b \in Rows(att) : att[b].finished
          /\ att' = Put(l, [NoRow EXCEPT !.status = "RUNNING"])
          /\ Goto(l, "prepare")
       \/ /\ job[l].a \in Rows(att) \/ \E b \in Rows(att) : ~att[b].finished
          /\ job' = [job EXCEPT ![l] = Idle]
          /\ UNCHANGED att
    /\ UNCHANGED <<state, lease, devin, faults>>

\* _build_request(), then create_sent_at is durable before the request leaves.
Prepare(l) ==
    /\ At(l, "prepare")
    /\ \/ /\ att' = Put(l, [att[job[l].a] EXCEPT !.sent = TRUE])
          /\ Goto(l, "post")
          /\ UNCHANGED <<state, faults>>
       \/ FailCase(l, Put(l, Closed(l, "FAILED"))) /\ Fault
    /\ UNCHANGED <<lease, devin>>

Send(l) ==
    /\ At(l, "post")
    /\ posts' = [posts EXCEPT ![job[l].a] = @ + 1]
    /\ remote' = [remote EXCEPT ![job[l].a] = "InFlight"]
    /\ Goto(l, "posted")
    /\ UNCHANGED <<state, lease, att, faults>>

PostOk(l) ==
    /\ At(l, "posted")
    /\ remote[job[l].a] \notin {"Absent", "InFlight"}
    /\ Goto(l, "attach")
    /\ UNCHANGED <<state, lease, att, devin, faults>>

\* DevinApiError: an answer that says no session was created.
PostRejected(l) ==
    /\ At(l, "posted")
    /\ remote[job[l].a] = "InFlight"
    /\ remote' = [remote EXCEPT ![job[l].a] = "Absent"]
    /\ FailCase(l, Put(l, Closed(l, "FAILED")))
    /\ Fault
    /\ UNCHANGED <<lease, posts>>

\* DevinTransportError: no answer; the request may have reached Devin or not.
PostLost(l) ==
    /\ At(l, "posted")
    /\ Commit(l, "RECONCILING_CREATE",
              Put(l, [Row(l, "RECONCILING") EXCEPT !.reason = "other"]),
              [Then(l, "reconcile", "RECONCILING_CREATE") EXCEPT !.mem = "RECONCILING"])
    /\ Fault
    /\ UNCHANGED <<lease, devin>>

\* _attach(): a case that moved on meanwhile leaves the new session an orphan.
Attach(l) ==
    /\ At(l, "attach")
    /\ IF CanMove(l, "TRIAGING")
       THEN Commit(l, "TRIAGING",
                   Put(l, [Row(l, "RUNNING") EXCEPT !.sid = TRUE, !.reason = "none",
                                                    !.late = FALSE]),
                   [Then(l, "poll", "TRIAGING") EXCEPT !.mem = "RUNNING"])
       ELSE /\ att' = Put(l, [att[job[l].a] EXCEPT !.status = "CANCELLED", !.sid = TRUE,
                                                  !.finished = TRUE])
            /\ Goto(l, "orphan")
            /\ UNCHANGED state
    /\ UNCHANGED <<lease, devin, faults>>

\* A failed DELETE is logged and the job abandoned all the same.
Orphan(l) ==
    /\ At(l, "orphan")
    /\ \/ remote' = DeleteSessions({job[l].a}) /\ UNCHANGED faults
       \/ Fault /\ UNCHANGED remote
    /\ Goto(l, "abandon")
    /\ UNCHANGED <<state, lease, att, posts>>
-----------------------------------------------------------------------------
\* _reconcile_create()

Reconcile(l) ==
    /\ At(l, "reconcile")
    /\ LET rows == Put(l, [Row(l, "RECONCILING") EXCEPT !.reason = "other"])
           next == [job[l] EXCEPT !.pc = "lookup", !.mem = "RECONCILING"]
       IN  IF job[l].view = "TRIAGE_CREATE_INTENT"
           THEN Commit(l, "RECONCILING_CREATE", rows,
                       [next EXCEPT !.view = "RECONCILING_CREATE"])
           ELSE /\ att' = rows
                /\ job' = [job EXCEPT ![l] = next]
                /\ UNCHANGED state
    /\ UNCHANGED <<lease, devin, faults>>

\* The tag search, retried: it finds the session, or it finds nothing and the
\* case waits for a human.  Missing a session that exists takes a fault.
Lookup(l) ==
    /\ At(l, "lookup")
    /\ \/ /\ remote[job[l].a] \in Visible
          /\ Goto(l, "attach")
          /\ UNCHANGED <<state, att, faults>>
       \/ /\ IF remote[job[l].a] \in Visible THEN Fault ELSE UNCHANGED faults
          /\ Commit(l, "HUMAN_BLOCKED",
                    Put(l, [Closed(l, "BLOCKED") EXCEPT !.unresolved = TRUE,
                                                        !.reason = "other"]),
                    Exit(l))
    /\ UNCHANGED <<lease, devin>>
-----------------------------------------------------------------------------
\* _poll()

\* _cancel_requested() re-reads the case, then the deadline is looked at.
Poll(l) ==
    /\ At(l, "poll")
    /\ \/ /\ state \in TERMINATION_PENDING_STATES
          /\ att' = Put(l, [Row(l, "TERMINATION_PENDING") EXCEPT !.reason = "cancel"])
          /\ job' = [job EXCEPT ![l].pc = "final_get", ![l].view = state,
                                ![l].mem = "TERMINATION_PENDING"]
       \/ /\ state \notin TERMINATION_PENDING_STATES
          /\ job' = [job EXCEPT ![l].pc = IF att[job[l].a].late THEN "final_get" ELSE "get",
                                ![l].view = state]
          /\ UNCHANGED att
    /\ UNCHANGED <<state, lease, devin, faults>>

\* A 404 fails the attempt; an error, or a status classify() does not know, keeps
\* it RECONCILING; any other answer is recorded before it is acted on.
Get(l) ==
    /\ At(l, "get")
    /\ \E answer \in Answers(job[l].a) :
           \/ /\ answer \notin Snapshot
              /\ FailCase(l, Put(l, Closed(l, "FAILED")))
              /\ UNCHANGED faults
           \/ /\ att' = Put(l, [Row(l, "RECONCILING") EXCEPT !.reason = "other"])
              /\ job' = [job EXCEPT ![l].pc = "poll", ![l].mem = "RECONCILING"]
              /\ IF answer = "Suspended" THEN UNCHANGED faults ELSE Fault
              /\ UNCHANGED state
           \/ /\ answer \in Snapshot \ {"Suspended"}
              /\ att' = Put(l, [Row(l, "RUNNING") EXCEPT !.reason = "none"])
              /\ job' = [job EXCEPT ![l].pc = IF answer = "Working" THEN "poll" ELSE "settle",
                                    ![l].mem = "RUNNING", ![l].seen = answer]
              /\ UNCHANGED <<state, faults>>
    /\ UNCHANGED <<lease, devin>>

\* _settle() on the snapshot it was given, whatever the session does since; nothing
\* is DELETEd, whether the session is gone or only idle.
Settle(l) ==
    /\ At(l, "settle")
    /\ \/ /\ job[l].seen \in {"Done", "Invalid", "Ended"}
          /\ att' = Put(l, [att[job[l].a] EXCEPT
                               !.finished = TRUE,
                               !.out = CASE job[l].seen = "Done" -> "valid"
                                         [] job[l].seen = "Invalid" -> "invalid"
                                         [] OTHER -> "none"])
          /\ Goto(l, "finish")
          /\ UNCHANGED state
       \/ /\ job[l].seen = "Asking"
          /\ Commit(l, "HUMAN_BLOCKED", Put(l, Closed(l, "BLOCKED")), Exit(l))
       \/ /\ job[l].seen = "Errored"
          /\ FailCase(l, Put(l, Closed(l, "FAILED")))
    /\ UNCHANGED <<lease, devin, faults>>

\* Mutant: a session that ended without output counts as triaged.
Finish_AnyEnd(l) ==
    /\ At(l, "finish")
    /\ IF CanMove(l, "TRIAGED")
       THEN /\ state' = "AWAITING_REMEDIATION_APPROVAL"
            /\ att' = Put(l, Row(l, "SUCCEEDED"))
            /\ Leave(l)
       ELSE /\ job' = [job EXCEPT ![l] = Lost(l)]
            /\ UNCHANGED <<state, att>>
    /\ UNCHANGED <<lease, devin, faults>>

\* _finish_triage(): TRIAGED, the approval round and AWAITING_REMEDIATION_APPROVAL
\* are one transaction.
Finish(l) ==
    /\ At(l, "finish")
    /\ \/ /\ job[l].seen = "Done"
          /\ IF CanMove(l, "TRIAGED")
             THEN /\ state' = "AWAITING_REMEDIATION_APPROVAL"
                  /\ att' = Put(l, Row(l, "SUCCEEDED"))
                  /\ Leave(l)
             ELSE /\ job' = [job EXCEPT ![l] = Lost(l)]
                  /\ UNCHANGED <<state, att>>
       \/ /\ job[l].seen # "Done"
          /\ FailCase(l, Put(l, [Row(l, "FAILED") EXCEPT !.out = "none"]))
    /\ UNCHANGED <<lease, devin, faults>>
-----------------------------------------------------------------------------
\* _handle_timeout(), _terminate_by_tag(), _mark_terminated()

FinalGet(l) ==
    /\ At(l, "final_get")
    /\ \E answer \in Answers(job[l].a) :
           \/ /\ \/ answer \notin Snapshot \/ answer = "Suspended"
                 \/ answer = "Errored" /\ job[l].view = "TERMINATION_PENDING"
              /\ Goto(l, "mark")
              /\ UNCHANGED <<att, faults>>
           \/ /\ Goto(l, "delete")
              /\ Fault
              /\ UNCHANGED att
           \/ /\ answer = "Working"
              /\ Goto(l, "delete")
              /\ UNCHANGED <<att, faults>>
           \/ /\ \/ answer \in {"Asking", "Done", "Invalid", "Ended"}
                 \/ answer = "Errored" /\ job[l].view # "TERMINATION_PENDING"
              /\ att' = Put(l, Row(l, "RUNNING"))
              /\ job' = [job EXCEPT ![l].pc = "settle", ![l].mem = "RUNNING",
                                    ![l].seen = answer]
              /\ UNCHANGED faults
    /\ UNCHANGED <<state, lease, devin>>

\* What triggered the termination survives a failed DELETE.
KeptTrigger(reason) == IF reason \in {"cancel", "worker_error"} THEN reason ELSE "other"

\* Mutant: a failed DELETE is taken for a confirmed termination.
Delete_Unconfirmed(l) ==
    /\ At(l, "delete")
    /\ remote' \in {remote, DeleteSessions({job[l].a})}
    /\ Goto(l, "mark")
    /\ UNCHANGED <<state, lease, att, posts, faults>>

Delete(l) ==
    /\ At(l, "delete")
    /\ \/ /\ remote' = DeleteSessions({job[l].a})
          /\ Goto(l, "mark")
          /\ UNCHANGED <<state, att, faults>>
       \/ /\ LET rows == Put(l, [Row(l, "TERMINATION_PENDING") EXCEPT
                                   !.reason = KeptTrigger(@)])
             IN  IF job[l].view # "TERMINATION_PENDING"
                 THEN Commit(l, "TERMINATION_PENDING", rows, Exit(l))
                 ELSE att' = rows /\ Leave(l) /\ UNCHANGED state
          /\ Fault
          /\ remote' \in {remote, DeleteSessions({job[l].a})}
    /\ UNCHANGED <<lease, posts>>

Tag(l) ==
    /\ At(l, "tag")
    /\ \/ /\ remote' = DeleteSessions({job[l].a})
          /\ Goto(l, "mark")
          /\ UNCHANGED <<att, faults>>
       \/ /\ att' = Put(l, [att[job[l].a] EXCEPT !.reason = "other"])
          /\ Leave(l)
          /\ Fault
          /\ UNCHANGED remote
    /\ UNCHANGED <<state, lease, posts>>

\* The verdict on a terminated attempt, which is also the verdict on its case.
TerminationVerdict(r) ==
    CASE r.reason = "cancel" /\ ~r.late -> "CANCELLED"
      [] r.reason = "worker_error" /\ ~r.late -> "FAILED"
      [] OTHER -> "TIMED_OUT"

Mark(l) ==
    /\ At(l, "mark")
    /\ LET verdict == TerminationVerdict(att[job[l].a])
       IN  Commit(l, verdict, Put(l, [Closed(l, verdict) EXCEPT !.reason = "none"]), Exit(l))
    /\ UNCHANGED <<lease, devin, faults>>

\* terminate_running_attempts() and _terminate_case(): a cancel for which no
\* attempt is parked yet.  "failing" are the attempts whose calls fail.
Terminate(l) ==
    /\ At(l, "terminate")
    /\ LET owners == ActiveAttempts(att) \cup {a \in Attempts : att[a].status = "BLOCKED"}
           called == {a \in owners : att[a].sid \/ att[a].sent}
           Ended(failing) ==
             [a \in Attempts |->
                IF a \in failing
                THEN [att[a] EXCEPT !.status = "TERMINATION_PENDING", !.reason = "cancel"]
                ELSE IF a \in owners
                THEN [att[a] EXCEPT !.status = "CANCELLED", !.reason = "none",
                                    !.finished = TRUE]
                ELSE att[a]]
       IN  \/ /\ remote' = DeleteSessions(called)
              /\ Commit(l, "CANCELLED", Ended({}), Exit(l))
              /\ UNCHANGED faults
           \/ \E failing \in SUBSET called \ {{}} :
                /\ remote' = DeleteSessions(called \ failing)
                /\ att' = Ended(failing)
                /\ Leave(l)
                /\ Fault
                /\ UNCHANGED state
    /\ UNCHANGED <<lease, posts>>
-----------------------------------------------------------------------------
\* reconcile_blocked(): GET only, by a loop or for the operator.  "errors" are the
\* retained sessions whose GET fails, "got" what the others answer.  An output counts
\* whatever the status says.

WithOutput(errors, got) ==
    {a \in RetainedSessions(att) \ errors : got[a] \in HasOutput}

\* The newest valid output wins, or else the newest output.
Chosen(output, got) ==
    LET valid == {a \in output : got[a] = "Done"}
    IN  Newest(IF valid # {} THEN valid ELSE output)

Annotated(errors, got) ==
    [a \in Attempts |->
        CASE a \in RetainedSessions(att) \cap errors -> [att[a] EXCEPT !.reason = "other"]
          [] a \in RetainedSessions(att) \ errors /\ got[a] \notin Snapshot ->
               [att[a] EXCEPT !.reason = "gone"]
          [] a \in RetainedSessions(att) \ errors /\ got[a] \in Snapshot \ HasOutput ->
               [att[a] EXCEPT !.reason = "no_output"]
          [] OTHER -> att[a]]

\* The chosen attempt runs again; the other retained sessions are superseded.
Superseded(chosen) ==
    [a \in Attempts |->
        CASE a = chosen -> [att[a] EXCEPT !.status = "RUNNING", !.reason = "none"]
          [] a \in RetainedSessions(att) \ {chosen} -> [att[a] EXCEPT !.status = "CANCELLED"]
          [] OTHER -> att[a]]

Ingesting(pc, view, chosen, got) ==
    [Idle EXCEPT !.pc = pc, !.view = view, !.a = chosen, !.mem = "BLOCKED",
                 !.seen = got[chosen]]

ReconcileBlocked(l) ==
    /\ At(l, "reconcile_blocked")
    /\ \E errors \in SUBSET RetainedSessions(att), got \in AllAnswers :
         LET output == WithOutput(errors, got)
         IN  /\ IF errors = {} THEN UNCHANGED faults ELSE Fault
             /\ att' = Annotated(errors, got)
             /\ IF output = {} THEN Leave(l)
                ELSE job' = [job EXCEPT ![l] =
                               Ingesting("ingest", job[l].view, Chosen(output, got), got)]
    /\ UNCHANGED <<state, lease, devin>>

Ingest(l) ==
    /\ At(l, "ingest")
    /\ Commit(l, "TRIAGING", Superseded(job[l].a),
              [Then(l, "settle", "TRIAGING") EXCEPT !.mem = "RUNNING"])
    /\ UNCHANGED <<lease, devin, faults>>
-----------------------------------------------------------------------------
\* The end of a job, and how else it ends

\* _cancel_unsent_attempts() after InvalidTransition.
Abandon(l) ==
    /\ At(l, "abandon")
    /\ att' = [a \in Attempts |->
                 IF Active(att[a]) /\ ~att[a].sent
                 THEN [att[a] EXCEPT !.status = "CANCELLED", !.finished = TRUE]
                 ELSE att[a]]
    /\ Leave(l)
    /\ UNCHANGED <<state, lease, devin, faults>>

\* _release_case(): only the holder's claim, with a backoff in a waiting state.
Release(l) ==
    /\ At(l, "release")
    /\ IF claim = l
       THEN /\ claim' = NoOne
            /\ leased' = (state \in {"TERMINATION_PENDING", "HUMAN_BLOCKED"})
       ELSE UNCHANGED lease
    /\ job' = [job EXCEPT ![l] = Idle]
    /\ UNCHANGED <<state, att, devin, faults>>

\* An exception that is neither InvalidTransition nor a database error; the case
\* is loaded afresh and failed by MarkFailed.
JobError(l) ==
    /\ job[l].pc \in JobPC
    /\ job' = [job EXCEPT ![l].pc = "mark_failed", ![l].view = state]
    /\ Fault
    /\ UNCHANGED <<state, lease, att, devin>>

MarkFailed(l) ==
    /\ At(l, "mark_failed")
    /\ FailCase(l, att)
    /\ UNCHANGED <<lease, devin, faults>>

\* A transient database error rolls back and releases the case for a retry.
DbError(l) ==
    /\ job[l].pc \in JobPC
    /\ Leave(l)
    /\ Fault
    /\ UNCHANGED <<state, lease, att, devin>>

\* The process dies; the claim stays until its lease lapses.  Of several DELETEs
\* in one job some may have been made already.
Crash(l) ==
    /\ ~At(l, "idle")
    /\ remote' \in {remote} \cup
         (IF At(l, "create") \/ At(l, "terminate")
          THEN {DeleteSessions(S) : S \in SUBSET WithSession(Previous \cup ActiveAttempts(att))}
          ELSE {})
    /\ job' = [job EXCEPT ![l] = Idle]
    /\ Fault
    /\ UNCHANGED <<state, lease, att, posts>>

\* Time passes: a backoff, or the lease of a dead holder, runs out.
LeaseLapses ==
    /\ leased
    /\ claim # NoOne => At(claim, "idle")
    /\ leased' = FALSE
    /\ UNCHANGED <<state, claim, att, devin, job, faults>>

\* A holder that is alive but late with its heartbeat ...
Stall(l) ==
    /\ MayStall
    /\ leased /\ claim = l /\ ~At(l, "idle")
    /\ leased' = FALSE
    /\ Fault
    /\ UNCHANGED <<state, claim, att, devin, job>>

\* ... which renews the lease unless another loop has claimed the case.
Heartbeat(l) ==
    /\ job[l].pc \in JobPC
    /\ claim = l /\ ~leased
    /\ leased' = TRUE
    /\ UNCHANGED <<state, claim, att, devin, job, faults>>
-----------------------------------------------------------------------------
\* The operator's endpoints

MayOwnSession ==
    \E a \in Attempts : att[a].sent /\ (Active(att[a]) \/ att[a].status = "BLOCKED")

Cancel ==
    /\ LET to == IF state = "TRIAGING" \/ MayOwnSession
                 THEN "TERMINATION_PENDING" ELSE "CANCELLED"
       IN  to \in TRANSITIONS[state] /\ state' = to
    /\ UNCHANGED <<lease, att, devin, job, faults>>

\* Creates the operator has to vouch for; nobody does while Devin shows, or may
\* yet show, a session with that tag.
Unacknowledged ==
    {a \in Attempts : /\ att[a].unresolved /\ att[a].reason # "ack"
                      /\ att[a].status \in {"BLOCKED", "RECONCILING"}}

Retry ==
    /\ "RECEIVED" \in TRANSITIONS[state]
    /\ \A a \in Unacknowledged : remote[a] \in {"Absent", "Deleted"}
    /\ state = "HUMAN_BLOCKED" =>
         \A a \in RetainedSessions(att) : att[a].reason \in {"no_output", "gone"}
    /\ Rows(att) # Attempts
    /\ state' = "RECEIVED"
    /\ att' = [a \in Attempts |-> IF a \in Unacknowledged
                                  THEN [att[a] EXCEPT !.reason = "ack"] ELSE att[a]]
    /\ UNCHANGED <<lease, devin, job, faults>>

\* reconcile_session() locks the case row; the lock goes with the first commit,
\* which is the ingesting one unless a session was annotated before it.
ReconcileSession ==
    /\ At(Operator, "idle")
    /\ state = "HUMAN_BLOCKED"
    /\ \E errors \in SUBSET RetainedSessions(att), got \in AllAnswers :
         LET output == WithOutput(errors, got)
             chosen == Chosen(output, got)
             locked == output = RetainedSessions(att)
         IN  /\ IF errors = {} THEN UNCHANGED faults ELSE Fault
             /\ \/ output = {} /\ att' = Annotated(errors, got) /\ UNCHANGED <<state, job>>
                \/ /\ output # {}
                   /\ att' = IF locked THEN Superseded(chosen) ELSE Annotated(errors, got)
                   /\ state' = IF locked THEN "TRIAGING" ELSE state
                   /\ job' = [job EXCEPT ![Operator] =
                        IF locked
                        THEN [Ingesting("settle", "TRIAGING", chosen, got)
                                EXCEPT !.mem = "RUNNING"]
                        ELSE Ingesting("ingest", state, chosen, got)]
    /\ UNCHANGED <<lease, devin>>
-----------------------------------------------------------------------------
\* Devin and the clock

\* A create arrives; one whose sender has given up may also never arrive.
Land(a) ==
    /\ remote[a] = "InFlight"
    /\ \/ remote' = [remote EXCEPT ![a] = "Working"]
       \/ /\ ~\E l \in Loops : At(l, "posted") /\ job[l].a = a
          /\ remote' = [remote EXCEPT ![a] = "Absent"]
    /\ UNCHANGED <<state, lease, att, posts, job, faults>>

SessionStep(a) ==
    /\ \/ /\ remote[a] = "Working"
          /\ \E s \in Snapshot \ {"Working"} : remote' = [remote EXCEPT ![a] = s]
       \/ /\ remote[a] = "Asking"
          /\ remote' = [remote EXCEPT ![a] = "Working"]
       \/ /\ MayResume
          /\ remote[a] \in Stopped
          /\ remote' = [remote EXCEPT ![a] = "Resumed"]
    /\ UNCHANGED <<state, lease, att, posts, job, faults>>

\* timeout_at passes.
Expire(a) ==
    /\ Active(att[a]) /\ ~att[a].late
    /\ att' = [att EXCEPT ![a].late = TRUE]
    /\ UNCHANGED <<state, lease, devin, job, faults>>
-----------------------------------------------------------------------------
\* What a loop does by itself once it has a case, and what a job shares with the
\* operator's reconcile endpoint.
SharedStep(l) == Ingest(l) \/ Settle(l) \/ Finish(l)

LoopStep(l) ==
    \/ Claim(l) \/ Evaluate(l) \/ Verdict(l) \/ RunNew(l) \/ RunResume(l)
    \/ Create(l) \/ Insert(l) \/ Prepare(l) \/ Send(l)
    \/ PostOk(l) \/ PostRejected(l) \/ PostLost(l) \/ Attach(l) \/ Orphan(l)
    \/ Reconcile(l) \/ Lookup(l) \/ Poll(l) \/ Get(l)
    \/ FinalGet(l) \/ Delete(l) \/ Tag(l) \/ Mark(l) \/ Terminate(l)
    \/ ReconcileBlocked(l) \/ Abandon(l) \/ Release(l) \/ MarkFailed(l)
    \/ SharedStep(l)

LoopFault(l) == JobError(l) \/ DbError(l) \/ Crash(l) \/ Stall(l)

OperatorStep ==
    \/ Cancel \/ Retry \/ ReconcileSession
    \/ SharedStep(Operator)
    \/ DbError(Operator)

Environment ==
    \/ LeaseLapses
    \/ \E a \in Attempts : Land(a) \/ SessionStep(a) \/ Expire(a)

Next ==
    \/ \E l \in Loops : LoopStep(l) \/ LoopFault(l) \/ Heartbeat(l)
    \/ OperatorStep
    \/ Environment

\* Every loop keeps scheduling, a request in flight is answered and clocks tick;
\* sessions and operators owe nothing.
Fairness ==
    /\ \A l \in Loops : WF_vars(LoopStep(l))
    /\ WF_vars(LeaseLapses)
    /\ \A a \in Attempts : WF_vars(Land(a)) /\ WF_vars(Expire(a))

Spec == Init /\ [][Next]_vars

FairSpec == Spec /\ Fairness
-----------------------------------------------------------------------------
\* Invariants and action properties.  Those that rely on the lease (all but
\* OneCreatePerKey, FreshCreates, OnlyLegalMoves and ApprovalRestsOnOutput) are
\* claimed for loops that do not outlive it (MayStall = FALSE).
\* ApprovalRestsOnOutput is claimed for sessions whose reported end is final
\* (MayResume = FALSE).

\* No operation key is ever POSTed twice, whatever crashes, stalls or races:
\* create_sent_at is committed before the call, an attempt found with it set is
\* only looked up by tag, and a replacement gets a new row under a new key.
OneCreatePerKey == \A a \in Attempts : posts[a] <= 1

\* A create is under way: its row is in the table, its POST still to come.
Creating(j) == j.pc \in {"prepare", "post"}

\* Why: from the insert to the POST a loop works on a row of its own that nobody
\* has POSTed for, and a key without a row has not been used.
FreshCreates ==
    /\ \A a \in Attempts : att[a].status = "NONE" => posts[a] = 0
    /\ \A l \in Actors : Creating(job[l]) =>
          posts[job[l].a] = 0 /\ att[job[l].a].status # "NONE"
    /\ \A l, k \in Actors :
          Creating(job[l]) /\ Creating(job[k]) /\ job[l].a = job[k].a => l = k

\* Every change of the case's row is an edge of the life cycle from the state the
\* row is in at that moment, although a job decides on the state it last read: no
\* late job overwrites a cancel, a retry or another loop's verdict (the compare-
\* and-set of transition()).  _finish_triage() takes two edges in one transaction.
LegalMove ==
    \/ state' = state
    \/ state' \in TRANSITIONS[state]
    \/ /\ "TRIAGED" \in TRANSITIONS[state]
       /\ state' = "AWAITING_REMEDIATION_APPROVAL"

OnlyLegalMoves == [][LegalMove]_vars

\* A case has at most one attempt that may run a session; resuming, parking,
\* ingesting and superseding never leave two.
OneActiveAttempt == \A a, b \in ActiveAttempts(att) : a = b

\* At most one session is retained for a human: _settle_previous_sessions()
\* closes the old one before a replacement can be blocked in turn.
OneRetainedSession == \A a, b \in RetainedSessions(att) : a = b

\* A case parked as HUMAN_BLOCKED shows its operator a blocked attempt to
\* reconcile or acknowledge, and no worker still drives another one.
BlockedCaseHasCause ==
    state = "HUMAN_BLOCKED" =>
        /\ \E a \in Attempts : att[a].status = "BLOCKED"
        /\ ActiveAttempts(att) = {}

\* An approval is only asked for on a stored, validated triage output, whichever
\* of the poll, the deadline, a cancel or a reconciliation brought it in.
ApprovalRestsOnOutput ==
    state = "AWAITING_REMEDIATION_APPROVAL" =>
        \E a \in Attempts : att[a].finished /\ att[a].out = "valid"

\* No session is given up while it has not once reported its end: with a session id
\* known, an attempt succeeds, fails or times out only after Devin answered that the
\* session finished, failed or was suspended, or after a confirmed DELETE (_settle,
\* _mark_terminated, fail_case).  Such a session need not be gone: see
\* ClosedAttemptEndedItsSession below.
ClosedAttemptWasStopped ==
    \A a \in Attempts :
        att[a].sid /\ att[a].status \in {"SUCCEEDED", "FAILED", "TIMED_OUT"}
            => remote[a] \notin NeverStopped

\* A create is sent only when every other attempt of the case is closed.
NoCreateBehindOpenAttempt ==
    [][\A a \in Attempts :
         posts'[a] # posts[a] =>
            \A b \in Attempts \ {a} : ~Active(att[b]) /\ att[b].status # "BLOCKED"]_vars

\* Liveness

\* States in which a session is wanted, running or being ended.
Unsettled == {"TRIAGE_CREATE_INTENT", "TRIAGING", "RECONCILING_CREATE",
              "TERMINATION_PENDING"}

\* Whatever fails (finitely often), a case in one of those states is claimed again
\* and leaves them: settled, failed, cancelled, timed out or handed to a human.
SessionsSettle == (state \in Unsettled) ~> (state \notin Unsettled)
-----------------------------------------------------------------------------
\* What the documentation says and the code does not keep

\* docs/architecture.md:357, "Local polling therefore never stops while a paid
\* session may still be running unobserved": a closed case that no loop works on
\* has no running session it knows the id of.
NoSessionLeftUnobserved ==
    state \in TERMINAL_STATES /\ (\A l \in Loops : At(l, "idle")) =>
        \A a \in Attempts : att[a].sid => remote[a] \notin Live

\* devin/status.py:58, "True when the session is gone/stopped remotely so no DELETE is
\* needed": _settle() closes an attempt on FINISHED and FAILED without a DELETE even
\* when remote_terminal is False, so a session of a closed attempt may go on.
ClosedAttemptEndedItsSession ==
    \A a \in Attempts :
        att[a].sid /\ att[a].status \in {"SUCCEEDED", "FAILED", "TIMED_OUT"}
            => remote[a] \notin Live

\* docs/canary-runbook.md:171, "Repeating the action, or the worker passing over
\* the case again, changes nothing": a case awaiting approval runs no session.
IngestedCaseRunsNoSession ==
    state = "AWAITING_REMEDIATION_APPROVAL" =>
        \A a \in ActiveAttempts(att) : remote[a] \notin Live

\* worker/devin_runner.py:1118, "Termination reached through the deadline becomes
\* TIMED_OUT; termination requested by an operator cancel becomes CANCELLED;
\* termination forced by a worker error becomes FAILED".
TimedOutMeansLate ==
    [][state' = "TIMED_OUT" /\ state # "TIMED_OUT" =>
         \E a \in Attempts : Active(att[a]) /\ att[a].late]_vars

\* docs/architecture.md:682, "anything longer is reclaimed after lease expiry": a
\* case being evaluated moves on.
EvaluatedCaseMovesOn ==
    (state \in {"RECEIVED", "ELIGIBILITY_EVALUATED"}) ~>
        (state \notin {"RECEIVED", "ELIGIBILITY_EVALUATED"})
=============================================================================
