-------------------------- MODULE TriageRunnerProofs --------------------------
(***************************************************************************)
(* Theorems about TriageRunner for any number of loops, attempts and        *)
(* faults.  With or without stalls: type correctness, that no operation key *)
(* is ever POSTed twice, that the case moves legally, and that a human is   *)
(* asked only about a stored output.  Without stalls, what rests on the     *)
(* lease: one attempt runs, one session is retained, a blocked case has its *)
(* cause, a closed attempt ended its session and a create comes alone.      *)
(***************************************************************************)
EXTENDS TriageRunner, WellFoundedInduction, TLAPS

\* A nonempty set of ordinals has a greatest member, so Newest picks one of them.
LEMMA NewestIsMember ==
    ASSUME NEW S \in SUBSET Attempts, S # {}
    PROVE  Newest(S) \in S
<1> DEFINE R == {p \in Nat \X Nat : p[1] < p[2]}
           T == {MaxAttempts - a : a \in S}
<1>1. IsWellFoundedOn(R, Nat)
  BY NatLessThanWellFounded DEF OpToRel
<1>2. T \subseteq Nat /\ T # {}
  <2>1. MaxAttempts \in Nat
    BY ConstantsAssumption
  <2>2. \A a \in S : a \in Nat /\ MaxAttempts - a \in Nat
    BY <2>1 DEF Attempts
  <2>3. T \subseteq Nat
    BY <2>2
  <2>4. PICK a : a \in S
    OBVIOUS
  <2>5. MaxAttempts - a \in T
    BY <2>4
  <2> QED BY <2>3, <2>5
<1>3. PICK x \in T : \A y \in T : ~ (<<y, x>> \in R)
  <2> HIDE DEF T, R
  <2> QED BY <1>1, <1>2, WFMin
<1>4. PICK m \in S : x = MaxAttempts - m
  BY <1>3
<1>5. ASSUME NEW b \in S PROVE b <= m
  <2>1. m \in Nat /\ b \in Nat /\ MaxAttempts \in Nat
    BY ConstantsAssumption DEF Attempts
  <2>2. MaxAttempts - b \in T /\ MaxAttempts - b \in Nat /\ MaxAttempts - m \in Nat
    BY <1>2
  <2>3. ~ (MaxAttempts - b < MaxAttempts - m)
    <3>1. <<MaxAttempts - b, MaxAttempts - m>> \notin R
      BY <1>3, <1>4, <2>2
    <3> QED BY <3>1, <2>2
  <2> QED BY <2>1, <2>3
<1> QED
  BY <1>4, <1>5 DEF Newest
-----------------------------------------------------------------------------
(***************************************************************************)
(* Most steps are quiet: they keep every row in the table and start no      *)
(* create.  The lemmas below show it, with type correctness, for the        *)
(* transactions the actions are built from.                                 *)
(***************************************************************************)
RowTable == [Attempts -> AttemptRow]

Kept(rows) == \A a \in Attempts : rows[a].status = "NONE" => att[a].status = "NONE"

QuietJob ==
    \A k \in Actors : Creating(job'[k]) => Creating(job[k]) /\ job'[k].a = job[k].a

Quiet ==
    /\ state' \in CaseState /\ LegalMove
    /\ att' \in RowTable /\ Kept(att')
    /\ job' \in [Actors -> Job] /\ QuietJob

\* Replacing one actor's job by one that creates nothing is quiet.
LEMMA JobQuiet ==
    ASSUME TypeOK, NEW l \in Actors, NEW next \in Job, ~Creating(next),
           job' = [job EXCEPT ![l] = next]
    PROVE  job' \in [Actors -> Job] /\ QuietJob
BY DEF TypeOK, QuietJob, Creating

\* The job records an action continues with are well typed.
LEMMA IdleType == Idle \in Job /\ Idle.pc = "idle"
<1>1. 1 \in Attempts
  BY ConstantsAssumption DEF Attempts
<1> QED
  BY <1>1 DEF Idle, Job, PC, CaseState, GENERIC_STATES, AttemptStatus, Visible, Snapshot, Stopped

LEMMA ExitType ==
    ASSUME NEW l \in Actors
    PROVE  Exit(l) \in Job /\ ~Creating(Exit(l))
<1>1. [Idle EXCEPT !.pc = "release"] \in Job /\ [Idle EXCEPT !.pc = "release"].pc = "release"
  BY IdleType DEF Job, PC
<1> QED
  BY <1>1, IdleType DEF Exit, Creating

LEMMA LostType ==
    ASSUME NEW l \in Actors
    PROVE  Lost(l) \in Job /\ ~Creating(Lost(l))
<1>1. [Idle EXCEPT !.pc = "abandon"] \in Job /\ [Idle EXCEPT !.pc = "abandon"].pc = "abandon"
  BY IdleType DEF Job, PC
<1> QED
  BY <1>1, ExitType DEF Lost, Creating

\* A transaction with a transition is quiet if what it writes is.
LEMMA CommitQuiet ==
    ASSUME TypeOK, NEW l \in Actors, NEW to \in CaseState,
           NEW rows \in RowTable, Kept(rows),
           NEW next \in Job, ~Creating(next),
           Commit(l, to, rows, next)
    PROVE  Quiet
<1>1. CASE CanMove(l, to)
  BY <1>1, JobQuiet DEF Commit, CanMove, Quiet, LegalMove
<1>2. CASE ~CanMove(l, to)
  <2>1. job' = [job EXCEPT ![l] = Lost(l)] /\ state' = state /\ att' = att
    BY <1>2 DEF Commit
  <2>2. job' \in [Actors -> Job] /\ QuietJob
    BY <2>1, LostType, JobQuiet
  <2> QED
    BY <2>1, <2>2 DEF Quiet, LegalMove, Kept, RowTable, TypeOK
<1> QED
  BY <1>1, <1>2

\* Leaving a job is quiet.
LEMMA LeaveQuiet ==
    ASSUME TypeOK, NEW l \in Actors, Leave(l)
    PROVE  job' \in [Actors -> Job] /\ QuietJob
BY ExitType, JobQuiet DEF Leave

LEMMA ParkType ==
    ASSUME NEW rows \in RowTable, Kept(rows)
    PROVE  ParkForTermination(rows) \in RowTable /\ Kept(ParkForTermination(rows))
BY DEF ParkForTermination, RowTable, AttemptRow, AttemptStatus, Reason,
       ACTIVE_ATTEMPT_STATUSES, Kept

\* fail_case() is quiet if the rows it is given are.
LEMMA FailCaseQuiet ==
    ASSUME TypeOK, NEW l \in Actors, NEW rows \in RowTable, Kept(rows),
           FailCase(l, rows)
    PROVE  Quiet
<1> DEFINE parked == ParkForTermination(rows)
<1>1. parked \in RowTable /\ Kept(parked)
  BY ParkType
<1>2. "FAILED" \in CaseState /\ "TERMINATION_PENDING" \in CaseState
  BY DEF CaseState, GENERIC_STATES
<1>3. CASE Commit(l, "FAILED", rows, Exit(l))
  BY <1>2, <1>3, ExitType, CommitQuiet
<1>4. CASE Commit(l, "TERMINATION_PENDING", parked, Exit(l))
  BY <1>1, <1>2, <1>4, ExitType, CommitQuiet
<1>5. CASE /\ att' \in {rows, parked}
           /\ Leave(l)
           /\ UNCHANGED state
  <2>1. job' \in [Actors -> Job] /\ QuietJob
    BY <1>5, LeaveQuiet
  <2> QED
    BY <1>1, <1>5, <2>1 DEF Quiet, LegalMove, TypeOK
<1> QED
  BY <1>3, <1>4, <1>5 DEF FailCase

\* What "attempt.status = s" leaves in the row of l's attempt.
LEMMA RowType ==
    ASSUME TypeOK, NEW l \in Actors, NEW s \in AttemptStatus, s # "NONE"
    PROVE  /\ job[l] \in Job /\ job[l].a \in Attempts /\ att[job[l].a] \in AttemptRow
           /\ Row(l, s) \in AttemptRow /\ Closed(l, s) \in AttemptRow
           /\ Row(l, s).status = "NONE" => att[job[l].a].status = "NONE"
           /\ Closed(l, s).status = "NONE" => att[job[l].a].status = "NONE"
<1>1. job[l] \in Job
  BY DEF TypeOK
<1>2. job[l].a \in Attempts
  BY <1>1 DEF Job
<1>3. att[job[l].a] \in AttemptRow
  BY <1>2 DEF TypeOK
<1>4. /\ Row(l, s) \in AttemptRow
      /\ Row(l, s).status = IF job[l].mem = s THEN att[job[l].a].status ELSE s
  BY <1>3 DEF Row, AttemptRow
<1>5. Closed(l, s) \in AttemptRow /\ Closed(l, s).status = Row(l, s).status
  BY <1>4 DEF Closed, AttemptRow
<1> QED
  BY <1>1, <1>2, <1>3, <1>4, <1>5

LEMMA PutKeeps ==
    ASSUME TypeOK, NEW l \in Actors, NEW r \in AttemptRow,
           r.status = "NONE" => att[job[l].a].status = "NONE"
    PROVE  Put(l, r) \in RowTable /\ Kept(Put(l, r))
BY DEF TypeOK, Job, Put, RowTable, Kept

LEMMA AttKept == TypeOK => att \in RowTable /\ Kept(att)
BY DEF TypeOK, RowTable, Kept

LEMMA GotoQuiet ==
    ASSUME TypeOK, NEW l \in Actors, NEW pc \in PC \ {"prepare", "post"}, Goto(l, pc)
    PROVE  job' \in [Actors -> Job] /\ QuietJob
<1>1. [job[l] EXCEPT !.pc = pc] \in Job /\ [job[l] EXCEPT !.pc = pc].pc = pc
  BY DEF TypeOK, Job
<1>2. job' = [job EXCEPT ![l] = [job[l] EXCEPT !.pc = pc]]
  BY DEF Goto, TypeOK
<1> QED
  BY <1>1, <1>2, JobQuiet DEF Creating

LEMMA DeleteType ==
    ASSUME TypeOK, NEW S
    PROVE  DeleteSessions(S) \in [Attempts -> Session]
BY DEF TypeOK, DeleteSessions, Session

LEMMA FaultType == TypeOK /\ Fault => faults' \in 0..MaxFaults
BY ConstantsAssumption DEF TypeOK, Fault

\* The rest of the state in a step that sends nothing.
Typed ==
    /\ claim' \in Loops \cup {NoOne}
    /\ leased' \in BOOLEAN
    /\ remote' \in [Attempts -> Session]
    /\ posts' = posts
    /\ faults' \in 0..MaxFaults

LEMMA StutterTyped ==
    ASSUME TypeOK, UNCHANGED <<lease, devin, faults>>
    PROVE  Typed
BY DEF TypeOK, Typed, lease, devin

LEMMA FaultTyped ==
    ASSUME TypeOK, Fault, UNCHANGED <<lease, devin>>
    PROVE  Typed
BY FaultType DEF TypeOK, Typed, lease, devin

\* Literals of the state and status sets, expanded once.
LEMMA Literals ==
    /\ {"RECEIVED", "ELIGIBILITY_EVALUATED", "TRIAGE_CREATE_INTENT", "TRIAGING", "TRIAGED",
        "AWAITING_REMEDIATION_APPROVAL", "HUMAN_BLOCKED", "RECONCILING_CREATE",
        "TERMINATION_PENDING", "TIMED_OUT", "POLICY_REJECTED", "FAILED", "CANCELLED"}
         \subseteq CaseState
    /\ {"RUNNING", "RECONCILING", "TERMINATION_PENDING", "BLOCKED", "SUCCEEDED", "FAILED",
        "TIMED_OUT", "CANCELLED"} \subseteq AttemptStatus
BY DEF CaseState, GENERIC_STATES, AttemptStatus, ACTIVE_ATTEMPT_STATUSES
-----------------------------------------------------------------------------
(***************************************************************************)
(* The actions that create and send nothing, one lemma each.                *)
(***************************************************************************)

\* Continuing l's job elsewhere, other fields included, is quiet.
LEMMA ThenType ==
    ASSUME TypeOK, NEW l \in Actors, NEW pc \in PC \ {"prepare", "post"},
           NEW to \in CaseState
    PROVE  Then(l, pc, to) \in Job /\ Then(l, pc, to).pc = pc /\ ~Creating(Then(l, pc, to))
BY DEF TypeOK, Job, Then, Creating

LEMMA EntryPointType == EntryPoint \in PC \ {"prepare", "post"}
BY DEF EntryPoint, PC, JobPC

LEMMA ClaimQuiet ==
    ASSUME TypeOK, NEW l \in Loops, Claim(l)
    PROVE  Quiet /\ Typed
<1> DEFINE next == [Idle EXCEPT !.pc = EntryPoint, !.view = state]
<1>1. next \in Job /\ next.pc = EntryPoint
  BY IdleType, EntryPointType DEF Job, TypeOK
<1>2. job' \in [Actors -> Job] /\ QuietJob
  BY <1>1, EntryPointType, JobQuiet DEF Claim, Creating, Actors
<1>3. Typed
  BY DEF Claim, TypeOK, Typed, devin
<1> QED
  BY <1>2, <1>3, AttKept DEF Claim, Quiet, LegalMove, TypeOK

LEMMA EvaluateQuiet ==
    ASSUME TypeOK, NEW l \in Loops, Evaluate(l)
    PROVE  Quiet /\ Typed
<1>1. "verdict" \in PC \ {"prepare", "post"}
  BY DEF PC, JobPC
<1> QED
  BY <1>1, Literals, ThenType, AttKept, CommitQuiet, StutterTyped DEF Evaluate, Actors

LEMMA VerdictQuiet ==
    ASSUME TypeOK, NEW l \in Loops, Verdict(l)
    PROVE  Quiet /\ Typed
<1>1. "run" \in PC \ {"prepare", "post"}
  BY DEF PC, JobPC
<1>2. l \in Actors
  BY DEF Actors
<1>3. Quiet
  BY <1>1, <1>2, Literals, ThenType, ExitType, AttKept, CommitQuiet DEF Verdict
<1> QED
  BY <1>3, StutterTyped DEF Verdict

LEMMA RunNewQuiet ==
    ASSUME TypeOK, NEW l \in Loops, RunNew(l)
    PROVE  Quiet /\ Typed
<1>1. "create" \in PC \ {"prepare", "post"} /\ l \in Actors
  BY DEF PC, JobPC, Actors
<1>2. job' \in [Actors -> Job] /\ QuietJob
  BY <1>1, GotoQuiet, LeaveQuiet DEF RunNew
<1>3. Typed
  BY StutterTyped, FaultTyped DEF RunNew
<1> QED
  BY <1>2, <1>3, AttKept DEF RunNew, Quiet, LegalMove, TypeOK

LEMMA RunResumeQuiet ==
    ASSUME TypeOK, NEW l \in Loops, RunResume(l)
    PROVE  Quiet /\ Typed
<1> DEFINE a == Newest(ActiveAttempts(att))
           r == att[a]
           On(pc) == [job[l] EXCEPT !.pc = pc, !.a = a, !.mem = r.status]
<1>1. l \in Actors /\ job[l] \in Job
  BY DEF Actors, TypeOK
<1>2. a \in Attempts
  BY NewestIsMember DEF RunResume, ActiveAttempts
<1>3. r.status \in AttemptStatus
  BY <1>2 DEF TypeOK, AttemptRow
<1>4. \A pc \in {"final_get", "tag", "reconcile", "poll"} :
         On(pc) \in Job /\ On(pc).pc = pc
  BY <1>1, <1>2, <1>3 DEF Job, PC, JobPC
<1>5. [On("poll") EXCEPT !.view = "TRIAGING"] \in Job
      /\ [On("poll") EXCEPT !.view = "TRIAGING"].pc = "poll"
  BY <1>4, Literals DEF Job
<1>6. Typed
  BY StutterTyped DEF RunResume
<1>7. CASE Commit(l, "TRIAGING", att, [On("poll") EXCEPT !.view = "TRIAGING"])
  BY <1>1, <1>5, <1>6, <1>7, Literals, AttKept, CommitQuiet DEF Creating
<1>8. CASE /\ \E pc \in {"final_get", "tag", "reconcile", "poll"} :
                 job' = [job EXCEPT ![l] = On(pc)]
           /\ UNCHANGED <<state, att>>
  <2>1. job' \in [Actors -> Job] /\ QuietJob
    BY <1>1, <1>4, <1>8, JobQuiet DEF Creating
  <2> QED
    BY <1>6, <1>8, <2>1, AttKept DEF Quiet, LegalMove, TypeOK
<1> QED
  BY <1>7, <1>8 DEF RunResume

\* Settling the sessions of earlier attempts takes no row away.
LEMMA SettledType ==
    ASSUME TypeOK, NEW done
    PROVE  Settled(done) \in RowTable /\ Kept(Settled(done))
<1>1. \A a \in Attempts : att[a] \in AttemptRow
  BY DEF TypeOK
<1>2. \A a \in Attempts :
        /\ [att[a] EXCEPT !.status = "CANCELLED", !.finished = TRUE] \in AttemptRow
        /\ [att[a] EXCEPT !.status = "CANCELLED", !.finished = TRUE].status = "CANCELLED"
  BY <1>1, Literals DEF AttemptRow
<1> QED
  BY <1>1, <1>2 DEF Settled, RowTable, Kept

LEMMA NextOrdinalType == TypeOK /\ ~AttemptsExhausted => NextOrdinal \in Attempts
<1>1. CASE Rows(att) = {}
  BY <1>1, ConstantsAssumption DEF NextOrdinal, AttemptsExhausted, Attempts
<1>2. CASE Rows(att) # {}
  <2>1. Newest(Rows(att)) \in Attempts
    BY <1>2, NewestIsMember DEF Rows
  <2> QED
    BY <1>2, <2>1, ConstantsAssumption DEF NextOrdinal, AttemptsExhausted, Attempts
<1> QED
  BY <1>1, <1>2

LEMMA CreateQuiet ==
    ASSUME TypeOK, NEW l \in Loops, Create(l)
    PROVE  Quiet /\ Typed
<1>1. l \in Actors
  BY DEF Actors
<1>2. CASE /\ FailCase(l, att)
           /\ UNCHANGED <<remote, faults>>
  <2>1. Typed
    BY <1>2, StutterTyped DEF Create, devin
  <2> QED
    BY <1>1, <1>2, <2>1, AttKept, FailCaseQuiet
<1>3. ASSUME ~AttemptsExhausted,
             NEW done \in SUBSET Previous,
             remote' = DeleteSessions(WithSession(done)),
             att' = Settled(done),
             job' = [job EXCEPT ![l].pc = "insert", ![l].a = NextOrdinal,
                                ![l].mem = "RUNNING"],
             UNCHANGED <<state, faults>>
      PROVE  Quiet /\ Typed
  <2> DEFINE next == [job[l] EXCEPT !.pc = "insert", !.a = NextOrdinal, !.mem = "RUNNING"]
  <2>1. next \in Job /\ next.pc = "insert"
    BY <1>1, <1>3, NextOrdinalType, Literals DEF TypeOK, Job, PC, JobPC
  <2>2. job' = [job EXCEPT ![l] = next]
    BY <1>1, <1>3 DEF TypeOK
  <2>3. job' \in [Actors -> Job] /\ QuietJob
    BY <1>1, <2>1, <2>2, JobQuiet DEF Creating
  <2>4. Typed
    BY <1>3, DeleteType DEF Create, TypeOK, Typed, lease
  <2> QED
    BY <1>3, <2>3, <2>4, SettledType DEF Quiet, LegalMove, TypeOK
<1>4. ASSUME NEW done \in SUBSET Previous,
             remote' = DeleteSessions(WithSession(done)),
             UNCHANGED faults \/ Fault,
             FailCase(l, Settled(done))
      PROVE  Quiet /\ Typed
  <2>1. Typed
    BY <1>4, DeleteType, FaultType DEF Create, TypeOK, Typed, lease
  <2> QED
    BY <1>1, <1>4, <2>1, SettledType, FailCaseQuiet
<1> QED
  BY <1>2, <1>3, <1>4 DEF Create

\* The steps around the POST that neither insert, prepare nor send.
LEMMA DuplicateQuiet ==
    ASSUME TypeOK, NEW l \in Loops, Insert(l), ~Goto(l, "prepare")
    PROVE  Quiet /\ Typed
<1>1. l \in Actors
  BY DEF Actors
<1> QED
  BY <1>1, IdleType, JobQuiet, AttKept, StutterTyped
     DEF Insert, Quiet, LegalMove, TypeOK, Creating

\* An attempt closed as s by its job, in a transaction that fails the case.
LEMMA ClosedKeeps ==
    ASSUME TypeOK, NEW l \in Actors, NEW s \in AttemptStatus, s # "NONE"
    PROVE  /\ Put(l, Closed(l, s)) \in RowTable /\ Kept(Put(l, Closed(l, s)))
           /\ Put(l, Row(l, s)) \in RowTable /\ Kept(Put(l, Row(l, s)))
BY RowType, PutKeeps

\* The same with a new reconciliation_reason.
LEMMA ReasonKeeps ==
    ASSUME TypeOK, NEW l \in Actors, NEW s \in AttemptStatus, s # "NONE",
           NEW why \in Reason
    PROVE  LET r == [Row(l, s) EXCEPT !.reason = why]
               c == [Closed(l, s) EXCEPT !.reason = why]
               u == [Closed(l, s) EXCEPT !.unresolved = TRUE, !.reason = why]
           IN  /\ Put(l, r) \in RowTable /\ Kept(Put(l, r))
               /\ Put(l, c) \in RowTable /\ Kept(Put(l, c))
               /\ Put(l, u) \in RowTable /\ Kept(Put(l, u))
<1>1. /\ Row(l, s) \in AttemptRow /\ Closed(l, s) \in AttemptRow
      /\ Row(l, s).status = "NONE" => att[job[l].a].status = "NONE"
      /\ Closed(l, s).status = "NONE" => att[job[l].a].status = "NONE"
  BY RowType
<1>2. /\ [Row(l, s) EXCEPT !.reason = why] \in AttemptRow
      /\ [Row(l, s) EXCEPT !.reason = why].status = Row(l, s).status
  BY <1>1 DEF AttemptRow
<1>3. /\ [Closed(l, s) EXCEPT !.reason = why] \in AttemptRow
      /\ [Closed(l, s) EXCEPT !.reason = why].status = Closed(l, s).status
  BY <1>1 DEF AttemptRow
<1>4. /\ [Closed(l, s) EXCEPT !.unresolved = TRUE, !.reason = why] \in AttemptRow
      /\ [Closed(l, s) EXCEPT !.unresolved = TRUE, !.reason = why].status
           = Closed(l, s).status
  BY <1>1 DEF AttemptRow
<1> QED
  BY <1>1, <1>2, <1>3, <1>4, PutKeeps

LEMMA RefusedPrepareQuiet ==
    ASSUME TypeOK, NEW l \in Loops, Prepare(l), ~Goto(l, "post")
    PROVE  Quiet /\ Typed
<1>1. l \in Actors
  BY DEF Actors
<1> QED
  BY <1>1, Literals, ClosedKeeps, FailCaseQuiet, FaultTyped DEF Prepare

LEMMA PostOkQuiet ==
    ASSUME TypeOK, NEW l \in Loops, PostOk(l)
    PROVE  Quiet /\ Typed
<1>1. l \in Actors /\ "attach" \in PC \ {"prepare", "post"}
  BY DEF Actors, PC, JobPC
<1> QED
  BY <1>1, GotoQuiet, AttKept, StutterTyped DEF PostOk, Quiet, LegalMove, TypeOK

LEMMA PostRejectedQuiet ==
    ASSUME TypeOK, NEW l \in Loops, PostRejected(l)
    PROVE  Quiet /\ Typed
<1>1. l \in Actors
  BY DEF Actors
<1>2. remote' \in [Attempts -> Session]
  BY DEF PostRejected, TypeOK, Session
<1>3. Typed
  BY <1>2, FaultType DEF PostRejected, TypeOK, Typed, lease
<1> QED
  BY <1>1, <1>3, Literals, ClosedKeeps, FailCaseQuiet DEF PostRejected

LEMMA PostLostQuiet ==
    ASSUME TypeOK, NEW l \in Loops, PostLost(l)
    PROVE  Quiet /\ Typed
<1> DEFINE next == [Then(l, "reconcile", "RECONCILING_CREATE") EXCEPT !.mem = "RECONCILING"]
<1>1. l \in Actors /\ "reconcile" \in PC \ {"prepare", "post"} /\ "other" \in Reason
  BY DEF Actors, PC, JobPC, Reason
<1>2. /\ Then(l, "reconcile", "RECONCILING_CREATE") \in Job
      /\ Then(l, "reconcile", "RECONCILING_CREATE").pc = "reconcile"
  BY <1>1, ThenType, Literals
<1>3. next \in Job /\ next.pc = "reconcile"
  BY <1>2, Literals DEF Job
<1>4. Typed
  BY FaultTyped DEF PostLost
<1> QED
  BY <1>1, <1>3, <1>4, Literals, ReasonKeeps, CommitQuiet DEF PostLost, Creating

LEMMA AttachQuiet ==
    ASSUME TypeOK, NEW l \in Loops, Attach(l)
    PROVE  Quiet /\ Typed
<1> DEFINE r == [Row(l, "RUNNING") EXCEPT !.sid = TRUE, !.reason = "none", !.late = FALSE]
           o == [att[job[l].a] EXCEPT !.status = "CANCELLED", !.sid = TRUE,
                                      !.finished = TRUE]
           next == [Then(l, "poll", "TRIAGING") EXCEPT !.mem = "RUNNING"]
<1>1. l \in Actors /\ "poll" \in PC \ {"prepare", "post"}
      /\ "orphan" \in PC \ {"prepare", "post"}
  BY DEF Actors, PC, JobPC
<1>2. Typed
  BY StutterTyped DEF Attach
<1>3. /\ Row(l, "RUNNING") \in AttemptRow /\ att[job[l].a] \in AttemptRow
      /\ Row(l, "RUNNING").status = "NONE" => att[job[l].a].status = "NONE"
  BY <1>1, Literals, RowType
<1>4. CASE Commit(l, "TRIAGING", Put(l, r), next)
  <2>1. r \in AttemptRow /\ r.status = Row(l, "RUNNING").status
    BY <1>3 DEF AttemptRow, Reason
  <2>2. Put(l, r) \in RowTable /\ Kept(Put(l, r))
    BY <1>1, <1>3, <2>1, PutKeeps
  <2>3. Then(l, "poll", "TRIAGING") \in Job /\ Then(l, "poll", "TRIAGING").pc = "poll"
    BY <1>1, ThenType, Literals
  <2>4. next \in Job /\ next.pc = "poll"
    BY <2>3, Literals DEF Job
  <2> QED
    BY <1>1, <1>2, <1>4, <2>2, <2>4, Literals, CommitQuiet DEF Creating
<1>5. CASE att' = Put(l, o) /\ Goto(l, "orphan") /\ UNCHANGED state
  <2>1. o \in AttemptRow /\ o.status = "CANCELLED"
    BY <1>3, Literals DEF AttemptRow
  <2>2. Put(l, o) \in RowTable /\ Kept(Put(l, o))
    BY <1>1, <2>1, PutKeeps
  <2>3. job' \in [Actors -> Job] /\ QuietJob
    BY <1>1, <1>5, GotoQuiet
  <2> QED
    BY <1>2, <1>5, <2>2, <2>3 DEF Quiet, LegalMove, TypeOK
<1> QED
  BY <1>4, <1>5 DEF Attach

LEMMA OrphanQuiet ==
    ASSUME TypeOK, NEW l \in Loops, Orphan(l)
    PROVE  Quiet /\ Typed
<1>1. l \in Actors /\ "abandon" \in PC \ {"prepare", "post"}
  BY DEF Actors, PC
<1>2. Typed
  BY DeleteType, FaultType DEF Orphan, TypeOK, Typed, lease
<1> QED
  BY <1>1, <1>2, GotoQuiet, AttKept DEF Orphan, Quiet, LegalMove, TypeOK

LEMMA ReconcileQuiet ==
    ASSUME TypeOK, NEW l \in Loops, Reconcile(l)
    PROVE  Quiet /\ Typed
<1> DEFINE rows == Put(l, [Row(l, "RECONCILING") EXCEPT !.reason = "other"])
           next == [job[l] EXCEPT !.pc = "lookup", !.mem = "RECONCILING"]
           moved == [next EXCEPT !.view = "RECONCILING_CREATE"]
<1>1. l \in Actors /\ "other" \in Reason /\ "lookup" \in PC
  BY DEF Actors, Reason, PC, JobPC
<1>2. rows \in RowTable /\ Kept(rows)
  BY <1>1, Literals, ReasonKeeps
<1>3. next \in Job /\ next.pc = "lookup"
  BY <1>1, Literals DEF TypeOK, Job
<1>4. moved \in Job /\ moved.pc = "lookup"
  BY <1>3, Literals DEF Job
<1>5. Typed
  BY StutterTyped DEF Reconcile
<1>6. CASE Commit(l, "RECONCILING_CREATE", rows, moved)
  BY <1>1, <1>2, <1>4, <1>5, <1>6, Literals, CommitQuiet DEF Creating
<1>7. CASE att' = rows /\ job' = [job EXCEPT ![l] = next] /\ UNCHANGED state
  <2>1. job' \in [Actors -> Job] /\ QuietJob
    BY <1>1, <1>3, <1>7, JobQuiet DEF Creating
  <2> QED
    BY <1>2, <1>5, <1>7, <2>1 DEF Quiet, LegalMove, TypeOK
<1> QED
  BY <1>6, <1>7 DEF Reconcile

LEMMA LookupQuiet ==
    ASSUME TypeOK, NEW l \in Loops, Lookup(l)
    PROVE  Quiet /\ Typed
<1>1. l \in Actors /\ "attach" \in PC \ {"prepare", "post"} /\ "other" \in Reason
  BY DEF Actors, PC, JobPC, Reason
<1>2. Typed
  BY StutterTyped, FaultTyped DEF Lookup
<1>3. CASE Goto(l, "attach") /\ UNCHANGED <<state, att>>
  BY <1>1, <1>2, <1>3, GotoQuiet, AttKept DEF Quiet, LegalMove, TypeOK
<1>4. CASE Commit(l, "HUMAN_BLOCKED",
                  Put(l, [Closed(l, "BLOCKED") EXCEPT !.unresolved = TRUE,
                                                      !.reason = "other"]),
                  Exit(l))
  BY <1>1, <1>2, <1>4, Literals, ReasonKeeps, ExitType, CommitQuiet
<1> QED
  BY <1>3, <1>4 DEF Lookup

LEMMA PollQuiet ==
    ASSUME TypeOK, NEW l \in Loops, Poll(l)
    PROVE  Quiet /\ Typed
<1>1. l \in Actors /\ job[l] \in Job /\ "cancel" \in Reason
  BY DEF Actors, Reason, TypeOK
<1>2. Typed
  BY StutterTyped DEF Poll
<1>3. CASE state \in TERMINATION_PENDING_STATES
  <2> DEFINE next == [job[l] EXCEPT !.pc = "final_get", !.view = state,
                                    !.mem = "TERMINATION_PENDING"]
  <2>1. next \in Job /\ next.pc = "final_get"
    BY <1>1, Literals DEF TypeOK, Job, PC, JobPC
  <2>2. job' = [job EXCEPT ![l] = next]
    BY <1>1, <1>3 DEF Poll, TypeOK
  <2>3. att' = Put(l, [Row(l, "TERMINATION_PENDING") EXCEPT !.reason = "cancel"])
    BY <1>3 DEF Poll
  <2>4. att' \in RowTable /\ Kept(att')
    BY <1>1, <2>3, Literals, ReasonKeeps
  <2> QED
    BY <1>1, <1>2, <2>1, <2>2, <2>4, JobQuiet DEF Poll, Creating, Quiet, LegalMove, TypeOK
<1>4. CASE state \notin TERMINATION_PENDING_STATES
  <2> DEFINE pc == IF att[job[l].a].late THEN "final_get" ELSE "get"
             next == [job[l] EXCEPT !.pc = pc, !.view = state]
  <2>1. pc \in PC /\ pc \notin {"prepare", "post"}
    BY DEF PC, JobPC
  <2> HIDE DEF pc
  <2>2. next \in Job /\ next.pc = pc
    BY <1>1, <2>1 DEF TypeOK, Job
  <2>3. job' = [job EXCEPT ![l] = next]
    BY <1>1, <1>4 DEF Poll, TypeOK, pc
  <2> QED
    BY <1>1, <1>2, <1>4, <2>1, <2>2, <2>3, JobQuiet, AttKept
    DEF Poll, Creating, Quiet, LegalMove, TypeOK
<1> QED
  BY <1>3, <1>4

LEMMA GetQuiet ==
    ASSUME TypeOK, NEW l \in Loops, Get(l)
    PROVE  Quiet /\ Typed
<1>1. l \in Actors /\ job[l] \in Job /\ {"other", "none"} \subseteq Reason
  BY DEF Actors, Reason, TypeOK
<1>2. Typed
  BY StutterTyped, FaultTyped DEF Get
<1>3. CASE FailCase(l, Put(l, Closed(l, "FAILED")))
  BY <1>1, <1>2, <1>3, Literals, ClosedKeeps, FailCaseQuiet
<1>4. CASE /\ att' = Put(l, [Row(l, "RECONCILING") EXCEPT !.reason = "other"])
           /\ job' = [job EXCEPT ![l].pc = "poll", ![l].mem = "RECONCILING"]
           /\ UNCHANGED state
  <2> DEFINE next == [job[l] EXCEPT !.pc = "poll", !.mem = "RECONCILING"]
  <2>1. next \in Job /\ next.pc = "poll"
    BY <1>1, Literals DEF Job, PC, JobPC
  <2>2. job' = [job EXCEPT ![l] = next]
    BY <1>1, <1>4 DEF TypeOK
  <2>3. att' \in RowTable /\ Kept(att')
    BY <1>1, <1>4, Literals, ReasonKeeps
  <2> QED
    BY <1>1, <1>2, <1>4, <2>1, <2>2, <2>3, JobQuiet DEF Creating, Quiet, LegalMove, TypeOK
<1>5. ASSUME NEW answer \in Snapshot,
             att' = Put(l, [Row(l, "RUNNING") EXCEPT !.reason = "none"]),
             job' = [job EXCEPT ![l].pc = IF answer = "Working" THEN "poll" ELSE "settle",
                                ![l].mem = "RUNNING", ![l].seen = answer],
             UNCHANGED state
      PROVE  Quiet /\ Typed
  <2> DEFINE pc == IF answer = "Working" THEN "poll" ELSE "settle"
             next == [job[l] EXCEPT !.pc = pc, !.mem = "RUNNING", !.seen = answer]
  <2>1. pc \in PC /\ pc \notin {"prepare", "post"}
    BY DEF PC, JobPC
  <2>2. job' = [job EXCEPT ![l] = next]
    BY <1>1, <1>5 DEF TypeOK
  <2> HIDE DEF pc
  <2>3. next \in Job /\ next.pc = pc
    BY <1>1, <1>5, <2>1, Literals DEF Job
  <2>4. att' \in RowTable /\ Kept(att')
    BY <1>1, <1>5, Literals, ReasonKeeps
  <2> QED
    BY <1>1, <1>2, <1>5, <2>1, <2>2, <2>3, <2>4, JobQuiet DEF Creating, Quiet, LegalMove, TypeOK
<1> QED
  BY <1>3, <1>4, <1>5 DEF Get

LEMMA SettleQuiet ==
    ASSUME TypeOK, NEW l \in Actors, Settle(l)
    PROVE  Quiet /\ Typed
<1> DEFINE stored == CASE job[l].seen = "Done" -> "valid"
                       [] job[l].seen = "Invalid" -> "invalid"
                       [] OTHER -> "none"
           r == [att[job[l].a] EXCEPT !.finished = TRUE, !.out = stored]
<1>1. Typed
  BY StutterTyped DEF Settle
<1>2. CASE att' = Put(l, r) /\ Goto(l, "finish") /\ UNCHANGED state
  <2>1. stored \in {"none", "valid", "invalid"}
    OBVIOUS
  <2>2. att[job[l].a] \in AttemptRow
    BY RowType, Literals
  <2> HIDE DEF stored
  <2>3. r \in AttemptRow /\ r.status = att[job[l].a].status
    BY <2>1, <2>2 DEF AttemptRow
  <2>4. Put(l, r) \in RowTable /\ Kept(Put(l, r))
    BY <2>3, PutKeeps
  <2>5. "finish" \in PC \ {"prepare", "post"}
    BY DEF PC, JobPC
  <2> HIDE DEF r
  <2> QED
    BY <1>1, <1>2, <2>4, <2>5, GotoQuiet DEF Quiet, LegalMove, TypeOK
<1>3. CASE Commit(l, "HUMAN_BLOCKED", Put(l, Closed(l, "BLOCKED")), Exit(l))
  BY <1>1, <1>3, Literals, ClosedKeeps, ExitType, CommitQuiet
<1>4. CASE FailCase(l, Put(l, Closed(l, "FAILED")))
  BY <1>1, <1>4, Literals, ClosedKeeps, FailCaseQuiet
<1> QED
  BY <1>2, <1>3, <1>4 DEF Settle

LEMMA FinishQuiet ==
    ASSUME TypeOK, NEW l \in Actors, Finish(l)
    PROVE  Quiet /\ Typed
<1>1. Typed
  BY StutterTyped DEF Finish
<1>2. CASE /\ CanMove(l, "TRIAGED")
           /\ state' = "AWAITING_REMEDIATION_APPROVAL"
           /\ att' = Put(l, Row(l, "SUCCEEDED"))
           /\ Leave(l)
  BY <1>1, <1>2, Literals, ClosedKeeps, LeaveQuiet DEF Quiet, CanMove, LegalMove
<1>3. CASE job' = [job EXCEPT ![l] = Lost(l)] /\ UNCHANGED <<state, att>>
  BY <1>1, <1>3, LostType, JobQuiet, AttKept DEF Quiet, LegalMove, TypeOK
<1>4. CASE FailCase(l, Put(l, [Row(l, "FAILED") EXCEPT !.out = "none"]))
  <2> DEFINE r == [Row(l, "FAILED") EXCEPT !.out = "none"]
  <2>1. /\ Row(l, "FAILED") \in AttemptRow
        /\ Row(l, "FAILED").status = "NONE" => att[job[l].a].status = "NONE"
    BY Literals, RowType
  <2>2. r \in AttemptRow /\ r.status = Row(l, "FAILED").status
    BY <2>1 DEF AttemptRow
  <2> QED
    BY <1>1, <1>4, <2>1, <2>2, PutKeeps, FailCaseQuiet
<1> QED
  BY <1>2, <1>3, <1>4 DEF Finish

LEMMA FinalGetQuiet ==
    ASSUME TypeOK, NEW l \in Loops, FinalGet(l)
    PROVE  Quiet /\ Typed
<1>1. l \in Actors /\ job[l] \in Job /\ {"mark", "delete"} \subseteq PC \ {"prepare", "post"}
  BY DEF Actors, TypeOK, PC, JobPC
<1>2. Typed
  BY StutterTyped, FaultTyped DEF FinalGet
<1>3. CASE (Goto(l, "mark") \/ Goto(l, "delete")) /\ UNCHANGED <<state, att>>
  BY <1>1, <1>2, <1>3, GotoQuiet, AttKept DEF Quiet, LegalMove, TypeOK
<1>4. ASSUME NEW answer \in {"Asking", "Done", "Invalid", "Ended", "Errored"},
             att' = Put(l, Row(l, "RUNNING")),
             job' = [job EXCEPT ![l].pc = "settle", ![l].mem = "RUNNING",
                                ![l].seen = answer],
             UNCHANGED state
      PROVE  Quiet /\ Typed
  <2> DEFINE next == [job[l] EXCEPT !.pc = "settle", !.mem = "RUNNING", !.seen = answer]
  <2>1. next \in Job /\ next.pc = "settle"
    BY <1>1, <1>4, Literals DEF Job, PC, JobPC, Visible, Snapshot, Stopped
  <2>2. job' = [job EXCEPT ![l] = next]
    BY <1>1, <1>4 DEF TypeOK
  <2>3. att' \in RowTable /\ Kept(att')
    BY <1>1, <1>4, Literals, ClosedKeeps
  <2> QED
    BY <1>1, <1>2, <1>4, <2>1, <2>2, <2>3, JobQuiet DEF Creating, Quiet, LegalMove, TypeOK
<1> QED
  BY <1>3, <1>4 DEF FinalGet

LEMMA DeleteQuiet ==
    ASSUME TypeOK, NEW l \in Loops, Delete(l)
    PROVE  Quiet /\ Typed
<1> DEFINE r == [Row(l, "TERMINATION_PENDING") EXCEPT !.reason = KeptTrigger(@)]
<1>1. l \in Actors /\ "mark" \in PC \ {"prepare", "post"}
  BY DEF Actors, PC, JobPC
<1>2. Typed
  BY DeleteType, FaultType DEF Delete, TypeOK, Typed, lease
<1>3. \A why \in Reason : KeptTrigger(why) \in Reason
  BY DEF KeptTrigger, Reason
<1>4. /\ Row(l, "TERMINATION_PENDING") \in AttemptRow
      /\ Row(l, "TERMINATION_PENDING").status = "NONE" => att[job[l].a].status = "NONE"
  BY <1>1, Literals, RowType
<1>5. r \in AttemptRow /\ r.status = Row(l, "TERMINATION_PENDING").status
  BY <1>3, <1>4 DEF AttemptRow
<1>6. Put(l, r) \in RowTable /\ Kept(Put(l, r))
  BY <1>1, <1>4, <1>5, PutKeeps
<1>7. CASE Goto(l, "mark") /\ UNCHANGED <<state, att>>
  BY <1>1, <1>2, <1>7, GotoQuiet, AttKept DEF Quiet, LegalMove, TypeOK
<1>8. CASE Commit(l, "TERMINATION_PENDING", Put(l, r), Exit(l))
  BY <1>1, <1>2, <1>6, <1>8, Literals, ExitType, CommitQuiet
<1>9. CASE att' = Put(l, r) /\ Leave(l) /\ UNCHANGED state
  BY <1>1, <1>2, <1>6, <1>9, LeaveQuiet DEF Quiet, LegalMove, TypeOK
<1> QED
  BY <1>7, <1>8, <1>9 DEF Delete

LEMMA TagQuiet ==
    ASSUME TypeOK, NEW l \in Loops, Tag(l)
    PROVE  Quiet /\ Typed
<1> DEFINE r == [att[job[l].a] EXCEPT !.reason = "other"]
<1>1. l \in Actors /\ "mark" \in PC \ {"prepare", "post"}
  BY DEF Actors, PC, JobPC
<1>2. Typed
  BY DeleteType, FaultType DEF Tag, TypeOK, Typed, lease
<1>3. att[job[l].a] \in AttemptRow
  BY <1>1, RowType, Literals
<1>4. r \in AttemptRow /\ r.status = att[job[l].a].status
  BY <1>3 DEF AttemptRow, Reason
<1>5. CASE Goto(l, "mark") /\ UNCHANGED <<state, att>>
  BY <1>1, <1>2, <1>5, GotoQuiet, AttKept DEF Quiet, LegalMove, TypeOK
<1>6. CASE att' = Put(l, r) /\ Leave(l) /\ UNCHANGED state
  <2>1. Put(l, r) \in RowTable /\ Kept(Put(l, r))
    BY <1>1, <1>4, PutKeeps
  <2> QED
    BY <1>1, <1>2, <1>6, <2>1, LeaveQuiet DEF Quiet, LegalMove, TypeOK
<1> QED
  BY <1>5, <1>6 DEF Tag

LEMMA MarkQuiet ==
    ASSUME TypeOK, NEW l \in Loops, Mark(l)
    PROVE  Quiet /\ Typed
<1> DEFINE verdict == TerminationVerdict(att[job[l].a])
<1>1. l \in Actors /\ "none" \in Reason
  BY DEF Actors, Reason
<1>2. verdict \in {"CANCELLED", "FAILED", "TIMED_OUT"}
  BY DEF TerminationVerdict
<1>3. Commit(l, verdict, Put(l, [Closed(l, verdict) EXCEPT !.reason = "none"]), Exit(l))
  BY DEF Mark
<1> HIDE DEF verdict
<1>4. verdict \in CaseState /\ verdict \in AttemptStatus /\ verdict # "NONE"
  BY <1>2, Literals
<1> QED
  BY <1>1, <1>3, <1>4, ReasonKeeps, ExitType, CommitQuiet, StutterTyped DEF Mark

\* Rewriting some rows with a status other than NONE takes no row away.
LEMMA RewriteKeeps ==
    ASSUME TypeOK, NEW rows \in RowTable,
           \A a \in Attempts : rows[a].status = att[a].status \/ rows[a].status # "NONE"
    PROVE  Kept(rows)
BY DEF Kept

LEMMA TerminateQuiet ==
    ASSUME TypeOK, NEW l \in Loops, Terminate(l)
    PROVE  Quiet /\ Typed
<1> DEFINE owners == ActiveAttempts(att) \cup {a \in Attempts : att[a].status = "BLOCKED"}
           called == {a \in owners : att[a].sid \/ att[a].sent}
           Ended(failing) ==
             [a \in Attempts |->
                IF a \in failing
                THEN [att[a] EXCEPT !.status = "TERMINATION_PENDING", !.reason = "cancel"]
                ELSE IF a \in owners
                THEN [att[a] EXCEPT !.status = "CANCELLED", !.reason = "none",
                                    !.finished = TRUE]
                ELSE att[a]]
<1>1. l \in Actors
  BY DEF Actors
<1>2. ASSUME NEW failing
      PROVE  Ended(failing) \in RowTable /\ Kept(Ended(failing))
  <2>1. \A a \in Attempts : att[a] \in AttemptRow
    BY DEF TypeOK
  <2>2. \A a \in Attempts :
          LET p == [att[a] EXCEPT !.status = "TERMINATION_PENDING", !.reason = "cancel"]
              c == [att[a] EXCEPT !.status = "CANCELLED", !.reason = "none",
                                  !.finished = TRUE]
          IN  /\ p \in AttemptRow /\ p.status = "TERMINATION_PENDING"
              /\ c \in AttemptRow /\ c.status = "CANCELLED"
    BY <2>1, Literals DEF AttemptRow, Reason
  <2> HIDE DEF owners
  <2>3. Ended(failing) \in RowTable
    BY <2>1, <2>2 DEF RowTable
  <2>4. \A a \in Attempts : Ended(failing)[a].status = att[a].status
                            \/ Ended(failing)[a].status # "NONE"
    BY <2>2
  <2> HIDE DEF Ended
  <2> QED
    BY <2>3, <2>4, RewriteKeeps
<1> HIDE DEF Ended
<1>3. Typed
  <2>1. \E S : remote' = DeleteSessions(S)
    BY DEF Terminate
  <2>2. UNCHANGED faults \/ Fault
    BY DEF Terminate
  <2>3. UNCHANGED <<lease, posts>>
    BY DEF Terminate
  <2> QED
    BY <2>1, <2>2, <2>3, DeleteType, FaultType DEF TypeOK, Typed, lease
<1>4. CASE Commit(l, "CANCELLED", Ended({}), Exit(l))
  BY <1>1, <1>2, <1>3, <1>4, Literals, ExitType, CommitQuiet
<1>5. CASE \E failing : att' = Ended(failing) /\ Leave(l) /\ UNCHANGED state
  BY <1>1, <1>2, <1>3, <1>5, LeaveQuiet DEF Quiet, LegalMove, TypeOK
<1> QED
  BY <1>4, <1>5 DEF Terminate, Ended

\* The session chosen for ingestion is a retained one that shows output.
LEMMA ChosenType ==
    ASSUME TypeOK, NEW errors, NEW got \in AllAnswers, WithOutput(errors, got) # {}
    PROVE  LET c == Chosen(WithOutput(errors, got), got)
           IN  c \in Attempts /\ got[c] \in Snapshot
<1> DEFINE output == WithOutput(errors, got)
           valid == {a \in output : got[a] = "Done"}
           S == IF valid # {} THEN valid ELSE output
<1>1. S \in SUBSET output /\ S # {}
  OBVIOUS
<1>2. output \in SUBSET Attempts
  BY DEF WithOutput, RetainedSessions
<1>3. Newest(S) \in output
  BY <1>1, <1>2, NewestIsMember
<1>4. Newest(S) = Chosen(output, got)
  BY DEF Chosen
<1> QED
  BY <1>2, <1>3, <1>4 DEF WithOutput, HasOutput, Visible, Snapshot, Stopped

LEMMA IngestingType ==
    ASSUME TypeOK, NEW pc \in PC, NEW view \in CaseState, NEW chosen \in Attempts,
           NEW got, got[chosen] \in Snapshot
    PROVE  /\ Ingesting(pc, view, chosen, got) \in Job
           /\ Ingesting(pc, view, chosen, got).pc = pc
BY IdleType, Literals DEF Ingesting, Job

LEMMA AnnotatedType ==
    ASSUME TypeOK, NEW errors, NEW got \in AllAnswers
    PROVE  Annotated(errors, got) \in RowTable /\ Kept(Annotated(errors, got))
<1>1. \A a \in Attempts : att[a] \in AttemptRow
  BY DEF TypeOK
<1>2. \A a \in Attempts : \A why \in {"other", "gone", "no_output"} :
        /\ [att[a] EXCEPT !.reason = why] \in AttemptRow
        /\ [att[a] EXCEPT !.reason = why].status = att[a].status
  BY <1>1 DEF AttemptRow, Reason
<1>3. \A a \in Attempts :
        \/ Annotated(errors, got)[a] = att[a]
        \/ \E why \in {"other", "gone", "no_output"} :
             Annotated(errors, got)[a] = [att[a] EXCEPT !.reason = why]
  BY DEF Annotated
<1>4. \A a \in Attempts : Annotated(errors, got)[a] \in AttemptRow
                          /\ Annotated(errors, got)[a].status = att[a].status
  <2> SUFFICES ASSUME NEW a \in Attempts
               PROVE  /\ Annotated(errors, got)[a] \in AttemptRow
                      /\ Annotated(errors, got)[a].status = att[a].status
    OBVIOUS
  <2>1. CASE Annotated(errors, got)[a] = att[a]
    BY <1>1, <2>1
  <2>2. ASSUME NEW why \in {"other", "gone", "no_output"},
               Annotated(errors, got)[a] = [att[a] EXCEPT !.reason = why]
        PROVE  /\ Annotated(errors, got)[a] \in AttemptRow
               /\ Annotated(errors, got)[a].status = att[a].status
    BY <1>2, <2>2, Zenon
  <2> QED
    BY <1>3, <2>1, <2>2
<1>5. Annotated(errors, got) = [a \in Attempts |-> Annotated(errors, got)[a]]
  BY DEF Annotated
<1> HIDE DEF Annotated
<1>6. Annotated(errors, got) \in RowTable
  BY <1>4, <1>5 DEF RowTable
<1> QED
  BY <1>4, <1>6, RewriteKeeps

LEMMA SupersededType ==
    ASSUME TypeOK, NEW chosen
    PROVE  Superseded(chosen) \in RowTable /\ Kept(Superseded(chosen))
<1>1. \A a \in Attempts : att[a] \in AttemptRow
  BY DEF TypeOK
<1>2. \A a \in Attempts :
        LET r == [att[a] EXCEPT !.status = "RUNNING", !.reason = "none"]
            c == [att[a] EXCEPT !.status = "CANCELLED"]
        IN  /\ r \in AttemptRow /\ r.status = "RUNNING"
            /\ c \in AttemptRow /\ c.status = "CANCELLED"
  BY <1>1, Literals DEF AttemptRow, Reason
<1>3. \A a \in Attempts :
        \/ Superseded(chosen)[a] = att[a]
        \/ Superseded(chosen)[a] = [att[a] EXCEPT !.status = "RUNNING", !.reason = "none"]
        \/ Superseded(chosen)[a] = [att[a] EXCEPT !.status = "CANCELLED"]
  BY DEF Superseded
<1>4. \A a \in Attempts :
        /\ Superseded(chosen)[a] \in AttemptRow
        /\ \/ Superseded(chosen)[a].status = att[a].status
           \/ Superseded(chosen)[a].status # "NONE"
  BY <1>1, <1>2, <1>3
<1>5. Superseded(chosen) = [a \in Attempts |-> Superseded(chosen)[a]]
  BY DEF Superseded
<1> HIDE DEF Superseded
<1>6. Superseded(chosen) \in RowTable
  BY <1>4, <1>5 DEF RowTable
<1> QED
  BY <1>4, <1>6, RewriteKeeps

LEMMA ReconcileBlockedQuiet ==
    ASSUME TypeOK, NEW l \in Loops, ReconcileBlocked(l)
    PROVE  Quiet /\ Typed
<1>1. l \in Actors /\ job[l].view \in CaseState /\ "ingest" \in PC
  BY DEF Actors, TypeOK, Job, PC, JobPC
<1>2. PICK errors \in SUBSET RetainedSessions(att), got \in AllAnswers :
        /\ IF errors = {} THEN UNCHANGED faults ELSE Fault
        /\ att' = Annotated(errors, got)
        /\ IF WithOutput(errors, got) = {} THEN Leave(l)
           ELSE job' = [job EXCEPT ![l] =
                  Ingesting("ingest", job[l].view,
                                     Chosen(WithOutput(errors, got), got), got)]
  BY DEF ReconcileBlocked
<1>3. Typed
  BY <1>2, FaultTyped, StutterTyped DEF ReconcileBlocked
<1>4. job' \in [Actors -> Job] /\ QuietJob
  <2>1. CASE WithOutput(errors, got) = {}
    BY <1>1, <1>2, <2>1, LeaveQuiet
  <2>2. CASE WithOutput(errors, got) # {}
    BY <1>1, <1>2, <2>2, ChosenType, IngestingType, JobQuiet DEF Creating
  <2> QED BY <2>1, <2>2
<1> QED
  BY <1>2, <1>3, <1>4, AnnotatedType DEF ReconcileBlocked, Quiet, LegalMove, TypeOK

LEMMA IngestQuiet ==
    ASSUME TypeOK, NEW l \in Actors, Ingest(l)
    PROVE  Quiet /\ Typed
<1> DEFINE next == [Then(l, "settle", "TRIAGING") EXCEPT !.mem = "RUNNING"]
<1>1. "settle" \in PC \ {"prepare", "post"}
  BY DEF PC, JobPC
<1>2. /\ Then(l, "settle", "TRIAGING") \in Job
      /\ Then(l, "settle", "TRIAGING").pc = "settle"
  BY <1>1, ThenType, Literals
<1>3. next \in Job /\ next.pc = "settle"
  BY <1>2, Literals DEF Job
<1> QED
  BY <1>3, Literals, SupersededType, CommitQuiet, StutterTyped DEF Ingest, Creating

LEMMA AbandonQuiet ==
    ASSUME TypeOK, NEW l \in Loops, Abandon(l)
    PROVE  Quiet /\ Typed
<1>1. \A a \in Attempts : att[a] \in AttemptRow
  BY DEF TypeOK
<1>2. \A a \in Attempts :
        LET c == [att[a] EXCEPT !.status = "CANCELLED", !.finished = TRUE]
        IN  c \in AttemptRow /\ c.status = "CANCELLED"
  BY <1>1, Literals DEF AttemptRow
<1>3. att' \in RowTable
  BY <1>1, <1>2 DEF Abandon, RowTable
<1>4. \A a \in Attempts : att'[a].status = att[a].status \/ att'[a].status # "NONE"
  BY <1>2 DEF Abandon
<1>5. Kept(att')
  BY <1>3, <1>4, RewriteKeeps
<1>6. l \in Actors
  BY DEF Actors
<1> QED
  BY <1>3, <1>5, <1>6, LeaveQuiet, StutterTyped DEF Abandon, Quiet, LegalMove, TypeOK

LEMMA ReleaseQuiet ==
    ASSUME TypeOK, NEW l \in Loops, Release(l)
    PROVE  Quiet /\ Typed
<1>1. l \in Actors
  BY DEF Actors
<1>2. job' \in [Actors -> Job] /\ QuietJob
  BY <1>1, IdleType, JobQuiet DEF Release, Creating
<1>3. claim' \in Loops \cup {NoOne} /\ leased' \in BOOLEAN
  <2>1. CASE claim = l
    <3>1. claim' = NoOne
      BY <2>1 DEF Release
    <3>2. leased' = (state \in {"TERMINATION_PENDING", "HUMAN_BLOCKED"})
      BY <2>1, Zenon DEF Release
    <3>3. leased' \in BOOLEAN
      <4>1. CASE state \in {"TERMINATION_PENDING", "HUMAN_BLOCKED"}
        BY <3>2, <4>1
      <4>2. CASE ~(state \in {"TERMINATION_PENDING", "HUMAN_BLOCKED"})
        BY <3>2, <4>2
      <4> QED
        BY <4>1, <4>2
    <3> QED
      BY <3>1, <3>3
  <2>2. CASE claim # l
    BY <2>2, Zenon DEF Release, TypeOK, lease
  <2> QED
    BY <2>1, <2>2
<1>4. UNCHANGED <<state, att, devin, faults>>
  BY DEF Release
<1>5. Typed
  BY <1>3, <1>4 DEF TypeOK, Typed, devin
<1> QED
  BY <1>2, <1>4, <1>5, AttKept DEF Quiet, LegalMove, TypeOK

LEMMA MarkFailedQuiet ==
    ASSUME TypeOK, NEW l \in Loops, MarkFailed(l)
    PROVE  Quiet /\ Typed
BY AttKept, FailCaseQuiet, StutterTyped DEF MarkFailed, Actors

LEMMA JobErrorQuiet ==
    ASSUME TypeOK, NEW l \in Loops, JobError(l)
    PROVE  Quiet /\ Typed
<1> DEFINE next == [job[l] EXCEPT !.pc = "mark_failed", !.view = state]
<1>1. l \in Actors
  BY DEF Actors
<1>2. next \in Job /\ next.pc = "mark_failed"
  BY <1>1 DEF TypeOK, Job, PC
<1>3. job' = [job EXCEPT ![l] = next]
  BY <1>1 DEF JobError, TypeOK
<1> QED
  BY <1>1, <1>2, <1>3, JobQuiet, AttKept, FaultTyped
  DEF JobError, Creating, Quiet, LegalMove, TypeOK

LEMMA DbErrorQuiet ==
    ASSUME TypeOK, NEW l \in Actors, DbError(l)
    PROVE  Quiet /\ Typed
BY LeaveQuiet, AttKept, FaultTyped DEF DbError, Quiet, LegalMove, TypeOK

LEMMA CrashQuiet ==
    ASSUME TypeOK, NEW l \in Loops, Crash(l)
    PROVE  Quiet /\ Typed
<1>1. l \in Actors
  BY DEF Actors
<1>2. job' \in [Actors -> Job] /\ QuietJob
  BY <1>1, IdleType, JobQuiet DEF Crash, Creating
<1>3. remote' = remote \/ \E S : remote' = DeleteSessions(S)
  BY DEF Crash
<1>4. Typed
  BY <1>3, DeleteType, FaultType DEF Crash, TypeOK, Typed, lease
<1> QED
  BY <1>2, <1>4, AttKept DEF Crash, Quiet, LegalMove, TypeOK

\* A step that leaves the jobs, the rows and the case's state alone is quiet.
LEMMA StillQuiet ==
    ASSUME TypeOK, UNCHANGED <<state, att, job>>
    PROVE  Quiet
BY AttKept DEF Quiet, LegalMove, QuietJob, TypeOK

LEMMA LeaseQuiet ==
    ASSUME TypeOK, LeaseLapses \/ \E l \in Loops : Stall(l) \/ Heartbeat(l)
    PROVE  Quiet /\ Typed
<1>1. UNCHANGED <<state, claim, att, devin, job>> /\ leased' \in BOOLEAN
  BY DEF LeaseLapses, Stall, Heartbeat
<1>2. UNCHANGED faults \/ Fault
  BY DEF LeaseLapses, Stall, Heartbeat
<1>3. Typed
  BY <1>1, <1>2, FaultType DEF TypeOK, Typed, devin
<1> QED
  BY <1>1, <1>3, StillQuiet

LEMMA CancelQuiet ==
    ASSUME TypeOK, Cancel
    PROVE  Quiet /\ Typed
<1>1. state' \in CaseState
  BY Literals DEF Cancel
<1> QED
  BY <1>1, AttKept, StutterTyped DEF Cancel, Quiet, LegalMove, QuietJob, TypeOK

LEMMA RetryQuiet ==
    ASSUME TypeOK, Retry
    PROVE  Quiet /\ Typed
<1>1. \A a \in Attempts : att[a] \in AttemptRow
  BY DEF TypeOK
<1>2. \A a \in Attempts :
        /\ [att[a] EXCEPT !.reason = "ack"] \in AttemptRow
        /\ [att[a] EXCEPT !.reason = "ack"].status = att[a].status
  BY <1>1 DEF AttemptRow, Reason
<1>3. att' \in RowTable
  BY <1>1, <1>2 DEF Retry, RowTable
<1>4. \A a \in Attempts : att'[a].status = att[a].status \/ att'[a].status # "NONE"
  BY <1>2 DEF Retry
<1>5. Kept(att')
  BY <1>3, <1>4, RewriteKeeps
<1> QED
  BY <1>3, <1>5, Literals, StutterTyped DEF Retry, Quiet, LegalMove, QuietJob, TypeOK

LEMMA ReconcileSessionQuiet ==
    ASSUME TypeOK, ReconcileSession
    PROVE  Quiet /\ Typed
<1>1. PICK errors \in SUBSET RetainedSessions(att), got \in AllAnswers :
        LET output == WithOutput(errors, got)
            locked == output = RetainedSessions(att)
        IN  /\ IF errors = {} THEN UNCHANGED faults ELSE Fault
            /\ \/ output = {} /\ att' = Annotated(errors, got) /\ UNCHANGED <<state, job>>
               \/ /\ output # {}
                  /\ att' = IF locked THEN Superseded(Chosen(output, got))
                           ELSE Annotated(errors, got)
                  /\ state' = IF locked THEN "TRIAGING" ELSE state
                  /\ job' = [job EXCEPT ![Operator] =
                       IF locked
                       THEN [Ingesting("settle", "TRIAGING", Chosen(output, got), got)
                               EXCEPT !.mem = "RUNNING"]
                       ELSE Ingesting("ingest", state, Chosen(output, got), got)]
  BY DEF ReconcileSession
<1>2. Typed
  BY <1>1, FaultTyped, StutterTyped DEF ReconcileSession
<1>3. CASE WithOutput(errors, got) = {}
  <2>1. att' = Annotated(errors, got) /\ UNCHANGED <<state, job>>
    BY <1>1, <1>3
  <2> QED
    BY <1>2, <2>1, AnnotatedType DEF Quiet, LegalMove, QuietJob, TypeOK
<1>4. CASE WithOutput(errors, got) # {}
  <2> DEFINE c == Chosen(WithOutput(errors, got), got)
             settle == [Ingesting("settle", "TRIAGING", c, got) EXCEPT !.mem = "RUNNING"]
             ingest == Ingesting("ingest", state, c, got)
  <2>1. Operator \in Actors /\ {"settle", "ingest"} \subseteq PC /\ state \in CaseState
    BY DEF Actors, PC, JobPC, TypeOK
  <2>2. c \in Attempts /\ got[c] \in Snapshot
    BY <1>4, ChosenType
  <2>3. att' \in {Superseded(c), Annotated(errors, got)} /\ state' \in {"TRIAGING", state}
    BY <1>1, <1>4
  <2>4. job' = [job EXCEPT ![Operator] = settle] \/ job' = [job EXCEPT ![Operator] = ingest]
    BY <1>1, <1>4
  <2> HIDE DEF c
  <2>5. ingest \in Job /\ ingest.pc = "ingest"
    BY <2>1, <2>2, IngestingType
  <2>6. /\ Ingesting("settle", "TRIAGING", c, got) \in Job
        /\ Ingesting("settle", "TRIAGING", c, got).pc = "settle"
    BY <2>1, <2>2, Literals, IngestingType
  <2>7. settle \in Job /\ settle.pc = "settle"
    BY <2>6, Literals DEF Job
  <2>8. job' \in [Actors -> Job] /\ QuietJob
    BY <2>1, <2>4, <2>5, <2>7, JobQuiet DEF Creating
  <2>9. LegalMove
    <3>1. state = "HUMAN_BLOCKED"
      BY DEF ReconcileSession
    <3>2. "TRIAGING" \in TRANSITIONS["HUMAN_BLOCKED"]
      BY Literals DEF TRANSITIONS, BASE_TRANSITIONS
    <3> QED
      BY <2>3, <3>1, <3>2 DEF LegalMove
  <2> QED
    BY <1>2, <2>1, <2>3, <2>8, <2>9, Literals, AnnotatedType, SupersededType DEF Quiet
<1> QED
  BY <1>3, <1>4

LEMMA DevinQuiet ==
    ASSUME TypeOK, NEW a \in Attempts, Land(a) \/ SessionStep(a)
    PROVE  Quiet /\ Typed
<1>1. \E s \in Session : remote' = [remote EXCEPT ![a] = s]
  BY DEF Land, SessionStep, Session, Visible, Snapshot, Stopped
<1>2. UNCHANGED <<state, lease, att, posts, job, faults>>
  BY DEF Land, SessionStep
<1>3. Typed
  BY <1>1, <1>2 DEF TypeOK, Typed, lease
<1> QED
  BY <1>2, <1>3, StillQuiet

LEMMA ExpireQuiet ==
    ASSUME TypeOK, NEW a \in Attempts, Expire(a)
    PROVE  Quiet /\ Typed
<1> DEFINE r == [att[a] EXCEPT !.late = TRUE]
<1>1. r \in AttemptRow /\ r.status = att[a].status
  BY DEF TypeOK, AttemptRow
<1>2. att' = [att EXCEPT ![a] = r]
  BY DEF Expire, TypeOK
<1> HIDE DEF r
<1>3. att' \in RowTable
  BY <1>1, <1>2 DEF TypeOK, RowTable
<1>4. Kept(att')
  BY <1>1, <1>2 DEF TypeOK, Kept
<1> QED
  BY <1>3, <1>4, StutterTyped DEF Expire, Quiet, LegalMove, QuietJob, TypeOK
-----------------------------------------------------------------------------
(***************************************************************************)
(* The invariant, which Insert, Prepare and Send disturb and restore.       *)
(***************************************************************************)
OneCreateInv == TypeOK /\ OneCreatePerKey /\ FreshCreates

LEMMA InvInit == Init => OneCreateInv
<1> SUFFICES ASSUME Init PROVE OneCreateInv
  OBVIOUS
<1>1. NoRow \in AttemptRow /\ NoRow.status = "NONE"
  BY DEF NoRow, AttemptRow, AttemptStatus, Reason
<1>2. TypeOK
  <2>1. state \in CaseState
    BY Literals DEF Init
  <2>2. claim \in Loops \cup {NoOne} /\ leased \in BOOLEAN
    BY Zenon DEF Init
  <2>3. att \in [Attempts -> AttemptRow]
    BY <1>1 DEF Init
  <2>4. remote \in [Attempts -> Session] /\ posts \in [Attempts -> Nat]
    BY DEF Init, Session
  <2>5. job \in [Actors -> Job] /\ faults \in 0..MaxFaults
    BY IdleType, ConstantsAssumption DEF Init
  <2> QED
    BY <2>1, <2>2, <2>3, <2>4, <2>5 DEF TypeOK
<1>3. OneCreatePerKey
  BY DEF Init, OneCreatePerKey
<1>4. FreshCreates
  BY IdleType DEF Init, FreshCreates, Creating
<1> QED
  BY <1>2, <1>3, <1>4 DEF OneCreateInv

LEMMA QuietPreserves ==
    ASSUME OneCreateInv, Quiet, Typed
    PROVE  OneCreateInv' /\ LegalMove
<1>1. TypeOK'
  BY DEF OneCreateInv, TypeOK, Quiet, Typed, RowTable
<1>2. OneCreatePerKey'
  BY DEF OneCreateInv, OneCreatePerKey, Typed
<1>3. FreshCreates'
  <2>1. \A a \in Attempts : att'[a].status = "NONE" => posts'[a] = 0
    BY DEF OneCreateInv, FreshCreates, Quiet, Typed, Kept
  <2>2. \A l \in Actors : Creating(job'[l]) =>
          posts'[job'[l].a] = 0 /\ att'[job'[l].a].status # "NONE"
    <3> SUFFICES ASSUME NEW l \in Actors, Creating(job'[l])
                 PROVE  posts'[job'[l].a] = 0 /\ att'[job'[l].a].status # "NONE"
      OBVIOUS
    <3>1. Creating(job[l]) /\ job'[l].a = job[l].a
      BY DEF Quiet, QuietJob
    <3>2. job[l].a \in Attempts
      BY DEF OneCreateInv, TypeOK, Job
    <3>3. posts[job[l].a] = 0 /\ att[job[l].a].status # "NONE"
      BY <3>1 DEF OneCreateInv, FreshCreates
    <3> QED
      BY <3>1, <3>2, <3>3 DEF Quiet, Typed, Kept
  <2>3. \A l, k \in Actors :
          Creating(job'[l]) /\ Creating(job'[k]) /\ job'[l].a = job'[k].a => l = k
    BY DEF OneCreateInv, FreshCreates, Quiet, QuietJob
  <2> QED
    BY <2>1, <2>2, <2>3 DEF FreshCreates, Creating
<1> QED
  BY <1>1, <1>2, <1>3 DEF OneCreateInv, Quiet

\* The insert takes a key without a row, hence without a POST or a creator.
LEMMA InsertPreserves ==
    ASSUME OneCreateInv, NEW l \in Loops, Insert(l)
    PROVE  OneCreateInv' /\ LegalMove
<1> USE DEF OneCreateInv
<1>1. CASE ~Goto(l, "prepare")
  BY <1>1, DuplicateQuiet, QuietPreserves
<1>2. CASE Goto(l, "prepare")
  <2> DEFINE a == job[l].a
             r == [NoRow EXCEPT !.status = "RUNNING"]
             next == [job[l] EXCEPT !.pc = "prepare"]
  <2>1. l \in Actors /\ job[l] \in Job /\ a \in Attempts
    BY DEF Actors, TypeOK, Job
  <2>2. job' = [job EXCEPT ![l] = next] /\ next \in Job /\ next.a = a /\ next.pc = "prepare"
    BY <1>2, <2>1 DEF Goto, TypeOK, Job, PC, JobPC
  <2>3. att[a].status = "NONE" /\ att' = [att EXCEPT ![a] = r]
    <3>1. job'[l].pc = "prepare"
      BY <2>1, <2>2 DEF TypeOK
    <3>2. job' # [job EXCEPT ![l] = Idle]
      BY <2>1, <3>1, IdleType DEF TypeOK
    <3> QED
      BY <2>1, <3>2 DEF Insert, Rows, Put
  <2>4. r \in AttemptRow /\ r.status = "RUNNING"
    BY Literals DEF NoRow, AttemptRow, Reason
  <2> HIDE DEF r, next
  <2>5. att' \in [Attempts -> AttemptRow] /\ job' \in [Actors -> Job]
    BY <2>1, <2>2, <2>3, <2>4 DEF TypeOK
  <2>6. UNCHANGED <<state, claim, leased, remote, posts, faults>>
    BY DEF Insert, lease, devin
  <2>7. TypeOK'
    BY <2>5, <2>6 DEF TypeOK
  <2>8. OneCreatePerKey'
    BY <2>6 DEF OneCreatePerKey
  <2>9. FreshCreates'
    <3>1. posts[a] = 0 /\ \A k \in Actors : Creating(job[k]) => job[k].a # a
      BY <2>1, <2>3 DEF FreshCreates
    <3>2. job'[l] = next /\ \A k \in Actors \ {l} : job'[k] = job[k]
      BY <2>1, <2>2 DEF TypeOK
    <3>3. att'[a].status # "NONE" /\ \A b \in Attempts \ {a} : att'[b] = att[b]
      BY <2>1, <2>3, <2>4 DEF TypeOK
    <3>4. \A k \in Actors : job[k].a \in Attempts
      BY DEF TypeOK, Job
    <3>5. \A b \in Attempts : att'[b].status = "NONE" => posts'[b] = 0
      BY <2>6, <3>3 DEF FreshCreates
    <3>6. \A k \in Actors : Creating(job'[k]) =>
            posts'[job'[k].a] = 0 /\ att'[job'[k].a].status # "NONE"
      BY <2>2, <2>6, <3>1, <3>2, <3>3, <3>4 DEF FreshCreates
    <3>7. \A j, k \in Actors :
            Creating(job'[j]) /\ Creating(job'[k]) /\ job'[j].a = job'[k].a => j = k
      BY <2>2, <3>1, <3>2 DEF FreshCreates
    <3> QED
      BY <3>5, <3>6, <3>7 DEF FreshCreates, Creating
  <2> QED
    BY <2>6, <2>7, <2>8, <2>9 DEF LegalMove
<1> QED
  BY <1>1, <1>2

\* From the insert to the POST the creator keeps its key.
LEMMA PreparePreserves ==
    ASSUME OneCreateInv, NEW l \in Loops, Prepare(l)
    PROVE  OneCreateInv' /\ LegalMove
<1>1. CASE ~Goto(l, "post")
  BY <1>1, RefusedPrepareQuiet, QuietPreserves DEF OneCreateInv
<1>2. CASE Goto(l, "post")
  <2> DEFINE r == [att[job[l].a] EXCEPT !.sent = TRUE]
             next == [job[l] EXCEPT !.pc = "post"]
  <2>1. TypeOK /\ l \in Actors /\ job[l] \in Job /\ job[l].a \in Attempts
        /\ job[l].pc = "prepare"
    BY DEF Prepare, At, OneCreateInv, Actors, TypeOK, Job
  <2>2. job' = [job EXCEPT ![l] = next] /\ next \in Job /\ next.a = job[l].a /\ next.pc = "post"
    BY <1>2, <2>1 DEF Goto, TypeOK, Job, PC, JobPC
  <2>3. QuietJob /\ job' \in [Actors -> Job]
    BY <2>1, <2>2 DEF QuietJob, Creating, TypeOK
  <2>4. CASE att' = Put(l, r) /\ UNCHANGED <<state, faults>>
    <3>1. att[job[l].a] \in AttemptRow
      BY <2>1 DEF TypeOK
    <3>2. r \in AttemptRow /\ r.status = att[job[l].a].status
      BY <3>1 DEF AttemptRow
    <3>3. Put(l, r) \in RowTable /\ Kept(Put(l, r))
      BY <2>1, <3>2, PutKeeps
    <3>4. Typed
      BY <2>1, <2>4, StutterTyped DEF Prepare
    <3> QED
      BY <2>1, <2>3, <2>4, <3>3, <3>4, QuietPreserves DEF Quiet, LegalMove, TypeOK
  <2>5. CASE FailCase(l, Put(l, Closed(l, "FAILED"))) /\ Fault
    BY <2>1, <2>5, Literals, ClosedKeeps, FailCaseQuiet, FaultTyped, QuietPreserves
       DEF Prepare
  <2> QED
    BY <2>4, <2>5 DEF Prepare
<1> QED
  BY <1>1, <1>2

\* The one POST for a key is made by its only creator, which stops being one.
LEMMA SendPreserves ==
    ASSUME OneCreateInv, NEW l \in Loops, Send(l)
    PROVE  OneCreateInv' /\ LegalMove
<1> DEFINE a == job[l].a
           next == [job[l] EXCEPT !.pc = "posted"]
<1>1. TypeOK /\ l \in Actors /\ job[l] \in Job /\ a \in Attempts /\ Creating(job[l])
  BY DEF Send, At, OneCreateInv, Actors, TypeOK, Job, Creating
<1>2. /\ posts[a] = 0 /\ att[a].status # "NONE"
      /\ \A k \in Actors \ {l} : Creating(job[k]) => job[k].a # a
  BY <1>1 DEF OneCreateInv, FreshCreates
<1>3. job' = [job EXCEPT ![l] = next] /\ next \in Job /\ next.pc = "posted"
  BY <1>1 DEF Send, Goto, TypeOK, Job, PC, JobPC
<1>4. posts' = [posts EXCEPT ![a] = 1] /\ remote' = [remote EXCEPT ![a] = "InFlight"]
  BY <1>1, <1>2 DEF Send, TypeOK
<1>5. UNCHANGED <<state, claim, leased, att, faults>>
  BY DEF Send, lease
<1>6. TypeOK'
  <2>1. remote' \in [Attempts -> Session] /\ posts' \in [Attempts -> Nat]
    BY <1>1, <1>4 DEF TypeOK, Session
  <2>2. job' \in [Actors -> Job]
    BY <1>1, <1>3 DEF TypeOK
  <2> QED
    BY <1>1, <1>5, <2>1, <2>2 DEF TypeOK
<1>7. OneCreatePerKey'
  BY <1>1, <1>4 DEF OneCreateInv, OneCreatePerKey, TypeOK
<1>8. FreshCreates'
  <2>1. posts'[a] = 1 /\ \A b \in Attempts \ {a} : posts'[b] = posts[b]
    BY <1>1, <1>4 DEF TypeOK
  <2>2. ~Creating(job'[l]) /\ \A k \in Actors \ {l} : job'[k] = job[k]
    BY <1>1, <1>3 DEF TypeOK, Creating
  <2>3. \A k \in Actors : job[k].a \in Attempts
    BY <1>1 DEF TypeOK, Job
  <2>4. \A b \in Attempts : att'[b].status = "NONE" => posts'[b] = 0
    BY <1>2, <1>5, <2>1 DEF OneCreateInv, FreshCreates
  <2>5. \A k \in Actors : Creating(job'[k]) =>
          posts'[job'[k].a] = 0 /\ att'[job'[k].a].status # "NONE"
    BY <1>2, <1>5, <2>1, <2>2, <2>3 DEF OneCreateInv, FreshCreates
  <2>6. \A j, k \in Actors :
          Creating(job'[j]) /\ Creating(job'[k]) /\ job'[j].a = job'[k].a => j = k
    BY <2>2 DEF OneCreateInv, FreshCreates
  <2> QED
    BY <2>4, <2>5, <2>6 DEF FreshCreates, Creating
<1> QED
  BY <1>5, <1>6, <1>7, <1>8 DEF OneCreateInv, LegalMove
-----------------------------------------------------------------------------
LEMMA InvNext == OneCreateInv /\ [Next]_vars => OneCreateInv' /\ LegalMove
<1> SUFFICES ASSUME OneCreateInv, [Next]_vars PROVE OneCreateInv' /\ LegalMove
  OBVIOUS
<1>1. TypeOK
  BY DEF OneCreateInv
<1>2. ASSUME NEW l \in Actors, SharedStep(l)
      PROVE  OneCreateInv' /\ LegalMove
  BY <1>1, <1>2, IngestQuiet, SettleQuiet, FinishQuiet, QuietPreserves DEF SharedStep
<1>3. ASSUME NEW l \in Loops, LoopStep(l)
      PROVE  OneCreateInv' /\ LegalMove
  <2>1. CASE \/ Claim(l) \/ Evaluate(l) \/ Verdict(l) \/ RunNew(l) \/ RunResume(l)
             \/ Create(l) \/ PostOk(l) \/ PostRejected(l) \/ PostLost(l)
    BY <1>1, <2>1, ClaimQuiet, EvaluateQuiet, VerdictQuiet, RunNewQuiet, RunResumeQuiet,
       CreateQuiet, PostOkQuiet, PostRejectedQuiet, PostLostQuiet, QuietPreserves
  <2>2. CASE \/ Attach(l) \/ Orphan(l) \/ Reconcile(l) \/ Lookup(l) \/ Poll(l) \/ Get(l)
    BY <1>1, <2>2, AttachQuiet, OrphanQuiet, ReconcileQuiet, LookupQuiet, PollQuiet,
       GetQuiet, QuietPreserves
  <2>3. CASE \/ FinalGet(l) \/ Delete(l) \/ Tag(l) \/ Mark(l) \/ Terminate(l)
    BY <1>1, <2>3, FinalGetQuiet, DeleteQuiet, TagQuiet, MarkQuiet, TerminateQuiet,
       QuietPreserves
  <2>4. CASE ReconcileBlocked(l) \/ Abandon(l) \/ Release(l) \/ MarkFailed(l)
    BY <1>1, <2>4, ReconcileBlockedQuiet, AbandonQuiet, ReleaseQuiet, MarkFailedQuiet,
       QuietPreserves
  <2>5. CASE Insert(l)
    BY <2>5, InsertPreserves
  <2>6. CASE Prepare(l)
    BY <2>6, PreparePreserves
  <2>7. CASE Send(l)
    BY <2>7, SendPreserves
  <2>8. CASE SharedStep(l)
    BY <1>2, <2>8 DEF Actors
  <2> QED
    BY <1>3, <2>1, <2>2, <2>3, <2>4, <2>5, <2>6, <2>7, <2>8 DEF LoopStep
<1>4. ASSUME NEW l \in Loops, LoopFault(l) \/ Heartbeat(l)
      PROVE  OneCreateInv' /\ LegalMove
  BY <1>1, <1>4, JobErrorQuiet, DbErrorQuiet, CrashQuiet, LeaseQuiet, QuietPreserves
     DEF LoopFault, Actors
<1>5. CASE OperatorStep
  <2>1. Operator \in Actors
    BY DEF Actors
  <2>2. CASE SharedStep(Operator)
    BY <1>2, <2>1, <2>2
  <2> QED
    BY <1>1, <1>5, <2>1, <2>2, CancelQuiet, RetryQuiet, ReconcileSessionQuiet,
       DbErrorQuiet, QuietPreserves DEF OperatorStep
<1>6. CASE Environment
  BY <1>1, <1>6, LeaseQuiet, DevinQuiet, ExpireQuiet, QuietPreserves DEF Environment
<1>7. CASE UNCHANGED vars
  BY <1>7 DEF vars, LegalMove, OneCreateInv, TypeOK, OneCreatePerKey, FreshCreates, Creating
<1> QED
  BY <1>3, <1>4, <1>5, <1>6, <1>7 DEF Next

\* Every variable keeps its type, whatever the loops, the operator, the faults and
\* Devin do, for any number of loops and attempts.
THEOREM TypeCorrect == Spec => []TypeOK
<1>1. OneCreateInv => TypeOK
  BY DEF OneCreateInv
<1> QED
  BY InvInit, InvNext, <1>1, PTL DEF Spec

\* No operation key is ever POSTed twice (create_sent_at is committed before the
\* POST, an interrupted create is only looked up), stalls and crashes included.
THEOREM CreateOnce == Spec => []OneCreatePerKey
<1>1. OneCreateInv => OneCreatePerKey
  BY DEF OneCreateInv
<1> QED
  BY InvInit, InvNext, <1>1, PTL DEF Spec

\* From its insert to its POST, an attempt belongs to one loop and is unsent.
THEOREM CreatesAreFresh == Spec => []FreshCreates
<1>1. OneCreateInv => FreshCreates
  BY DEF OneCreateInv
<1> QED
  BY InvInit, InvNext, <1>1, PTL DEF Spec

\* Each change of Case.state is an edge from the state the row is in, whatever the
\* job that makes it last read: transition()'s compare-and-set, and the row locks
\* of the operator's endpoints.
THEOREM MovesAreLegal == Spec => OnlyLegalMoves
<1>1. OneCreateInv /\ [Next]_vars => LegalMove
  BY InvNext
<1> QED
  BY InvInit, InvNext, <1>1, PTL DEF Spec, OnlyLegalMoves
-----------------------------------------------------------------------------
(***************************************************************************)
(* An approval rests on a stored output.  While nobody resumes it, a session *)
(* that has reported its end changes no more, except that it may be deleted; *)
(* so two jobs that settle one attempt, a stalled loop and the operator      *)
(* included, agree on how it ended, and none withdraws the output the other  *)
(* stored.  Resumed or not, it has stopped once (SnapshotsHold).             *)
(***************************************************************************)
Final == {"Done", "Invalid", "Ended", "Errored"}

\* The job acts on a snapshot it took earlier.
Reading(j) == j.pc \in {"ingest", "settle", "finish"}

\* A key that was not used has no session.
UnusedIsAbsent == \A a \in Attempts : posts[a] = 0 => remote[a] = "Absent"

\* What becomes of a session that reported s.
Held(s) == {s, "Deleted"} \cup (IF MayResume THEN {"Resumed"} ELSE {})

Unresumed == ~MayResume => \A a \in Attempts : remote[a] # "Resumed"

SnapshotHolds(j) ==
    /\ Reading(j) /\ j.seen \in Final => remote[j.a] \in Held(j.seen)
    /\ j.pc = "finish" => j.seen \in {"Done", "Invalid", "Ended"}
    /\ j.pc = "ingest" => j.seen \in HasOutput

SnapshotsHold == \A l \in Actors : SnapshotHolds(job[l])

Agree(i, j) ==
    /\ ~MayResume
    /\ Reading(i) /\ Reading(j) /\ i.a = j.a /\ i.seen \in Final /\ j.seen \in Final
    => i.seen = j.seen

SnapshotsAgree == \A l, k \in Actors : Agree(job[l], job[k])

\* A stored output comes from a finished session, and no job saw another end.
Stored(a) == att[a].out = "valid"

NotWithdrawn(a, j) ==
    ~MayResume /\ Reading(j) /\ j.a = a /\ j.seen \in Final => j.seen = "Done"

OutputsStay ==
    \A a \in Attempts : Stored(a) =>
        /\ att[a].finished
        /\ remote[a] \in Held("Done")
        /\ \A l \in Actors : NotWithdrawn(a, job[l])

DoneIsStored ==
    ~MayResume =>
        \A l \in Actors : job[l].pc = "finish" /\ job[l].seen = "Done" => Stored(job[l].a)

AwaitingIsStored ==
    ~MayResume /\ state = "AWAITING_REMEDIATION_APPROVAL" => \E a \in Attempts : Stored(a)

OutputInv ==
    /\ UnusedIsAbsent /\ Unresumed /\ SnapshotsHold /\ SnapshotsAgree
    /\ OutputsStay /\ DoneIsStored /\ AwaitingIsStored

\* Most steps are calm: they store and withdraw no output, take no snapshot and ask
\* for no approval.
CalmRows(rows) ==
    \A a \in Attempts :
        /\ rows[a].out = "valid" => att[a].out = "valid"
        /\ ~MayResume /\ att[a].out = "valid" => rows[a].out = "valid"
        /\ att[a].out = "valid" /\ att[a].finished => rows[a].finished

CalmJob(j, n) ==
    Reading(n) => /\ Reading(j) /\ n.a = j.a /\ n.seen = j.seen
                  /\ n.pc = "finish" => j.pc = "finish"
                  /\ n.pc = "ingest" => j.pc = "ingest"

CalmJobs == \A k \in Actors : CalmJob(job[k], job'[k])

CalmSession(s, t) ==
    /\ s \in Final => t \in Held(s)
    /\ s \in {"Resumed", "Deleted"} => t \in {s, "Deleted"}
    /\ t = "Resumed" => s = "Resumed" \/ MayResume

CalmDevin ==
    \A a \in Attempts :
        /\ posts'[a] = 0 => posts[a] = 0 /\ (remote[a] = "Absent" => remote'[a] = "Absent")
        /\ CalmSession(remote[a], remote'[a])

CalmState ==
    state' = "AWAITING_REMEDIATION_APPROVAL" => state = "AWAITING_REMEDIATION_APPROVAL"

Calm == CalmRows(att') /\ CalmJobs /\ CalmState

LEMMA CalmButState ==
    ASSUME TypeOK, OutputInv, CalmRows(att'), CalmJobs, CalmDevin
    PROVE  /\ (UnusedIsAbsent /\ Unresumed /\ SnapshotsHold /\ SnapshotsAgree)'
           /\ (OutputsStay /\ DoneIsStored)'
<1>1. \A k \in Actors : job[k].a \in Attempts
  BY DEF TypeOK, Job
<1>2. \A a \in Attempts :
        /\ att'[a].out = "valid" => att[a].out = "valid"
        /\ ~MayResume /\ att[a].out = "valid" => att'[a].out = "valid"
        /\ att[a].out = "valid" /\ att[a].finished => att'[a].finished
  BY DEF CalmRows
<1>3. \A k \in Actors : CalmJob(job[k], job'[k])
  BY DEF CalmJobs
<1>4. \A a \in Attempts : CalmSession(remote[a], remote'[a])
  BY DEF CalmDevin
<1>5. UnusedIsAbsent' /\ Unresumed'
  BY <1>4 DEF OutputInv, UnusedIsAbsent, Unresumed, CalmDevin, CalmSession
<1>6. SnapshotsHold'
  <2> SUFFICES ASSUME NEW k \in Actors PROVE SnapshotHolds(job[k])'
    BY DEF SnapshotsHold
  <2>1. SnapshotHolds(job[k])
    BY DEF OutputInv, SnapshotsHold
  <2>2. CalmJob(job[k], job'[k]) /\ CalmSession(remote[job[k].a], remote'[job[k].a])
    BY <1>1, <1>3, <1>4
  <2> QED
    BY <2>1, <2>2 DEF SnapshotHolds, CalmJob, CalmSession, Reading, Final, Held
<1>7. SnapshotsAgree'
  <2> SUFFICES ASSUME NEW k \in Actors, NEW l \in Actors PROVE Agree(job[l], job[k])'
    BY DEF SnapshotsAgree
  <2>1. Agree(job[l], job[k]) /\ CalmJob(job[k], job'[k]) /\ CalmJob(job[l], job'[l])
    BY <1>3 DEF OutputInv, SnapshotsAgree
  <2> QED
    BY <2>1 DEF Agree, CalmJob
<1>8. OutputsStay'
  <2> SUFFICES ASSUME NEW a \in Attempts, Stored(a)'
               PROVE  (/\ att[a].finished
                       /\ remote[a] \in Held("Done")
                       /\ \A l \in Actors : NotWithdrawn(a, job[l]))'
    BY DEF OutputsStay
  <2>1. Stored(a)
    BY <1>2 DEF Stored
  <2>2. /\ att[a].finished /\ remote[a] \in Held("Done")
        /\ \A l \in Actors : NotWithdrawn(a, job[l])
    BY <2>1 DEF OutputInv, OutputsStay
  <2>3. ASSUME NEW l \in Actors PROVE NotWithdrawn(a, job[l])'
    <3>1. CalmJob(job[l], job'[l]) /\ NotWithdrawn(a, job[l])
      BY <1>3, <2>2
    <3> QED
      BY <3>1 DEF CalmJob, NotWithdrawn
  <2> QED
    BY <1>2, <1>4, <2>1, <2>2, <2>3 DEF CalmSession, Final, Stored, Held
<1>9. DoneIsStored'
  BY <1>1, <1>2, <1>3 DEF OutputInv, DoneIsStored, CalmJob, Reading, Stored
<1> QED
  BY <1>5, <1>6, <1>7, <1>8, <1>9

LEMMA CalmPreserves ==
    ASSUME TypeOK, OutputInv, Calm, CalmDevin
    PROVE  OutputInv'
<1>1. AwaitingIsStored'
  BY DEF OutputInv, AwaitingIsStored, Stored, Calm, CalmRows, CalmState
<1> QED
  BY <1>1, CalmButState DEF OutputInv, Calm

\* The transactions actions are built from.
LEMMA ResumesNothing ==
    ASSUME NEW l \in Actors
    PROVE  /\ Exit(l).pc \in {"idle", "release"}
           /\ Lost(l).pc \in {"idle", "release", "abandon"}
BY IdleType DEF Exit, Lost, Job

LEMMA JobCalm ==
    ASSUME TypeOK, NEW l \in Actors, NEW n, CalmJob(job[l], n),
           job' = [job EXCEPT ![l] = n]
    PROVE  CalmJobs
BY DEF TypeOK, CalmJobs, CalmJob

LEMMA CommitCalm ==
    ASSUME TypeOK, NEW l \in Actors, NEW to, to # "AWAITING_REMEDIATION_APPROVAL",
           NEW rows, CalmRows(rows), NEW n, CalmJob(job[l], n), Commit(l, to, rows, n)
    PROVE  Calm
<1>1. CalmJob(job[l], Lost(l))
  BY ResumesNothing DEF CalmJob, Reading
<1>2. CalmRows(att)
  BY DEF CalmRows
<1> QED
  BY <1>1, <1>2, JobCalm DEF Commit, Calm, CalmState

LEMMA LeaveCalm ==
    ASSUME TypeOK, NEW l \in Actors, Leave(l)
    PROVE  CalmJobs
<1>1. CalmJob(job[l], Exit(l))
  BY ResumesNothing DEF CalmJob, Reading
<1> QED
  BY <1>1, JobCalm DEF Leave

LEMMA GotoCalm ==
    ASSUME TypeOK, NEW l \in Actors, NEW pc, pc \notin {"ingest", "settle", "finish"},
           Goto(l, pc)
    PROVE  CalmJobs
<1>1. CalmJob(job[l], [job[l] EXCEPT !.pc = pc])
  BY DEF TypeOK, Job, CalmJob, Reading
<1> QED
  BY <1>1, JobCalm DEF Goto, TypeOK

LEMMA ParkCalm ==
    ASSUME NEW rows \in RowTable, CalmRows(rows)
    PROVE  CalmRows(ParkForTermination(rows))
BY DEF ParkForTermination, CalmRows, RowTable, AttemptRow

LEMMA FailCaseCalm ==
    ASSUME TypeOK, NEW l \in Actors, NEW rows \in RowTable, CalmRows(rows),
           FailCase(l, rows)
    PROVE  Calm
<1>1. CalmRows(ParkForTermination(rows))
  BY ParkCalm
<1>2. CalmJob(job[l], Exit(l))
  BY ResumesNothing DEF CalmJob, Reading
<1>3. CASE \/ Commit(l, "FAILED", rows, Exit(l))
           \/ Commit(l, "TERMINATION_PENDING", ParkForTermination(rows), Exit(l))
  BY <1>1, <1>2, <1>3, CommitCalm
<1>4. CASE /\ att' \in {rows, ParkForTermination(rows)}
           /\ Leave(l)
           /\ UNCHANGED state
  BY <1>1, <1>4, LeaveCalm DEF Calm, CalmState
<1> QED
  BY <1>3, <1>4 DEF FailCase

\* The row of l's attempt after a change of its status: the other columns stay.
LEMMA RowFields ==
    ASSUME TypeOK, NEW l \in Actors, NEW s \in AttemptStatus
    PROVE  LET q == att[job[l].a]
               r == Row(l, s)
               c == Closed(l, s)
           IN  /\ job[l] \in Job /\ job[l].a \in Attempts /\ q \in AttemptRow
               /\ r \in AttemptRow /\ c \in AttemptRow
               /\ r.status = IF job[l].mem = s THEN q.status ELSE s
               /\ c.status = r.status
               /\ r.sid = q.sid /\ c.sid = q.sid
               /\ r.sent = q.sent /\ c.sent = q.sent
               /\ r.out = q.out /\ c.out = q.out
               /\ r.unresolved = q.unresolved /\ c.unresolved = q.unresolved
               /\ r.finished = q.finished /\ c.finished = TRUE
<1>1. job[l] \in Job
  BY DEF TypeOK
<1>2. job[l].a \in Attempts
  BY <1>1 DEF Job
<1>3. att[job[l].a] \in AttemptRow
  BY <1>2 DEF TypeOK
<1> DEFINE q == att[job[l].a]
           r == Row(l, s)
<1>4. /\ r \in AttemptRow
      /\ r.status = IF job[l].mem = s THEN q.status ELSE s
      /\ r.sid = q.sid /\ r.sent = q.sent /\ r.out = q.out /\ r.unresolved = q.unresolved
      /\ r.finished = q.finished
  BY <1>3 DEF Row, AttemptRow
<1> HIDE DEF r
<1> DEFINE c == [r EXCEPT !.finished = TRUE]
<1>5. /\ c \in AttemptRow /\ c.status = r.status /\ c.finished = TRUE
      /\ c.sid = r.sid /\ c.sent = r.sent /\ c.out = r.out /\ c.unresolved = r.unresolved
  BY <1>4 DEF AttemptRow
<1>6. c = Closed(l, s)
  BY DEF Closed, r
<1> HIDE DEF c
<1> QED
  BY <1>1, <1>2, <1>3, <1>4, <1>5, <1>6 DEF r

LEMMA PutCalm ==
    ASSUME TypeOK, NEW l \in Actors, NEW r \in AttemptRow, r.out = att[job[l].a].out,
           att[job[l].a].finished => r.finished
    PROVE  Put(l, r) \in RowTable /\ CalmRows(Put(l, r))
BY DEF TypeOK, Job, Put, RowTable, CalmRows

LEMMA AttCalm == TypeOK => att \in RowTable /\ CalmRows(att)
BY DEF TypeOK, RowTable, CalmRows

LEMMA StatusCalm ==
    ASSUME TypeOK, NEW l \in Actors, NEW s \in AttemptStatus
    PROVE  /\ Put(l, Row(l, s)) \in RowTable /\ CalmRows(Put(l, Row(l, s)))
           /\ Put(l, Closed(l, s)) \in RowTable /\ CalmRows(Put(l, Closed(l, s)))
BY RowFields, PutCalm

LEMMA DevinCalm ==
    ASSUME TypeOK, UNCHANGED devin
    PROVE  CalmDevin
BY DEF CalmDevin, CalmSession, devin, Held

LEMMA DeleteCalm ==
    ASSUME TypeOK, NEW S, remote' = DeleteSessions(S), UNCHANGED posts
    PROVE  CalmDevin
BY DEF CalmDevin, CalmSession, DeleteSessions, Visible, Snapshot, Stopped, Final, Held

\* The same with a new reconciliation_reason, or the create left unresolved.
LEMMA ReasonFields ==
    ASSUME NEW q \in AttemptRow, NEW why \in Reason
    PROVE  LET r == [q EXCEPT !.reason = why]
               u == [q EXCEPT !.unresolved = TRUE, !.reason = why]
           IN  /\ r \in AttemptRow /\ u \in AttemptRow
               /\ r.status = q.status /\ u.status = q.status
               /\ r.sid = q.sid /\ u.sid = q.sid
               /\ r.sent = q.sent /\ u.sent = q.sent
               /\ r.out = q.out /\ u.out = q.out
               /\ r.finished = q.finished /\ u.finished = q.finished
               /\ r.unresolved = q.unresolved /\ u.unresolved
BY DEF AttemptRow

LEMMA ReasonCalm ==
    ASSUME TypeOK, NEW l \in Actors, NEW s \in AttemptStatus, NEW why \in Reason
    PROVE  LET r == [Row(l, s) EXCEPT !.reason = why]
               c == [Closed(l, s) EXCEPT !.reason = why]
               u == [Closed(l, s) EXCEPT !.unresolved = TRUE, !.reason = why]
           IN  /\ Put(l, r) \in RowTable /\ CalmRows(Put(l, r))
               /\ Put(l, c) \in RowTable /\ CalmRows(Put(l, c))
               /\ Put(l, u) \in RowTable /\ CalmRows(Put(l, u))
<1> DEFINE r == [Row(l, s) EXCEPT !.reason = why]
           c == [Closed(l, s) EXCEPT !.reason = why]
           u == [Closed(l, s) EXCEPT !.unresolved = TRUE, !.reason = why]
           q == att[job[l].a]
<1>1. /\ Row(l, s) \in AttemptRow /\ Closed(l, s) \in AttemptRow
      /\ Row(l, s).out = q.out /\ Closed(l, s).out = q.out
      /\ Row(l, s).finished = q.finished /\ Closed(l, s).finished = TRUE
  BY RowFields
<1>2. /\ r \in AttemptRow /\ r.out = q.out /\ r.finished = q.finished
      /\ c \in AttemptRow /\ c.out = q.out /\ c.finished = TRUE
      /\ u \in AttemptRow /\ u.out = q.out /\ u.finished = TRUE
  BY <1>1, ReasonFields
<1> HIDE DEF r, c, u
<1>3. /\ Put(l, r) \in RowTable /\ CalmRows(Put(l, r))
      /\ Put(l, c) \in RowTable /\ CalmRows(Put(l, c))
      /\ Put(l, u) \in RowTable /\ CalmRows(Put(l, u))
  BY <1>2, PutCalm
<1> QED
  BY <1>3 DEF r, c, u

LEMMA ReasonLiterals ==
    {"none", "cancel", "worker_error", "ack", "no_output", "gone", "other"} = Reason
BY DEF Reason

\* The job goes on at pc with the columns of its record changed, but takes no snapshot.
LEMMA NextCalm ==
    ASSUME NEW j, NEW n, n.pc \notin {"ingest", "settle", "finish"}
    PROVE  CalmJob(j, n)
BY DEF CalmJob, Reading

LEMMA EntryCalm ==
    ASSUME TypeOK, NEW l \in Loops,
           \/ Claim(l) \/ Evaluate(l) \/ Verdict(l) \/ RunNew(l)
    PROVE  Calm /\ CalmDevin
<1>1. l \in Actors /\ CalmRows(att) /\ CalmJob(job[l], Exit(l))
  BY AttCalm, ResumesNothing, NextCalm DEF Actors
<1>2. CASE Claim(l)
  <2> DEFINE n == [Idle EXCEPT !.pc = EntryPoint, !.view = state]
  <2>1. n.pc = EntryPoint
    BY IdleType DEF Job
  <2>2. EntryPoint \notin {"ingest", "settle", "finish"}
    BY DEF EntryPoint
  <2>3. CalmJobs
    BY <1>1, <1>2, <2>1, <2>2, NextCalm, JobCalm DEF Claim
  <2> QED
    BY <1>1, <1>2, <2>3, DevinCalm DEF Claim, Calm, CalmState
<1>3. CASE Evaluate(l)
  <2> DEFINE n == Then(l, "verdict", "ELIGIBILITY_EVALUATED")
  <2>1. n.pc = "verdict"
    BY <1>1 DEF Then, TypeOK, Job
  <2> HIDE DEF n
  <2>2. Calm
    BY <1>1, <1>3, <2>1, NextCalm, CommitCalm DEF Evaluate, n
  <2> QED
    BY <1>3, <2>2, DevinCalm DEF Evaluate
<1>4. CASE Verdict(l)
  <2> DEFINE n == Then(l, "run", "TRIAGE_CREATE_INTENT")
  <2>1. n.pc = "run"
    BY <1>1 DEF Then, TypeOK, Job
  <2> HIDE DEF n
  <2>2. Calm
    BY <1>1, <1>4, <2>1, NextCalm, CommitCalm DEF Verdict, n
  <2> QED
    BY <1>4, <2>2, DevinCalm DEF Verdict
<1>5. CASE RunNew(l)
  <2>1. CalmJobs
    BY <1>1, <1>5, GotoCalm, LeaveCalm DEF RunNew
  <2> QED
    BY <1>1, <1>5, <2>1, DevinCalm DEF RunNew, Calm, CalmState
<1> QED
  BY <1>2, <1>3, <1>4, <1>5

LEMMA RunResumeCalm ==
    ASSUME TypeOK, NEW l \in Loops, RunResume(l)
    PROVE  Calm /\ CalmDevin
<1> DEFINE a == Newest(ActiveAttempts(att))
           r == att[a]
           On(pc) == [job[l] EXCEPT !.pc = pc, !.a = a, !.mem = r.status]
           n == [On("poll") EXCEPT !.view = "TRIAGING"]
<1>1. l \in Actors /\ CalmRows(att) /\ job[l] \in Job
  BY AttCalm DEF Actors, TypeOK
<1>2. \A pc \in {"final_get", "tag", "reconcile", "poll"} : On(pc).pc = pc
  BY <1>1 DEF Job
<1>3. n.pc = "poll"
  BY <1>1 DEF Job
<1> HIDE DEF n
<1>4. CASE Commit(l, "TRIAGING", att, n)
  BY <1>1, <1>3, <1>4, NextCalm, CommitCalm, DevinCalm DEF RunResume
<1>5. CASE /\ \E pc \in {"final_get", "tag", "reconcile", "poll"} :
                 job' = [job EXCEPT ![l] = On(pc)]
           /\ UNCHANGED <<state, att>>
  <2>1. PICK pc \in {"final_get", "tag", "reconcile", "poll"} : job' = [job EXCEPT ![l] = On(pc)]
    BY <1>5
  <2>2. CalmJob(job[l], On(pc))
    BY <1>2, <2>1, NextCalm
  <2>3. CalmJobs
    BY <1>1, <2>1, <2>2, JobCalm
  <2> QED
    BY <1>1, <1>5, <2>3, DevinCalm DEF RunResume, Calm, CalmState
<1> QED
  BY <1>4, <1>5 DEF RunResume, n

LEMMA SettledCalm ==
    ASSUME TypeOK, NEW S
    PROVE  Settled(S) \in RowTable /\ CalmRows(Settled(S))
BY Literals DEF TypeOK, Settled, RowTable, CalmRows, AttemptRow

LEMMA CreateCalm ==
    ASSUME TypeOK, NEW l \in Loops, Create(l)
    PROVE  Calm /\ CalmDevin
<1>1. l \in Actors /\ att \in RowTable /\ CalmRows(att) /\ job[l] \in Job
  BY AttCalm DEF Actors, TypeOK
<1>2. CASE FailCase(l, att) /\ UNCHANGED remote
  BY <1>1, <1>2, FailCaseCalm, DevinCalm DEF Create, devin
<1>3. ASSUME NEW done, remote' = DeleteSessions(WithSession(done)),
             FailCase(l, Settled(done))
      PROVE  Calm /\ CalmDevin
  BY <1>1, <1>3, SettledCalm, FailCaseCalm, DeleteCalm DEF Create
<1>4. ASSUME NEW done, remote' = DeleteSessions(WithSession(done)),
             att' = Settled(done), UNCHANGED state,
             job' = [job EXCEPT ![l].pc = "insert", ![l].a = NextOrdinal,
                                ![l].mem = "RUNNING"]
      PROVE  Calm /\ CalmDevin
  <2> DEFINE n == [job[l] EXCEPT !.pc = "insert", !.a = NextOrdinal, !.mem = "RUNNING"]
  <2>1. job' = [job EXCEPT ![l] = n] /\ n.pc = "insert"
    BY <1>1, <1>4 DEF TypeOK, Job
  <2> HIDE DEF n
  <2>2. CalmJobs
    BY <1>1, <2>1, NextCalm, JobCalm
  <2> QED
    BY <1>4, <2>2, SettledCalm, DeleteCalm DEF Create, Calm, CalmState
<1> QED
  BY <1>2, <1>3, <1>4 DEF Create

\* A new row is fresh: nothing is stored under a key that was not used.
LEMMA InsertCalm ==
    ASSUME OneCreateInv, OutputInv, NEW l \in Loops, Insert(l)
    PROVE  Calm /\ CalmDevin
<1> DEFINE a == job[l].a
           r == [NoRow EXCEPT !.status = "RUNNING"]
<1>1. TypeOK /\ l \in Actors /\ CalmRows(att) /\ a \in Attempts
  BY AttCalm DEF OneCreateInv, Actors, TypeOK, Job
<1>2. CalmDevin
  BY <1>1, DevinCalm DEF Insert
<1>3. CalmJobs
  BY <1>1, GotoCalm, IdleType, NextCalm, JobCalm DEF Insert
<1>4. CASE att' = att
  BY <1>1, <1>2, <1>3, <1>4 DEF Insert, Calm, CalmState
<1>5. CASE att[a].status = "NONE" /\ att' = Put(l, r)
  <2>1. r.out = "none"
    BY DEF NoRow
  <2>2. remote[a] = "Absent"
    BY <1>1, <1>5 DEF OneCreateInv, FreshCreates, OutputInv, UnusedIsAbsent
  <2>3. att[a].out # "valid"
    BY <1>1, <2>2 DEF OutputInv, OutputsStay, Stored, Held
  <2> HIDE DEF r
  <2>4. CalmRows(att')
    BY <1>1, <1>5, <2>1, <2>3 DEF CalmRows, Put, TypeOK
  <2> QED
    BY <1>2, <1>3, <2>4 DEF Insert, Calm, CalmState
<1> QED
  BY <1>1, <1>4, <1>5 DEF Insert, Rows

LEMMA SendCalm ==
    ASSUME OneCreateInv, OutputInv, NEW l \in Loops, Send(l)
    PROVE  Calm /\ CalmDevin
<1> DEFINE a == job[l].a
<1>1. TypeOK /\ l \in Actors /\ CalmRows(att) /\ a \in Attempts
  BY AttCalm DEF OneCreateInv, Actors, TypeOK, Job
<1>2. posts[a] = 0 /\ remote[a] = "Absent"
  BY <1>1 DEF OneCreateInv, FreshCreates, OutputInv, UnusedIsAbsent, Send, At, Creating
<1>3. posts'[a] = 1 /\ \A b \in Attempts \ {a} : posts'[b] = posts[b] /\ remote'[b] = remote[b]
  BY <1>1, <1>2 DEF Send, TypeOK
<1>4. CalmDevin
  BY <1>2, <1>3 DEF CalmDevin, CalmSession, Final, Held, Send, TypeOK
<1>5. CalmJobs
  BY <1>1, GotoCalm DEF Send
<1> QED
  BY <1>1, <1>4, <1>5 DEF Send, Calm, CalmState

LEMMA PrepareCalm ==
    ASSUME TypeOK, NEW l \in Loops, Prepare(l)
    PROVE  Calm /\ CalmDevin
<1> DEFINE r == [att[job[l].a] EXCEPT !.sent = TRUE]
<1>1. l \in Actors /\ att[job[l].a] \in AttemptRow
  BY DEF Actors, TypeOK, Job
<1>2. CalmDevin
  BY DevinCalm DEF Prepare
<1>3. CASE att' = Put(l, r) /\ Goto(l, "post") /\ UNCHANGED state
  <2>1. r \in AttemptRow /\ r.out = att[job[l].a].out /\ r.finished = att[job[l].a].finished
    BY <1>1 DEF AttemptRow
  <2> HIDE DEF r
  <2>2. CalmRows(Put(l, r))
    BY <1>1, <2>1, PutCalm
  <2> QED
    BY <1>1, <1>2, <1>3, <2>2, GotoCalm DEF Calm, CalmState
<1>4. CASE FailCase(l, Put(l, Closed(l, "FAILED")))
  BY <1>1, <1>2, <1>4, Literals, StatusCalm, FailCaseCalm
<1> QED
  BY <1>3, <1>4 DEF Prepare

LEMMA PostCalm ==
    ASSUME TypeOK, NEW l \in Loops, PostOk(l) \/ PostRejected(l) \/ PostLost(l)
    PROVE  Calm /\ CalmDevin
<1>1. l \in Actors /\ job[l] \in Job /\ job[l].a \in Attempts
  BY DEF Actors, TypeOK, Job
<1>2. CASE PostOk(l)
  BY <1>1, <1>2, AttCalm, DevinCalm, GotoCalm DEF PostOk, Calm, CalmState
<1>3. CASE PostRejected(l)
  <2>1. CalmDevin
    BY <1>1, <1>3 DEF PostRejected, CalmDevin, CalmSession, Final, Held, TypeOK
  <2> QED
    BY <1>1, <1>3, <2>1, Literals, StatusCalm, FailCaseCalm DEF PostRejected
<1>4. CASE PostLost(l)
  <2> DEFINE n == [Then(l, "reconcile", "RECONCILING_CREATE") EXCEPT !.mem = "RECONCILING"]
  <2>1. n.pc = "reconcile"
    BY <1>1 DEF Then, Job
  <2> HIDE DEF n
  <2>2. Calm
    BY <1>1, <1>4, <2>1, Literals, ReasonLiterals, ReasonCalm, NextCalm, CommitCalm
       DEF PostLost, n
  <2> QED
    BY <1>4, <2>2, DevinCalm DEF PostLost
<1> QED
  BY <1>2, <1>3, <1>4

LEMMA AttachCalm ==
    ASSUME TypeOK, NEW l \in Loops, Attach(l)
    PROVE  Calm /\ CalmDevin
<1> DEFINE q == att[job[l].a]
           r == [Row(l, "RUNNING") EXCEPT !.sid = TRUE, !.reason = "none", !.late = FALSE]
           c == [q EXCEPT !.status = "CANCELLED", !.sid = TRUE, !.finished = TRUE]
           n == [Then(l, "poll", "TRIAGING") EXCEPT !.mem = "RUNNING"]
<1>1. l \in Actors /\ job[l] \in Job /\ q \in AttemptRow
  BY DEF Actors, TypeOK, Job
<1>2. /\ Row(l, "RUNNING") \in AttemptRow
      /\ Row(l, "RUNNING").out = q.out /\ Row(l, "RUNNING").finished = q.finished
  BY <1>1, Literals, RowFields
<1>3. r \in AttemptRow /\ r.out = q.out /\ r.finished = q.finished
  BY <1>2 DEF AttemptRow, Reason
<1>4. c \in AttemptRow /\ c.out = q.out /\ c.finished
  BY <1>1, Literals DEF AttemptRow
<1>5. n.pc = "poll"
  BY <1>1 DEF Then, Job
<1> HIDE DEF r, c, n
<1>6. CalmRows(Put(l, r)) /\ CalmRows(Put(l, c))
  BY <1>1, <1>3, <1>4, PutCalm
<1>7. CASE Commit(l, "TRIAGING", Put(l, r), n)
  BY <1>1, <1>5, <1>6, <1>7, NextCalm, CommitCalm, DevinCalm DEF Attach
<1>8. CASE att' = Put(l, c) /\ Goto(l, "orphan") /\ UNCHANGED state
  BY <1>1, <1>6, <1>8, GotoCalm, DevinCalm DEF Attach, Calm, CalmState
<1> QED
  BY <1>7, <1>8 DEF Attach, r, c, n

LEMMA OrphanCalm ==
    ASSUME TypeOK, NEW l \in Loops, Orphan(l)
    PROVE  Calm /\ CalmDevin
<1>1. CalmDevin
  BY DeleteCalm, DevinCalm DEF Orphan, devin
<1> QED
  BY <1>1, AttCalm, GotoCalm DEF Orphan, Actors, Calm, CalmState

LEMMA ReconcileCalm ==
    ASSUME TypeOK, NEW l \in Loops, Reconcile(l)
    PROVE  Calm /\ CalmDevin
<1> DEFINE rows == Put(l, [Row(l, "RECONCILING") EXCEPT !.reason = "other"])
           n == [job[l] EXCEPT !.pc = "lookup", !.mem = "RECONCILING"]
           m == [n EXCEPT !.view = "RECONCILING_CREATE"]
<1>1. l \in Actors /\ job[l] \in Job
  BY DEF Actors, TypeOK
<1>2. n.pc = "lookup" /\ m.pc = "lookup"
  BY <1>1 DEF Job
<1>3. CalmRows(rows)
  BY <1>1, Literals, ReasonLiterals, ReasonCalm
<1> HIDE DEF rows, n, m
<1>4. CASE Commit(l, "RECONCILING_CREATE", rows, m)
  BY <1>1, <1>2, <1>3, <1>4, NextCalm, CommitCalm, DevinCalm DEF Reconcile
<1>5. CASE att' = rows /\ job' = [job EXCEPT ![l] = n] /\ UNCHANGED state
  BY <1>1, <1>2, <1>3, <1>5, NextCalm, JobCalm, DevinCalm DEF Reconcile, Calm, CalmState
<1> QED
  BY <1>4, <1>5 DEF Reconcile, rows, n, m

LEMMA LookupCalm ==
    ASSUME TypeOK, NEW l \in Loops, Lookup(l)
    PROVE  Calm /\ CalmDevin
<1>1. l \in Actors /\ CalmDevin
  BY DevinCalm DEF Actors, Lookup
<1>2. CASE Goto(l, "attach") /\ UNCHANGED <<state, att>>
  BY <1>1, <1>2, AttCalm, GotoCalm DEF Calm, CalmState
<1>3. CASE Commit(l, "HUMAN_BLOCKED",
                  Put(l, [Closed(l, "BLOCKED") EXCEPT !.unresolved = TRUE, !.reason = "other"]),
                  Exit(l))
  <2>1. CalmJob(job[l], Exit(l))
    BY <1>1, ResumesNothing, NextCalm
  <2> QED
    BY <1>1, <1>3, <2>1, Literals, ReasonLiterals, ReasonCalm, CommitCalm
<1> QED
  BY <1>2, <1>3 DEF Lookup

LEMMA PollCalm ==
    ASSUME TypeOK, NEW l \in Loops, Poll(l)
    PROVE  Calm /\ CalmDevin
<1> DEFINE rows == Put(l, [Row(l, "TERMINATION_PENDING") EXCEPT !.reason = "cancel"])
           n == [job[l] EXCEPT !.pc = "final_get", !.view = state,
                               !.mem = "TERMINATION_PENDING"]
           m(pc) == [job[l] EXCEPT !.pc = pc, !.view = state]
<1>1. l \in Actors /\ job[l] \in Job /\ CalmDevin
  BY DevinCalm DEF Actors, TypeOK, Poll
<1>2. CalmRows(rows)
  BY <1>1, Literals, ReasonLiterals, ReasonCalm
<1>3. n.pc = "final_get" /\ \A pc \in {"final_get", "get"} : m(pc).pc = pc
  BY <1>1 DEF Job
<1>4. \/ att' = rows /\ job' = [job EXCEPT ![l] = n]
      \/ att' = att /\ \E pc \in {"final_get", "get"} : job' = [job EXCEPT ![l] = m(pc)]
  BY <1>1 DEF Poll, TypeOK
<1> HIDE DEF rows, n, m
<1>5. CalmJobs
  BY <1>1, <1>3, <1>4, NextCalm, JobCalm
<1> QED
  BY <1>1, <1>2, <1>4, <1>5, AttCalm DEF Poll, Calm, CalmState

LEMMA DeleteStepCalm ==
    ASSUME TypeOK, NEW l \in Loops, Delete(l) \/ Tag(l)
    PROVE  Calm /\ CalmDevin
<1> DEFINE q == att[job[l].a]
<1>1. l \in Actors /\ job[l] \in Job /\ q \in AttemptRow
  BY DEF Actors, TypeOK, Job
<1>2. CalmDevin
  <2>1. UNCHANGED posts /\ (remote' = remote \/ remote' = DeleteSessions({job[l].a}))
    BY DEF Delete, Tag
  <2> QED
    BY <2>1, DeleteCalm, DevinCalm DEF devin
<1>3. CASE (Goto(l, "mark") \/ Leave(l)) /\ UNCHANGED <<state, att>>
  BY <1>1, <1>2, <1>3, AttCalm, GotoCalm, LeaveCalm DEF Calm, CalmState
<1>4. CASE Tag(l) /\ att' = Put(l, [q EXCEPT !.reason = "other"]) /\ Leave(l)
  <2> DEFINE r == [q EXCEPT !.reason = "other"]
  <2>1. r \in AttemptRow /\ r.out = q.out /\ r.finished = q.finished
    BY <1>1, ReasonLiterals, ReasonFields
  <2> HIDE DEF r
  <2>2. CalmRows(Put(l, r))
    BY <1>1, <2>1, PutCalm
  <2> QED
    BY <1>1, <1>2, <1>4, <2>2, LeaveCalm DEF Tag, Calm, CalmState, r
<1> DEFINE p == Row(l, "TERMINATION_PENDING")
           r == [p EXCEPT !.reason = KeptTrigger(@)]
<1>5. CASE \/ Commit(l, "TERMINATION_PENDING", Put(l, r), Exit(l))
           \/ att' = Put(l, r) /\ Leave(l) /\ UNCHANGED state
  <2>1. p \in AttemptRow /\ p.out = q.out /\ p.finished = q.finished
    BY <1>1, Literals, RowFields
  <2>2. KeptTrigger(p.reason) \in Reason
    BY ReasonLiterals DEF KeptTrigger
  <2>3. r = [p EXCEPT !.reason = KeptTrigger(p.reason)]
    BY <2>1 DEF AttemptRow
  <2>4. r \in AttemptRow /\ r.out = q.out /\ r.finished = q.finished
    BY <2>1, <2>2, <2>3, ReasonFields
  <2> HIDE DEF r
  <2>5. CalmRows(Put(l, r)) /\ CalmJob(job[l], Exit(l))
    BY <1>1, <2>4, PutCalm, ResumesNothing, NextCalm
  <2> QED
    BY <1>1, <1>2, <1>5, <2>5, CommitCalm, LeaveCalm DEF Calm, CalmState
<1> QED
  BY <1>3, <1>4, <1>5 DEF Delete, Tag

LEMMA MarkCalm ==
    ASSUME TypeOK, NEW l \in Loops, Mark(l)
    PROVE  Calm /\ CalmDevin
<1> DEFINE v == TerminationVerdict(att[job[l].a])
<1>1. l \in Actors /\ CalmDevin /\ CalmJob(job[l], Exit(l))
  BY DevinCalm, ResumesNothing, NextCalm DEF Actors, Mark
<1>2. v \in AttemptStatus /\ v # "AWAITING_REMEDIATION_APPROVAL"
  BY Literals DEF TerminationVerdict
<1>3. Commit(l, v, Put(l, [Closed(l, v) EXCEPT !.reason = "none"]), Exit(l))
  BY DEF Mark
<1> HIDE DEF v
<1> QED
  BY <1>1, <1>2, <1>3, ReasonLiterals, ReasonCalm, CommitCalm

LEMMA RewriteCalm ==
    ASSUME TypeOK, NEW rows,
           \A a \in Attempts : rows[a].out = att[a].out /\ (att[a].finished => rows[a].finished)
    PROVE  CalmRows(rows)
BY DEF CalmRows

LEMMA TerminateCalm ==
    ASSUME TypeOK, NEW l \in Loops, Terminate(l)
    PROVE  Calm /\ CalmDevin
<1> DEFINE owners == ActiveAttempts(att) \cup {a \in Attempts : att[a].status = "BLOCKED"}
           called == {a \in owners : att[a].sid \/ att[a].sent}
           Ended(failing) ==
             [a \in Attempts |->
                IF a \in failing
                THEN [att[a] EXCEPT !.status = "TERMINATION_PENDING", !.reason = "cancel"]
                ELSE IF a \in owners
                THEN [att[a] EXCEPT !.status = "CANCELLED", !.reason = "none",
                                    !.finished = TRUE]
                ELSE att[a]]
<1>1. l \in Actors /\ CalmJob(job[l], Exit(l))
  BY ResumesNothing, NextCalm DEF Actors
<1>2. \E S : remote' = DeleteSessions(S) /\ UNCHANGED posts
  BY DEF Terminate
<1>3. CalmDevin
  BY <1>2, DeleteCalm
<1>4. ASSUME NEW failing PROVE CalmRows(Ended(failing))
  <2>1. \A a \in Attempts : att[a] \in AttemptRow
    BY DEF TypeOK
  <2>2. \A a \in Attempts : /\ Ended(failing)[a].out = att[a].out
                            /\ att[a].finished => Ended(failing)[a].finished
    BY <2>1 DEF AttemptRow
  <2> HIDE DEF Ended
  <2> QED
    BY <2>2, RewriteCalm
<1>5. \/ Commit(l, "CANCELLED", Ended({}), Exit(l))
      \/ \E failing : att' = Ended(failing) /\ Leave(l) /\ UNCHANGED state
  BY DEF Terminate
<1> HIDE DEF Ended
<1> QED
  BY <1>1, <1>3, <1>4, <1>5, CommitCalm, LeaveCalm DEF Calm, CalmState

LEMMA AnnotatedCalm ==
    ASSUME TypeOK, NEW errors, NEW got \in AllAnswers
    PROVE  CalmRows(Annotated(errors, got))
<1>1. \A a \in Attempts : att[a] \in AttemptRow
  BY DEF TypeOK
<1>2. \A a \in Attempts : /\ Annotated(errors, got)[a].out = att[a].out
                          /\ att[a].finished => Annotated(errors, got)[a].finished
  BY <1>1 DEF AttemptRow, Annotated
<1> QED
  BY <1>2, RewriteCalm

LEMMA SupersededCalm ==
    ASSUME TypeOK, NEW chosen
    PROVE  CalmRows(Superseded(chosen))
<1>1. \A a \in Attempts : att[a] \in AttemptRow
  BY DEF TypeOK
<1>2. \A a \in Attempts : /\ Superseded(chosen)[a].out = att[a].out
                          /\ att[a].finished => Superseded(chosen)[a].finished
  BY <1>1 DEF AttemptRow, Superseded
<1> QED
  BY <1>2, RewriteCalm

LEMMA IngestCalm ==
    ASSUME TypeOK, NEW l \in Actors, Ingest(l)
    PROVE  Calm /\ CalmDevin
<1> DEFINE n == [Then(l, "settle", "TRIAGING") EXCEPT !.mem = "RUNNING"]
<1>1. job[l] \in Job /\ job[l].pc = "ingest"
  BY DEF TypeOK, Ingest, At
<1>2. n.pc = "settle" /\ n.a = job[l].a /\ n.seen = job[l].seen
  BY <1>1 DEF Then, Job
<1>3. Commit(l, "TRIAGING", Superseded(job[l].a), n)
  BY DEF Ingest
<1> HIDE DEF n
<1>4. CalmJob(job[l], n)
  BY <1>1, <1>2 DEF CalmJob, Reading
<1> QED
  BY <1>3, <1>4, SupersededCalm, CommitCalm, DevinCalm DEF Ingest

LEMMA EndCalm ==
    ASSUME TypeOK, NEW l \in Loops, Abandon(l) \/ Release(l) \/ MarkFailed(l)
    PROVE  Calm /\ CalmDevin
<1>1. l \in Actors /\ CalmDevin
  BY DevinCalm DEF Actors, Abandon, Release, MarkFailed
<1>2. CASE Abandon(l)
  <2>1. \A a \in Attempts : att[a] \in AttemptRow
    BY DEF TypeOK
  <2>2. \A a \in Attempts : /\ att'[a].out = att[a].out
                            /\ att[a].finished => att'[a].finished
    BY <1>2, <2>1 DEF Abandon, AttemptRow
  <2>3. CalmRows(att')
    BY <2>2, RewriteCalm
  <2> QED
    BY <1>1, <1>2, <2>3, LeaveCalm DEF Abandon, Calm, CalmState
<1>3. CASE Release(l)
  <2>1. CalmJob(job[l], Idle)
    BY IdleType, NextCalm
  <2> QED
    BY <1>1, <1>3, <2>1, JobCalm, AttCalm DEF Release, Calm, CalmState
<1>4. CASE MarkFailed(l)
  BY <1>1, <1>4, AttCalm, FailCaseCalm DEF MarkFailed
<1> QED
  BY <1>2, <1>3, <1>4

LEMMA FaultCalm ==
    ASSUME TypeOK, NEW l \in Actors,
           JobError(l) \/ DbError(l) \/ Crash(l) \/ Stall(l) \/ Heartbeat(l)
    PROVE  Calm /\ CalmDevin
<1>1. CalmRows(att) /\ state' = state /\ att' = att
  BY AttCalm DEF JobError, DbError, Crash, Stall, Heartbeat
<1>2. CalmDevin
  <2>1. CASE Crash(l)
    <3>1. UNCHANGED posts /\ (remote' = remote \/ \E S : remote' = DeleteSessions(S))
      BY <2>1 DEF Crash
    <3> QED
      BY <3>1, DeleteCalm, DevinCalm DEF devin
  <2> QED
    BY <2>1, DevinCalm DEF JobError, DbError, Stall, Heartbeat
<1>3. CalmJobs
  <2>1. CASE JobError(l)
    <3> DEFINE n == [job[l] EXCEPT !.pc = "mark_failed", !.view = state]
    <3>1. job' = [job EXCEPT ![l] = n] /\ n.pc = "mark_failed"
      BY <2>1 DEF JobError, TypeOK, Job
    <3> HIDE DEF n
    <3> QED
      BY <3>1, NextCalm, JobCalm
  <2>2. CASE DbError(l)
    BY <2>2, LeaveCalm DEF DbError
  <2>3. CASE Crash(l)
    <3>1. CalmJob(job[l], Idle)
      BY IdleType, NextCalm
    <3> QED
      BY <2>3, <3>1, JobCalm DEF Crash
  <2>4. CASE UNCHANGED job
    BY <2>4 DEF CalmJobs, CalmJob
  <2> QED
    BY <2>1, <2>2, <2>3, <2>4 DEF Stall, Heartbeat
<1> QED
  BY <1>1, <1>2, <1>3 DEF Calm, CalmState

LEMMA OutsideCalm ==
    ASSUME TypeOK, Cancel \/ Retry \/ Environment \/ UNCHANGED vars
    PROVE  Calm /\ CalmDevin
<1>1. \A a \in Attempts : att[a] \in AttemptRow
  BY DEF TypeOK
<1>2. UNCHANGED job
  BY DEF Cancel, Retry, Environment, LeaseLapses, Land, SessionStep, Expire, vars
<1>3. CalmJobs
  BY <1>2 DEF CalmJobs, CalmJob
<1>4. CalmState
  BY DEF Cancel, Retry, Environment, LeaseLapses, Land, SessionStep, Expire, vars, CalmState
<1>5. CalmRows(att')
  <2>1. CASE att' = att
    BY <2>1, AttCalm
  <2>2. CASE Retry
    <3>1. \A a \in Attempts : att'[a].out = att[a].out /\ (att[a].finished => att'[a].finished)
      BY <1>1, <2>2 DEF Retry, AttemptRow
    <3> QED
      BY <3>1, RewriteCalm
  <2>3. ASSUME NEW a \in Attempts, Expire(a) PROVE CalmRows(att')
    <3>1. \A b \in Attempts : att'[b].out = att[b].out /\ (att[b].finished => att'[b].finished)
      BY <1>1, <2>3 DEF Expire, AttemptRow, TypeOK
    <3> QED
      BY <3>1, RewriteCalm
  <2> QED
    BY <2>1, <2>2, <2>3 DEF Cancel, Environment, LeaseLapses, Land, SessionStep, vars
<1>6. CalmDevin
  <2>1. CASE UNCHANGED devin
    BY <2>1, DevinCalm
  <2>2. ASSUME NEW a \in Attempts, Land(a) \/ SessionStep(a) PROVE CalmDevin
    <3>1. UNCHANGED posts /\ \A b \in Attempts \ {a} : remote'[b] = remote[b]
      BY <2>2 DEF Land, SessionStep, TypeOK
    <3>2. \/ /\ remote[a] \in {"InFlight", "Working", "Asking"}
             /\ remote'[a] \in Snapshot \cup {"Absent"}
          \/ MayResume /\ remote[a] \in Stopped /\ remote'[a] = "Resumed"
      BY <2>2 DEF Land, SessionStep, TypeOK, Snapshot
    <3> QED
      BY <3>1, <3>2 DEF CalmDevin, CalmSession, Final, Held, Snapshot, Stopped
  <2> QED
    BY <2>1, <2>2 DEF Cancel, Retry, Environment, LeaseLapses, Expire, vars, devin
<1> QED
  BY <1>3, <1>4, <1>5, <1>6 DEF Calm

\* A job that takes a snapshot of its session: whoever took one before, of a session
\* that had ended, saw the same end, and so did whoever stored its output.
TakesSnapshot(l) ==
    \E n : /\ n.pc \in {"ingest", "settle"} /\ n.a \in Attempts /\ n.seen \in Answers(n.a)
           /\ n.pc = "ingest" => n.seen \in HasOutput
           /\ job' = [job EXCEPT ![l] = n]

LEMMA SnapshotPreserves ==
    ASSUME TypeOK, OutputInv, NEW l \in Actors, TakesSnapshot(l),
           CalmRows(att'), CalmState, UNCHANGED devin
    PROVE  OutputInv'
<1>0. PICK n : /\ n.pc \in {"ingest", "settle"} /\ n.a \in Attempts /\ n.seen \in Answers(n.a)
               /\ n.pc = "ingest" => n.seen \in HasOutput
               /\ job' = [job EXCEPT ![l] = n]
  BY DEF TakesSnapshot
<1>1. \A k \in Actors : job[k].a \in Attempts /\ SnapshotHolds(job[k])
  BY DEF TypeOK, Job, OutputInv, SnapshotsHold
<1>2. job'[l] = n /\ \A k \in Actors \ {l} : job'[k] = job[k]
  BY <1>0 DEF TypeOK
<1>3. \A a \in Attempts :
        /\ att'[a].out = "valid" => att[a].out = "valid"
        /\ ~MayResume /\ att[a].out = "valid" => att'[a].out = "valid"
        /\ att[a].out = "valid" /\ att[a].finished => att'[a].finished
  BY DEF CalmRows
<1>4. remote' = remote /\ posts' = posts
  BY DEF devin
<1>5. UnusedIsAbsent' /\ Unresumed'
  BY <1>4 DEF OutputInv, UnusedIsAbsent, Unresumed
<1>s. n.seen = remote[n.a] \/ (MayResume /\ remote[n.a] = "Resumed")
  BY <1>0 DEF Answers, OutputInv, Unresumed
<1>6. SnapshotHolds(n)' /\ \A k \in Actors \ {l} : SnapshotHolds(job[k])'
  BY <1>0, <1>1, <1>2, <1>4, <1>s DEF SnapshotHolds, Reading, Held
<1>7. SnapshotsHold'
  BY <1>2, <1>6 DEF SnapshotsHold, SnapshotHolds
<1>8. \A k \in Actors : Agree(n, job[k]) /\ Agree(job[k], n)
  BY <1>0, <1>1, <1>s DEF Agree, SnapshotHolds, Final, Held
<1>9. Agree(n, n)
  BY DEF Agree
<1>10. SnapshotsAgree'
  <2> SUFFICES ASSUME NEW i \in Actors, NEW k \in Actors PROVE Agree(job'[i], job'[k])
    BY DEF SnapshotsAgree, Agree, Reading
  <2> QED
    BY <1>2, <1>8, <1>9 DEF OutputInv, SnapshotsAgree
<1>11. OutputsStay'
  <2> SUFFICES ASSUME NEW a \in Attempts, Stored(a)'
               PROVE  /\ att'[a].finished
                      /\ remote'[a] \in Held("Done")
                      /\ \A k \in Actors : NotWithdrawn(a, job'[k])
    BY DEF OutputsStay, NotWithdrawn, Reading, Held
  <2>1. att[a].out = "valid"
    BY <1>3 DEF Stored
  <2>2. /\ att[a].finished /\ remote[a] \in Held("Done")
        /\ \A k \in Actors : NotWithdrawn(a, job[k])
    BY <2>1 DEF OutputInv, OutputsStay, Stored
  <2>3. NotWithdrawn(a, n)
    BY <1>0, <1>s, <2>2 DEF NotWithdrawn, Final, Held
  <2> QED
    BY <1>2, <1>3, <1>4, <2>1, <2>2, <2>3
<1>12. DoneIsStored'
  BY <1>0, <1>1, <1>2, <1>3 DEF OutputInv, DoneIsStored, Stored
<1>13. AwaitingIsStored'
  BY <1>3 DEF OutputInv, AwaitingIsStored, Stored, CalmState
<1> QED
  BY <1>5, <1>7, <1>10, <1>11, <1>12, <1>13 DEF OutputInv

LEMMA GetOutput ==
    ASSUME TypeOK, OutputInv, NEW l \in Loops, Get(l)
    PROVE  OutputInv'
<1> DEFINE m == [job[l] EXCEPT !.pc = "poll", !.mem = "RECONCILING"]
<1>1. l \in Actors /\ job[l] \in Job /\ job[l].a \in Attempts /\ UNCHANGED devin
  BY DEF Actors, TypeOK, Job, Get
<1>2. CalmDevin
  BY <1>1, DevinCalm
<1>3. CASE FailCase(l, Put(l, Closed(l, "FAILED")))
  BY <1>1, <1>2, <1>3, Literals, StatusCalm, FailCaseCalm, CalmPreserves
<1>4. CASE /\ att' = Put(l, [Row(l, "RECONCILING") EXCEPT !.reason = "other"])
           /\ job' = [job EXCEPT ![l].pc = "poll", ![l].mem = "RECONCILING"]
           /\ UNCHANGED state
  <2>1. job' = [job EXCEPT ![l] = m] /\ m.pc = "poll"
    BY <1>1, <1>4 DEF TypeOK, Job
  <2> HIDE DEF m
  <2>2. CalmJobs
    BY <1>1, <2>1, NextCalm, JobCalm
  <2>3. CalmRows(att')
    BY <1>1, <1>4, Literals, ReasonLiterals, ReasonCalm
  <2> QED
    BY <1>2, <1>4, <2>2, <2>3, CalmPreserves DEF Calm, CalmState
<1>5. ASSUME NEW answer \in Answers(job[l].a),
             att' = Put(l, [Row(l, "RUNNING") EXCEPT !.reason = "none"]),
             job' = [job EXCEPT ![l].pc = IF answer = "Working" THEN "poll" ELSE "settle",
                                ![l].mem = "RUNNING", ![l].seen = answer],
             UNCHANGED state
      PROVE  OutputInv'
  <2> DEFINE n(pc) == [job[l] EXCEPT !.pc = pc, !.mem = "RUNNING", !.seen = answer]
  <2>1. CalmRows(att') /\ CalmState
    BY <1>1, <1>5, Literals, ReasonLiterals, ReasonCalm DEF CalmState
  <2>2. PICK pc \in {"poll", "settle"} : job' = [job EXCEPT ![l] = n(pc)]
    BY <1>1, <1>5 DEF TypeOK
  <2>3. n(pc).pc = pc /\ n(pc).a = job[l].a /\ n(pc).seen = answer
    BY <1>1 DEF Job
  <2> HIDE DEF n
  <2>4. CASE pc = "poll"
    <3>1. CalmJobs
      BY <1>1, <2>2, <2>3, <2>4, NextCalm, JobCalm
    <3> QED
      BY <1>2, <2>1, <3>1, CalmPreserves DEF Calm
  <2>5. CASE pc = "settle"
    <3>1. TakesSnapshot(l)
      BY <1>1, <2>2, <2>3, <2>5 DEF TakesSnapshot
    <3> QED
      BY <1>1, <2>1, <3>1, SnapshotPreserves
  <2> QED
    BY <2>4, <2>5
<1> QED
  BY <1>3, <1>4, <1>5 DEF Get

LEMMA FinalGetOutput ==
    ASSUME TypeOK, OutputInv, NEW l \in Loops, FinalGet(l)
    PROVE  OutputInv'
<1>1. /\ l \in Actors /\ job[l] \in Job /\ job[l].a \in Attempts
      /\ UNCHANGED devin /\ CalmState
  BY DEF Actors, TypeOK, Job, FinalGet, CalmState
<1>2. CASE (Goto(l, "mark") \/ Goto(l, "delete")) /\ UNCHANGED att
  BY <1>1, <1>2, AttCalm, GotoCalm, DevinCalm, CalmPreserves DEF Calm
<1>3. ASSUME NEW answer \in Answers(job[l].a),
             att' = Put(l, Row(l, "RUNNING")),
             job' = [job EXCEPT ![l].pc = "settle", ![l].mem = "RUNNING",
                                ![l].seen = answer]
      PROVE  OutputInv'
  <2> DEFINE n == [job[l] EXCEPT !.pc = "settle", !.mem = "RUNNING", !.seen = answer]
  <2>1. CalmRows(att')
    BY <1>1, <1>3, Literals, StatusCalm
  <2>2. job' = [job EXCEPT ![l] = n] /\ n.pc = "settle" /\ n.a = job[l].a /\ n.seen = answer
    BY <1>1, <1>3 DEF TypeOK, Job
  <2> HIDE DEF n
  <2>3. TakesSnapshot(l)
    BY <1>1, <2>2 DEF TakesSnapshot
  <2> QED
    BY <1>1, <2>1, <2>3, SnapshotPreserves
<1> QED
  BY <1>2, <1>3 DEF FinalGet

LEMMA ChosenHasOutput ==
    ASSUME TypeOK, NEW errors, NEW got \in AllAnswers, WithOutput(errors, got) # {}
    PROVE  LET c == Chosen(WithOutput(errors, got), got)
           IN  /\ c \in Attempts /\ c \in RetainedSessions(att) /\ got[c] \in HasOutput
               /\ got[c] \in Answers(c)
<1> DEFINE output == WithOutput(errors, got)
           valid == {a \in output : got[a] = "Done"}
           S == IF valid # {} THEN valid ELSE output
<1>1. S \in SUBSET output /\ S # {}
  OBVIOUS
<1>2. output \in SUBSET Attempts
  BY DEF WithOutput, RetainedSessions
<1>3. Newest(S) \in output
  BY <1>1, <1>2, NewestIsMember
<1>4. Newest(S) = Chosen(output, got)
  BY DEF Chosen
<1> QED
  BY <1>2, <1>3, <1>4 DEF WithOutput, AllAnswers

LEMMA IngestingFields ==
    ASSUME NEW pc, NEW view, NEW c, NEW got
    PROVE  LET n == Ingesting(pc, view, c, got)
               m == [n EXCEPT !.mem = "RUNNING"]
           IN  /\ n.pc = pc /\ n.view = view /\ n.a = c /\ n.seen = got[c]
               /\ m.pc = pc /\ m.view = view /\ m.a = c /\ m.seen = got[c]
               /\ m.mem = "RUNNING"
BY DEF Ingesting, Idle

LEMMA ReconcileBlockedOutput ==
    ASSUME TypeOK, OutputInv, NEW l \in Loops, ReconcileBlocked(l)
    PROVE  OutputInv'
<1>1. PICK errors \in SUBSET RetainedSessions(att), got \in AllAnswers :
         /\ att' = Annotated(errors, got)
         /\ IF WithOutput(errors, got) = {} THEN Leave(l)
            ELSE job' = [job EXCEPT ![l] =
                           Ingesting("ingest", job[l].view,
                                     Chosen(WithOutput(errors, got), got), got)]
  BY DEF ReconcileBlocked
<1>2. l \in Actors /\ UNCHANGED devin /\ CalmState /\ CalmRows(att')
  BY <1>1, AnnotatedCalm DEF Actors, ReconcileBlocked, CalmState
<1>3. CASE Leave(l)
  BY <1>2, <1>3, LeaveCalm, DevinCalm, CalmPreserves DEF Calm
<1>4. CASE WithOutput(errors, got) # {}
  <2> DEFINE c == Chosen(WithOutput(errors, got), got)
             n == Ingesting("ingest", job[l].view, c, got)
  <2>1. c \in Attempts /\ got[c] \in HasOutput /\ got[c] \in Answers(c)
    BY <1>4, ChosenHasOutput
  <2>2. n.pc = "ingest" /\ n.a = c /\ n.seen = got[c]
    BY IngestingFields
  <2>3. job' = [job EXCEPT ![l] = n]
    BY <1>1, <1>4
  <2> HIDE DEF n, c
  <2>4. TakesSnapshot(l)
    BY <2>1, <2>2, <2>3 DEF TakesSnapshot
  <2> QED
    BY <1>2, <2>4, SnapshotPreserves
<1> QED
  BY <1>1, <1>3, <1>4

LEMMA ReconcileSessionOutput ==
    ASSUME TypeOK, OutputInv, ReconcileSession
    PROVE  OutputInv'
<1>1. PICK errors \in SUBSET RetainedSessions(att), got \in AllAnswers :
        LET output == WithOutput(errors, got)
            locked == output = RetainedSessions(att)
        IN  \/ output = {} /\ att' = Annotated(errors, got) /\ UNCHANGED <<state, job>>
            \/ /\ output # {}
               /\ att' = IF locked THEN Superseded(Chosen(output, got))
                           ELSE Annotated(errors, got)
               /\ state' = IF locked THEN "TRIAGING" ELSE state
               /\ job' = [job EXCEPT ![Operator] =
                    IF locked
                    THEN [Ingesting("settle", "TRIAGING", Chosen(output, got), got)
                            EXCEPT !.mem = "RUNNING"]
                    ELSE Ingesting("ingest", state, Chosen(output, got), got)]
  BY DEF ReconcileSession
<1>2. Operator \in Actors /\ UNCHANGED devin
  BY DEF Actors, ReconcileSession
<1>3. CalmRows(att') /\ CalmState
  BY <1>1, AnnotatedCalm, SupersededCalm DEF CalmState
<1>4. CASE UNCHANGED job
  BY <1>2, <1>3, <1>4, DevinCalm, CalmPreserves DEF Calm, CalmJobs, CalmJob
<1>5. CASE WithOutput(errors, got) # {}
  <2> DEFINE c == Chosen(WithOutput(errors, got), got)
             n == Ingesting("ingest", state, c, got)
             p == Ingesting("settle", "TRIAGING", c, got)
             m == [p EXCEPT !.mem = "RUNNING"]
  <2>1. c \in Attempts /\ got[c] \in HasOutput /\ got[c] \in Answers(c)
    BY <1>5, ChosenHasOutput
  <2>2. /\ n.pc = "ingest" /\ n.a = c /\ n.seen = got[c]
        /\ m.pc = "settle" /\ m.a = c /\ m.seen = got[c]
    BY IngestingFields
  <2>3. job' = [job EXCEPT ![Operator] = m] \/ job' = [job EXCEPT ![Operator] = n]
    BY <1>1, <1>5
  <2> HIDE DEF n, m, c
  <2>4. TakesSnapshot(Operator)
    BY <2>1, <2>2, <2>3 DEF TakesSnapshot
  <2> QED
    BY <1>2, <1>3, <2>4, SnapshotPreserves
<1> QED
  BY <1>1, <1>4, <1>5

\* _settle(): an output is stored with the end of its session, which every other job
\* on the attempt saw too.
LEMMA SettleOutput ==
    ASSUME TypeOK, OutputInv, NEW l \in Actors, Settle(l)
    PROVE  OutputInv'
<1> DEFINE q == att[job[l].a]
           out == CASE job[l].seen = "Done" -> "valid"
                    [] job[l].seen = "Invalid" -> "invalid"
                    [] OTHER -> "none"
           r == [q EXCEPT !.finished = TRUE, !.out = out]
           n == [job[l] EXCEPT !.pc = "finish"]
<1>1. /\ job[l] \in Job /\ job[l].a \in Attempts /\ q \in AttemptRow
      /\ job[l].pc = "settle" /\ UNCHANGED devin
  BY DEF TypeOK, Job, Settle, At
<1>2. CalmDevin /\ CalmJob(job[l], Exit(l))
  BY <1>1, DevinCalm, ResumesNothing, NextCalm
<1>3. CASE Commit(l, "HUMAN_BLOCKED", Put(l, Closed(l, "BLOCKED")), Exit(l))
  BY <1>2, <1>3, Literals, StatusCalm, CommitCalm, CalmPreserves
<1>4. CASE FailCase(l, Put(l, Closed(l, "FAILED")))
  BY <1>2, <1>4, Literals, StatusCalm, FailCaseCalm, CalmPreserves
<1>5. CASE /\ job[l].seen \in {"Done", "Invalid", "Ended"}
           /\ att' = Put(l, r) /\ Goto(l, "finish") /\ UNCHANGED state
  <2>1. r.finished /\ r.out = out /\ (out = "valid" <=> job[l].seen = "Done")
    BY <1>1 DEF AttemptRow
  <2>2. /\ job' = [job EXCEPT ![l] = n]
        /\ n.pc = "finish" /\ n.a = job[l].a /\ n.seen = job[l].seen
    BY <1>1, <1>5 DEF Goto, TypeOK, Job
  <2> HIDE DEF r, n, out
  <2>3. att'[job[l].a] = r /\ \A b \in Attempts \ {job[l].a} : att'[b] = att[b]
    BY <1>1, <1>5 DEF Put, TypeOK
  <2>4. job'[l] = n /\ \A k \in Actors \ {l} : job'[k] = job[k]
    BY <2>2 DEF TypeOK
  <2>5. remote' = remote /\ posts' = posts
    BY <1>1 DEF devin
  <2>6. \A k \in Actors : job[k].a \in Attempts /\ SnapshotHolds(job[k])
    BY DEF TypeOK, Job, OutputInv, SnapshotsHold
  <2>7. \A k \in Actors : Agree(job[l], job[k])
    BY DEF OutputInv, SnapshotsAgree
  <2>8. UnusedIsAbsent' /\ Unresumed'
    BY <2>5 DEF OutputInv, UnusedIsAbsent, Unresumed
  <2>9. \A k \in Actors : SnapshotHolds(job[k])'
    <3>1. SnapshotHolds(job[l])'
      BY <1>1, <1>5, <2>2, <2>4, <2>5, <2>6 DEF SnapshotHolds, Reading, Final, Held
    <3>2. \A k \in Actors \ {l} : SnapshotHolds(job[k])'
      BY <2>4, <2>5, <2>6 DEF SnapshotHolds, Reading, Held
    <3> QED
      BY <3>1, <3>2
  <2>10. \A k \in Actors : /\ Reading(job'[k]) <=> Reading(job[k])
                           /\ job'[k].a = job[k].a /\ job'[k].seen = job[k].seen
    BY <1>1, <2>2, <2>4 DEF Reading
  <2>11. SnapshotsAgree'
    BY <2>10 DEF OutputInv, SnapshotsAgree, Agree, Reading
  <2>12. OutputsStay'
    <3> SUFFICES ASSUME NEW a \in Attempts, Stored(a)'
                 PROVE  /\ att'[a].finished
                        /\ remote[a] \in Held("Done")
                        /\ \A k \in Actors : NotWithdrawn(a, job[k])
      BY <2>5, <2>10 DEF OutputsStay, NotWithdrawn, Reading, Held
    <3>1. CASE a = job[l].a
      <4>1. job[l].seen = "Done"
        BY <2>1, <2>3, <3>1 DEF Stored
      <4>2. remote[a] \in Held("Done")
        BY <1>1, <2>6, <3>1, <4>1 DEF SnapshotHolds, Reading, Final
      <4>3. \A k \in Actors : NotWithdrawn(a, job[k])
        BY <1>1, <2>7, <3>1, <4>1 DEF Agree, NotWithdrawn, Reading, Final
      <4> QED
        BY <2>1, <2>3, <3>1, <4>2, <4>3
    <3>2. CASE a # job[l].a
      BY <2>3, <3>2 DEF OutputInv, OutputsStay, Stored
    <3> QED
      BY <3>1, <3>2
  <2>13. DoneIsStored'
    <3> SUFFICES ASSUME ~MayResume, NEW k \in Actors,
                        job'[k].pc = "finish", job'[k].seen = "Done"
                 PROVE  att'[job'[k].a].out = "valid"
      BY DEF DoneIsStored, Stored
    <3>1. Reading(job[k]) /\ job[k].seen = "Done" /\ job'[k].a = job[k].a
      BY <2>10 DEF Reading
    <3>2. CASE job[k].a = job[l].a
      <4>1. job[l].seen = "Done"
        BY <1>1, <1>5, <2>7, <3>1, <3>2 DEF Agree, Reading, Final
      <4> QED
        BY <2>1, <2>3, <3>1, <3>2, <4>1
    <3>3. CASE job[k].a # job[l].a
      <4>1. k # l
        BY <3>3
      <4>2. att[job[k].a].out = "valid"
        BY <2>4, <4>1 DEF OutputInv, DoneIsStored, Stored
      <4> QED
        BY <2>3, <2>6, <3>1, <3>3, <4>2
    <3> QED
      BY <3>2, <3>3
  <2>14. AwaitingIsStored'
    <3> SUFFICES ASSUME ~MayResume, state = "AWAITING_REMEDIATION_APPROVAL"
                 PROVE  \E a \in Attempts : att'[a].out = "valid"
      BY <1>5 DEF AwaitingIsStored, Stored
    <3>1. PICK a \in Attempts : att[a].out = "valid"
      BY DEF OutputInv, AwaitingIsStored, Stored
    <3>2. NotWithdrawn(a, job[l])
      BY <3>1 DEF OutputInv, OutputsStay, Stored
    <3>3. a = job[l].a => job[l].seen = "Done"
      BY <1>1, <1>5, <3>2 DEF NotWithdrawn, Reading, Final
    <3> QED
      BY <2>1, <2>3, <3>1, <3>3
  <2> QED
    BY <2>8, <2>9, <2>11, <2>12, <2>13, <2>14 DEF OutputInv, SnapshotsHold
<1> QED
  BY <1>3, <1>4, <1>5 DEF Settle

\* _finish_triage(): the output it approves on is in the row; one it withdraws is not.
LEMMA FinishOutput ==
    ASSUME TypeOK, OutputInv, NEW l \in Actors, Finish(l)
    PROVE  OutputInv'
<1>1. /\ job[l] \in Job /\ job[l].a \in Attempts /\ job[l].pc = "finish"
      /\ UNCHANGED devin /\ att[job[l].a] \in AttemptRow
  BY DEF TypeOK, Job, Finish, At
<1>2. CalmDevin
  BY <1>1, DevinCalm
<1>3. CASE job' = [job EXCEPT ![l] = Lost(l)] /\ UNCHANGED <<state, att>>
  <2>1. CalmJob(job[l], Lost(l))
    BY ResumesNothing, NextCalm
  <2> QED
    BY <1>2, <1>3, <2>1, AttCalm, JobCalm, CalmPreserves DEF Calm, CalmState
<1>4. CASE /\ job[l].seen = "Done" /\ state' = "AWAITING_REMEDIATION_APPROVAL"
           /\ att' = Put(l, Row(l, "SUCCEEDED")) /\ Leave(l)
  <2>1. ~MayResume => Stored(job[l].a)
    BY <1>1, <1>4 DEF OutputInv, DoneIsStored
  <2>2. CalmRows(att') /\ CalmJobs
    BY <1>4, Literals, StatusCalm, LeaveCalm
  <2>3. ~MayResume => att'[job[l].a].out = "valid"
    BY <1>1, <2>1, <2>2 DEF CalmRows, Stored
  <2>4. /\ (UnusedIsAbsent /\ Unresumed /\ SnapshotsHold /\ SnapshotsAgree)'
        /\ (OutputsStay /\ DoneIsStored)'
    BY <1>2, <2>2, CalmButState
  <2>5. AwaitingIsStored'
    BY <1>1, <2>3 DEF AwaitingIsStored, Stored
  <2> QED
    BY <2>4, <2>5 DEF OutputInv
<1>5. CASE /\ job[l].seen # "Done"
           /\ FailCase(l, Put(l, [Row(l, "FAILED") EXCEPT !.out = "none"]))
  <2> DEFINE p == Row(l, "FAILED")
             r == [p EXCEPT !.out = "none"]
  <2>1. p \in AttemptRow
    BY Literals, RowFields
  <2>2. r \in AttemptRow /\ r.out = "none" /\ r.finished = p.finished
    BY <2>1 DEF AttemptRow
  <2>3. ~MayResume => att[job[l].a].out # "valid"
    <3>1. job[l].seen \in Final /\ Reading(job[l])
      BY <1>1, <1>5 DEF OutputInv, SnapshotsHold, SnapshotHolds, Reading, Final
    <3> QED
      BY <1>1, <1>5, <3>1 DEF OutputInv, OutputsStay, Stored, NotWithdrawn
  <2> HIDE DEF r
  <2>4. r.finished = att[job[l].a].finished
    BY <2>2, Literals, RowFields
  <2>5. Put(l, r) \in RowTable /\ CalmRows(Put(l, r))
    BY <1>1, <2>2, <2>3, <2>4 DEF Put, CalmRows, RowTable, TypeOK
  <2> QED
    BY <1>2, <1>5, <2>5, FailCaseCalm, CalmPreserves DEF r
<1> QED
  BY <1>3, <1>4, <1>5 DEF Finish

LEMMA OutputInit == Init => OutputInv
<1> SUFFICES ASSUME Init PROVE OutputInv
  OBVIOUS
<1>1. \A l \in Actors : job[l].pc = "idle"
  BY IdleType DEF Init
<1>2. \A a \in Attempts : remote[a] = "Absent" /\ att[a].out = "none"
  BY DEF Init, NoRow
<1>3. state # "AWAITING_REMEDIATION_APPROVAL"
  BY DEF Init
<1> QED
  BY <1>1, <1>2, <1>3 DEF OutputInv, UnusedIsAbsent, Unresumed, SnapshotsHold, SnapshotHolds,
     SnapshotsAgree, Agree, OutputsStay, Stored, DoneIsStored, AwaitingIsStored, Reading

LEMMA OutputNext == OneCreateInv /\ OutputInv /\ [Next]_vars => OutputInv'
<1> SUFFICES ASSUME OneCreateInv, OutputInv, [Next]_vars PROVE OutputInv'
  OBVIOUS
<1>1. TypeOK
  BY DEF OneCreateInv
<1>2. ASSUME NEW l \in Actors, SharedStep(l) PROVE OutputInv'
  BY <1>1, <1>2, IngestCalm, CalmPreserves, SettleOutput, FinishOutput DEF SharedStep
<1>3. ASSUME NEW l \in Loops, LoopStep(l) PROVE OutputInv'
  <2>1. CASE \/ Claim(l) \/ Evaluate(l) \/ Verdict(l) \/ RunNew(l) \/ RunResume(l)
             \/ Create(l) \/ Insert(l) \/ Prepare(l) \/ Send(l)
    BY <1>1, <2>1, EntryCalm, RunResumeCalm, CreateCalm, InsertCalm, PrepareCalm, SendCalm,
       CalmPreserves
  <2>2. CASE \/ PostOk(l) \/ PostRejected(l) \/ PostLost(l) \/ Attach(l) \/ Orphan(l)
             \/ Reconcile(l) \/ Lookup(l) \/ Poll(l)
    BY <1>1, <2>2, PostCalm, AttachCalm, OrphanCalm, ReconcileCalm, LookupCalm, PollCalm,
       CalmPreserves
  <2>3. CASE Get(l) \/ FinalGet(l) \/ ReconcileBlocked(l)
    BY <1>1, <2>3, GetOutput, FinalGetOutput, ReconcileBlockedOutput
  <2>4. CASE \/ Delete(l) \/ Tag(l) \/ Mark(l) \/ Terminate(l)
             \/ Abandon(l) \/ Release(l) \/ MarkFailed(l)
    BY <1>1, <2>4, DeleteStepCalm, MarkCalm, TerminateCalm, EndCalm, CalmPreserves
  <2>5. CASE SharedStep(l)
    BY <1>2, <2>5 DEF Actors
  <2> QED
    BY <1>3, <2>1, <2>2, <2>3, <2>4, <2>5 DEF LoopStep
<1>4. ASSUME NEW l \in Actors, LoopFault(l) \/ Heartbeat(l) \/ DbError(l) PROVE OutputInv'
  BY <1>1, <1>4, FaultCalm, CalmPreserves DEF LoopFault
<1>5. CASE OperatorStep
  <2>1. Operator \in Actors
    BY DEF Actors
  <2> QED
    BY <1>1, <1>2, <1>4, <1>5, <2>1, OutsideCalm, CalmPreserves, ReconcileSessionOutput
       DEF OperatorStep
<1>6. CASE Environment \/ UNCHANGED vars
  BY <1>1, <1>6, OutsideCalm, CalmPreserves
<1> QED
  BY <1>3, <1>4, <1>5, <1>6 DEF Next, Actors

\* A case asks for approval only on a stored, validated triage output
\* (_finish_triage() in one transaction with its two transitions), however many loops
\* and operators read, time out, cancel, ingest or stall on the attempt, as long as a
\* session that reported its end is not resumed.
THEOREM ApprovalNeedsOutput ==
    ASSUME MayResume = FALSE
    PROVE  Spec => []ApprovalRestsOnOutput
<1>1. OutputInv => ApprovalRestsOnOutput
  BY DEF OutputInv, AwaitingIsStored, OutputsStay, Stored, ApprovalRestsOnOutput
<1> QED
  BY InvInit, InvNext, OutputInit, OutputNext, <1>1, PTL DEF Spec

-----------------------------------------------------------------------------
(***************************************************************************)
(* What the lease buys.  Loops that do not outlive their lease work on a    *)
(* case one at a time; what the operator and Devin do beside them opens no   *)
(* second attempt, so the attempt a loop drives is the only open one.        *)
(***************************************************************************)
Open(r) == Active(r) \/ r.status = "BLOCKED"

Known == Visible \cup {"Deleted"}

\* One row and the session of its attempt.
RowOK(r, s) ==
    /\ r.status = "BLOCKED" => r.sid \/ r.unresolved
    /\ r.sid => s \in Known
    /\ r.sid /\ r.status \in {"SUCCEEDED", "FAILED", "TIMED_OUT"} => s \notin NeverStopped

\* The attempts of a case in state st.
TableOK(rows, sessions, st) ==
    /\ \A a \in Attempts : RowOK(rows[a], sessions[a])
    /\ \A a, b \in Attempts : Open(rows[a]) /\ Open(rows[b]) => a = b
    /\ st = "HUMAN_BLOCKED" => \E a \in Attempts : rows[a].status = "BLOCKED"

\* Where a loop works on an attempt that has no session id yet, or has one.
Unattached == {"prepare", "post", "posted", "attach", "reconcile", "lookup"}
Attached == {"poll", "get", "settle", "finish", "final_get", "delete"}
OnRow == Unattached \cup Attached \cup {"tag", "mark"}
Driving == OnRow \cup {"orphan", "eligibility", "verdict", "run", "create", "insert",
                       "terminate"}

JobOK(j, rows, sessions, st) ==
    /\ j.pc \in Driving => st # "HUMAN_BLOCKED"
    /\ j.pc = "create" => \A a \in Attempts : ~Active(rows[a])
    /\ j.pc = "insert" => \A a \in Attempts : ~Open(rows[a])
    /\ j.pc \in OnRow => \A b \in Attempts \ {j.a} : ~Open(rows[b])
    /\ j.pc \in Unattached => Active(rows[j.a]) /\ ~rows[j.a].sid
    /\ j.pc = "attach" => sessions[j.a] \in Known
    /\ j.pc = "tag" => ~rows[j.a].sid
    /\ j.pc \in Attached \cup {"ingest"} => rows[j.a].sid
    /\ j.pc = "settle" => j.mem = "RUNNING"
    /\ j.pc = "lookup" => j.mem = "RECONCILING"
    /\ j.pc = "mark" /\ rows[j.a].sid => sessions[j.a] \notin NeverStopped
    /\ j.pc \in {"reconcile_blocked", "ingest"} => j.view = "HUMAN_BLOCKED"
    /\ j.pc = "ingest" /\ st = "HUMAN_BLOCKED" => rows[j.a].status = "BLOCKED"

\* The operator's job begins with the ingesting commit: one session is retained.
OperatorOK(j, rows) ==
    /\ j.pc \in {"idle", "settle", "finish"}
    /\ j.pc # "idle" => /\ rows[j.a].sid
                        /\ j.seen \in HasOutput
                        /\ j.view = "TRIAGING" /\ j.mem = "RUNNING"

HolderWorks == \A l \in Loops : job[l].pc # "idle" => claim = l /\ leased

LeaseInv ==
    /\ HolderWorks
    /\ OperatorOK(job[Operator], att)
    /\ TableOK(att, remote, state)
    /\ \A l \in Loops : JobOK(job[l], att, remote, state)

\* What a step of a loop has to establish.
Others(l) == \A k \in Actors \ {l} : job'[k] = job[k]

SidsKept == \A a \in Attempts : att[a].sid => att'[a].sid

Good(l) ==
    /\ Others(l)
    /\ job'[l].pc = "idle" \/ UNCHANGED lease
    /\ TableOK(att', remote', state') /\ SidsKept
    /\ JobOK(job'[l], att', remote', state')

Resting == {"idle", "release", "abandon", "mark_failed"}

LEMMA RestingOK ==
    ASSUME NEW j, NEW rows, NEW sessions, NEW st, j.pc \in Resting
    PROVE  JobOK(j, rows, sessions, st)
BY DEF JobOK, Resting, Driving, OnRow, Unattached, Attached

LEMMA GoodPreserves ==
    ASSUME TypeOK, LeaseInv, NEW l \in Loops, job[l].pc # "idle", Good(l)
    PROVE  LeaseInv'
<1>1. claim = l /\ leased /\ \A k \in Loops \ {l} : job[k].pc = "idle"
  BY DEF LeaseInv, HolderWorks
<1>2. Operator \in Actors /\ Operator # l /\ \A k \in Loops : k \in Actors
  BY ConstantsAssumption DEF Actors
<1>3. job'[Operator] = job[Operator] /\ \A k \in Loops \ {l} : job'[k] = job[k]
  BY <1>2 DEF Good, Others
<1>4. HolderWorks'
  BY <1>1, <1>3 DEF HolderWorks, Good, lease
<1>5. OperatorOK(job[Operator], att)'
  <2>1. job[Operator].a \in Attempts
    BY <1>2 DEF TypeOK, Job
  <2> QED
    BY <1>3, <2>1 DEF LeaseInv, OperatorOK, Good, SidsKept
<1>6. \A k \in Loops \ {l} : JobOK(job'[k], att', remote', state')
  BY <1>1, <1>3, RestingOK DEF Resting
<1>7. \A k \in Loops : JobOK(job'[k], att', remote', state')
  BY <1>6 DEF Good
<1> QED
  BY <1>4, <1>5, <1>7 DEF LeaseInv, Good, JobOK, TableOK, RowOK, Open, Active

\* What the outside world may do to a session, and the frames of the table.
SoftSession(s, t) ==
    /\ s \in Known => t \in Known
    /\ s \notin NeverStopped => t \notin NeverStopped

SoftDevin == \A a \in Attempts : SoftSession(remote[a], remote'[a])

WeakRow(r, t) ==
    /\ t.sid = r.sid /\ t.unresolved = r.unresolved
    /\ Open(t) => Open(r)
    /\ t.status = "BLOCKED" => r.status = "BLOCKED"
    /\ t.status \in {"SUCCEEDED", "FAILED", "TIMED_OUT"} =>
          r.status \in {"SUCCEEDED", "FAILED", "TIMED_OUT"}

WeakRows(rows) == \A a \in Attempts : WeakRow(att[a], rows[a])

StaysBlocked ==
    state' = "HUMAN_BLOCKED" =>
        /\ state = "HUMAN_BLOCKED"
        /\ \A a \in Attempts : att[a].status = "BLOCKED" => att'[a].status = "BLOCKED"

\* A step that opens, blocks and closes nothing anew keeps the table.
LEMMA WeakTable ==
    ASSUME LeaseInv, WeakRows(att'), SoftDevin, StaysBlocked
    PROVE  TableOK(att', remote', state') /\ SidsKept
<1>1. TableOK(att, remote, state)
  BY DEF LeaseInv
<1>2. \A a \in Attempts : RowOK(att'[a], remote'[a])
  <2> SUFFICES ASSUME NEW a \in Attempts PROVE RowOK(att'[a], remote'[a])
    OBVIOUS
  <2>1. WeakRow(att[a], att'[a]) /\ SoftSession(remote[a], remote'[a]) /\ RowOK(att[a], remote[a])
    BY <1>1 DEF WeakRows, SoftDevin, TableOK
  <2> QED
    BY <2>1 DEF WeakRow, SoftSession, RowOK
<1>3. \A a, b \in Attempts : Open(att'[a]) /\ Open(att'[b]) => a = b
  BY <1>1 DEF WeakRows, WeakRow, TableOK
<1>4. state' = "HUMAN_BLOCKED" => \E a \in Attempts : att'[a].status = "BLOCKED"
  BY <1>1 DEF StaysBlocked, TableOK
<1>5. SidsKept
  BY DEF WeakRows, WeakRow, SidsKept
<1> QED
  BY <1>2, <1>3, <1>4, <1>5 DEF TableOK

LEMMA AttWeak == WeakRows(att)
BY DEF WeakRows, WeakRow

LEMMA SameDevin ==
    ASSUME UNCHANGED remote
    PROVE  SoftDevin
BY DEF SoftDevin, SoftSession

LEMMA DeleteSoft ==
    ASSUME TypeOK, NEW S, remote' = DeleteSessions(S)
    PROVE  SoftDevin
BY DEF SoftDevin, SoftSession, DeleteSessions, Known, Visible, Snapshot, Stopped, NeverStopped

\* A step of the loop l at work ends its job and changes the table weakly.
LEMMA RestGood ==
    ASSUME TypeOK, LeaseInv, NEW l \in Loops, Others(l), job'[l].pc \in Resting,
           UNCHANGED lease, WeakRows(att'), SoftDevin, StaysBlocked
    PROVE  Good(l)
BY RestingOK, WeakTable DEF Good

\* The job records of an actor that leaves.
LEMMA JobEffect ==
    ASSUME TypeOK, NEW l \in Actors, NEW n, job' = [job EXCEPT ![l] = n]
    PROVE  Others(l) /\ job'[l] = n
BY DEF TypeOK, Others

LEMMA LeaveEffect ==
    ASSUME TypeOK, NEW l \in Actors, Leave(l)
    PROVE  Others(l) /\ job'[l].pc \in Resting
BY JobEffect, ResumesNothing DEF Leave, Resting

LEMMA LostEffect ==
    ASSUME TypeOK, NEW l \in Actors, job' = [job EXCEPT ![l] = Lost(l)]
    PROVE  Others(l) /\ job'[l].pc \in Resting
BY JobEffect, ResumesNothing DEF Resting

LEMMA GotoEffect ==
    ASSUME TypeOK, NEW l \in Actors, NEW pc, Goto(l, pc)
    PROVE  /\ Others(l)
           /\ job'[l].pc = pc /\ job'[l].a = job[l].a /\ job'[l].mem = job[l].mem
           /\ job'[l].seen = job[l].seen /\ job'[l].view = job[l].view
BY DEF TypeOK, Job, Goto, Others

\* Commit(): all of it, or nothing but the end of the job.
LEMMA CommitEffect ==
    ASSUME TypeOK, NEW l \in Actors, NEW to, NEW rows, NEW n, Commit(l, to, rows, n)
    PROVE  \/ CanMove(l, to) /\ state' = to /\ att' = rows /\ Others(l) /\ job'[l] = n
           \/ Others(l) /\ job'[l].pc \in Resting /\ UNCHANGED <<state, att>>
BY JobEffect, LostEffect DEF Commit

LEMMA RollbackGood ==
    ASSUME TypeOK, LeaseInv, NEW l \in Loops, Others(l), job'[l].pc \in Resting,
           UNCHANGED <<state, att>>, UNCHANGED lease, SoftDevin
    PROVE  Good(l)
<1>1. WeakRows(att') /\ StaysBlocked
  BY AttWeak DEF StaysBlocked
<1> QED
  BY <1>1, RestGood

LEMMA ParkWeak ==
    ASSUME NEW rows \in RowTable, WeakRows(rows)
    PROVE  /\ WeakRows(ParkForTermination(rows))
           /\ \A a \in Attempts : rows[a].status = "BLOCKED" =>
                 ParkForTermination(rows)[a].status = "BLOCKED"
<1> DEFINE p == ParkForTermination(rows)
<1>1. \A a \in Attempts :
        /\ p[a].sid = rows[a].sid /\ p[a].unresolved = rows[a].unresolved
        /\ \/ p[a].status = rows[a].status
           \/ Active(rows[a]) /\ p[a].status = "TERMINATION_PENDING"
  BY DEF ParkForTermination, MayBeLive, ActiveAttempts, RowTable, AttemptRow
<1> HIDE DEF p
<1> QED
  BY <1>1 DEF WeakRows, WeakRow, Open, Active, ACTIVE_ATTEMPT_STATUSES, p

\* fail_case() on a table that changed weakly.
LEMMA FailCaseWeak ==
    ASSUME TypeOK, NEW l \in Actors, NEW rows \in RowTable, WeakRows(rows),
           state = "HUMAN_BLOCKED" => rows = att, FailCase(l, rows)
    PROVE  Others(l) /\ job'[l].pc \in Resting /\ WeakRows(att') /\ StaysBlocked
<1> DEFINE p == ParkForTermination(rows)
<1>1. WeakRows(p) /\ \A a \in Attempts : rows[a].status = "BLOCKED" => p[a].status = "BLOCKED"
  BY ParkWeak
<1>2. Exit(l).pc \in Resting
  BY ResumesNothing DEF Resting
<1> HIDE DEF p
<1>3. ASSUME NEW to \in {"FAILED", "TERMINATION_PENDING"}, NEW t \in {rows, p},
             Commit(l, to, t, Exit(l))
      PROVE  Others(l) /\ job'[l].pc \in Resting /\ WeakRows(att') /\ StaysBlocked
  BY <1>1, <1>2, <1>3, CommitEffect, AttWeak DEF StaysBlocked
<1>4. CASE att' \in {rows, p} /\ Leave(l) /\ UNCHANGED state
  <2>1. Others(l) /\ job'[l].pc \in Resting
    BY <1>4, LeaveEffect
  <2> QED
    BY <1>1, <1>4, <2>1 DEF StaysBlocked
<1> QED
  BY <1>3, <1>4 DEF FailCase, p

\* What a loop that drives an attempt can rely on.
LEMMA OnRowFacts ==
    ASSUME TypeOK, LeaseInv, NEW l \in Loops, job[l].pc \in OnRow
    PROVE  /\ l \in Actors /\ job[l] \in Job /\ job[l].a \in Attempts
           /\ att[job[l].a] \in AttemptRow
           /\ RowOK(att[job[l].a], remote[job[l].a])
           /\ state # "HUMAN_BLOCKED"
           /\ \A b \in Attempts \ {job[l].a} : ~Open(att[b])
           /\ JobOK(job[l], att, remote, state)
<1>1. l \in Actors /\ job[l] \in Job /\ job[l].a \in Attempts
  BY DEF Actors, TypeOK, Job
<1>2. JobOK(job[l], att, remote, state) /\ RowOK(att[job[l].a], remote[job[l].a])
  BY <1>1 DEF LeaseInv, TableOK
<1> QED
  BY <1>1, <1>2 DEF JobOK, Driving, TypeOK

\* A loop rewrites the row of the attempt it drives.
LEMMA PutTable ==
    ASSUME TypeOK, LeaseInv, NEW l \in Loops, job[l].pc \in OnRow,
           NEW r \in AttemptRow, att' = Put(l, r),
           RowOK(r, remote'[job[l].a]), att[job[l].a].sid => r.sid,
           \A b \in Attempts \ {job[l].a} : SoftSession(remote[b], remote'[b]),
           state' = "HUMAN_BLOCKED" => r.status = "BLOCKED"
    PROVE  /\ TableOK(att', remote', state') /\ SidsKept
           /\ att'[job[l].a] = r
           /\ \A b \in Attempts \ {job[l].a} : ~Open(att'[b])
<1> DEFINE a == job[l].a
<1>1. a \in Attempts /\ \A b \in Attempts \ {a} : ~Open(att[b]) /\ RowOK(att[b], remote[b])
  BY OnRowFacts DEF LeaseInv, TableOK
<1>2. att'[a] = r /\ \A b \in Attempts \ {a} : att'[b] = att[b]
  BY <1>1 DEF Put, TypeOK
<1>3. \A b \in Attempts \ {a} : RowOK(att[b], remote'[b])
  BY <1>1 DEF RowOK, SoftSession
<1>4. \A b \in Attempts : RowOK(att'[b], remote'[b])
  BY <1>2, <1>3
<1>5. \A b, c \in Attempts : Open(att'[b]) /\ Open(att'[c]) => b = c
  BY <1>1, <1>2
<1>6. SidsKept
  BY <1>2 DEF SidsKept
<1> QED
  BY <1>1, <1>2, <1>4, <1>5, <1>6 DEF TableOK

\* The row a status change leaves is as good as the one it was, unless it blocks or
\* ends the attempt.
LEMMA RowStaysOK ==
    ASSUME NEW q, NEW r, NEW s, RowOK(q, s), r.sid = q.sid,
           q.unresolved => r.unresolved,
           \/ r.status = q.status
           \/ r.status \notin {"BLOCKED", "SUCCEEDED", "FAILED", "TIMED_OUT"}
    PROVE  RowOK(r, s)
BY DEF RowOK

\* The row of an attempt that ends, its session having ended if its id is known.
LEMMA RowEndsOK ==
    ASSUME NEW q, NEW r, NEW s, RowOK(q, s), r.sid = q.sid,
           q.unresolved => r.unresolved, q.sid => s \notin NeverStopped,
           r.status = q.status \/ r.status # "BLOCKED"
    PROVE  RowOK(r, s)
BY DEF RowOK

\* fail_case() on the row of the attempt a loop drives.
LEMMA FailCaseOnRow ==
    ASSUME TypeOK, LeaseInv, NEW l \in Loops, job[l].pc \in OnRow, UNCHANGED lease,
           NEW r \in AttemptRow, FailCase(l, Put(l, r)),
           RowOK(r, remote'[job[l].a]), att[job[l].a].sid => r.sid, SoftDevin
    PROVE  Good(l)
<1> DEFINE a == job[l].a
           t == [r EXCEPT !.status = "TERMINATION_PENDING", !.reason = "worker_error"]
           rows == Put(l, r)
           p == ParkForTermination(rows)
<1>1. /\ l \in Actors /\ a \in Attempts /\ state # "HUMAN_BLOCKED"
      /\ \A b \in Attempts \ {a} : ~Open(att[b])
  BY OnRowFacts
<1>2. /\ t \in AttemptRow /\ t.sid = r.sid /\ t.unresolved = r.unresolved
      /\ t.status = "TERMINATION_PENDING"
  BY Literals DEF AttemptRow, Reason
<1>3. rows[a] = r /\ \A b \in Attempts \ {a} : rows[b] = att[b]
  BY <1>1 DEF Put, TypeOK
<1>4. \A b \in Attempts \ {a} : b \notin MayBeLive(rows)
  BY <1>1, <1>3 DEF MayBeLive, ActiveAttempts, Open
<1>5. p = Put(l, t) \/ p = rows
  <2>1. p[a] \in {r, t} /\ \A b \in Attempts \ {a} : p[b] = att[b]
    BY <1>1, <1>3, <1>4 DEF ParkForTermination
  <2>2. p = [b \in Attempts |-> p[b]]
    BY DEF ParkForTermination
  <2>3. Put(l, t) = [b \in Attempts |-> IF b = a THEN t ELSE att[b]]
    BY DEF Put, TypeOK
  <2>4. rows = [b \in Attempts |-> IF b = a THEN r ELSE att[b]]
    BY DEF Put, TypeOK
  <2> HIDE DEF p, rows, t
  <2> QED
    BY <2>1, <2>2, <2>3, <2>4
<1>6. RowOK(t, remote'[a])
  BY <1>2, RowStaysOK
<1> HIDE DEF t, p, rows
<1>7. ASSUME NEW u \in {r, t}, att' = Put(l, u), Others(l), job'[l].pc \in Resting,
             state' # "HUMAN_BLOCKED"
      PROVE  Good(l)
  <2>1. u \in AttemptRow /\ RowOK(u, remote'[a]) /\ (att[a].sid => u.sid)
    BY <1>2, <1>6
  <2>2. TableOK(att', remote', state') /\ SidsKept
    BY <1>7, <2>1, PutTable DEF SoftDevin
  <2> QED
    BY <1>7, <2>2, RestingOK DEF Good
<1>8. ASSUME NEW to \in {"FAILED", "TERMINATION_PENDING"}, NEW u \in {rows, p},
             Commit(l, to, u, Exit(l))
      PROVE  Good(l)
  <2>1. Exit(l).pc \in Resting
    BY <1>1, ResumesNothing DEF Resting
  <2>2. CASE state' = to /\ att' = u /\ Others(l) /\ job'[l] = Exit(l)
    BY <1>5, <1>7, <2>1, <2>2 DEF rows
  <2>3. CASE Others(l) /\ job'[l].pc \in Resting /\ UNCHANGED <<state, att>>
    BY <2>3, RollbackGood
  <2> QED
    BY <1>1, <1>8, <2>2, <2>3, CommitEffect
<1>9. CASE att' \in {rows, p} /\ Leave(l) /\ UNCHANGED state
  <2>1. Others(l) /\ job'[l].pc \in Resting
    BY <1>1, <1>9, LeaveEffect
  <2> QED
    BY <1>1, <1>5, <1>7, <1>9, <2>1 DEF rows
<1> QED
  BY <1>8, <1>9 DEF FailCase, rows, p

\* The loop goes on with the row r of its attempt.
LEMMA GoesOnGood ==
    ASSUME TypeOK, LeaseInv, NEW l \in Loops, job[l].pc \in OnRow, UNCHANGED lease,
           NEW r \in AttemptRow, att' = Put(l, r), Others(l),
           RowOK(r, remote'[job[l].a]), att[job[l].a].sid => r.sid,
           \A b \in Attempts \ {job[l].a} : SoftSession(remote[b], remote'[b]),
           state' # "HUMAN_BLOCKED",
           job'[l].pc \in OnRow, job'[l].a = job[l].a,
           job'[l].pc \in Unattached => Active(r) /\ ~r.sid,
           job'[l].pc = "attach" => remote'[job[l].a] \in Known,
           job'[l].pc = "tag" => ~r.sid,
           job'[l].pc \in Attached => r.sid,
           job'[l].pc = "settle" => job'[l].mem = "RUNNING",
           job'[l].pc = "lookup" => job'[l].mem = "RECONCILING",
           job'[l].pc = "mark" /\ r.sid => remote'[job[l].a] \notin NeverStopped
    PROVE  Good(l)
<1>1. /\ TableOK(att', remote', state') /\ SidsKept /\ att'[job[l].a] = r
      /\ \A b \in Attempts \ {job[l].a} : ~Open(att'[b])
  BY PutTable
<1>2. job'[l].pc \notin {"create", "insert", "reconcile_blocked", "ingest"}
  BY DEF OnRow, Unattached, Attached
<1>3. JobOK(job'[l], att', remote', state')
  BY <1>1, <1>2 DEF JobOK
<1> QED
  BY <1>1, <1>3 DEF Good

\* The loop is done with its attempt, whose row it leaves as r.
LEMMA EndsGood ==
    ASSUME TypeOK, LeaseInv, NEW l \in Loops, job[l].pc \in OnRow, UNCHANGED lease,
           NEW r \in AttemptRow, att' = Put(l, r), Others(l), job'[l].pc \in Resting,
           RowOK(r, remote'[job[l].a]), att[job[l].a].sid => r.sid, SoftDevin,
           state' = "HUMAN_BLOCKED" => r.status = "BLOCKED"
    PROVE  Good(l)
<1>1. TableOK(att', remote', state') /\ SidsKept
  BY PutTable DEF SoftDevin
<1> QED
  BY <1>1, RestingOK DEF Good

LEMMA PutSame ==
    ASSUME TypeOK, NEW l \in Actors
    PROVE  att = Put(l, att[job[l].a])
BY DEF Put, TypeOK, Job

LEMMA StatusFields ==
    ASSUME TypeOK, NEW l \in Actors, NEW s \in AttemptStatus
    PROVE  /\ Row(l, s) \in AttemptRow
           /\ Row(l, s).sid = att[job[l].a].sid
           /\ Row(l, s).unresolved = att[job[l].a].unresolved
           /\ Row(l, s).status \in {att[job[l].a].status, s}
           /\ job[l].mem # s => Row(l, s).status = s
           /\ Closed(l, s) \in AttemptRow
           /\ Closed(l, s).sid = att[job[l].a].sid
           /\ Closed(l, s).unresolved = att[job[l].a].unresolved
           /\ Closed(l, s).status \in {att[job[l].a].status, s}
           /\ job[l].mem # s => Closed(l, s).status = s
BY RowFields

LEMMA SameSessions ==
    ASSUME UNCHANGED remote
    PROVE  SoftDevin /\ \A b \in Attempts : SoftSession(remote[b], remote'[b])
BY DEF SoftDevin, SoftSession

\* The loop goes on, and the table is as it was.
LEMMA MovesGood ==
    ASSUME TypeOK, LeaseInv, NEW l \in Loops, job[l].pc \in OnRow, UNCHANGED lease,
           UNCHANGED <<state, att>>, SoftDevin, Others(l),
           job'[l].pc \in OnRow, job'[l].a = job[l].a,
           job'[l].pc \in Unattached => Active(att[job[l].a]) /\ ~att[job[l].a].sid,
           job'[l].pc = "attach" => remote'[job[l].a] \in Known,
           job'[l].pc = "tag" => ~att[job[l].a].sid,
           job'[l].pc \in Attached => att[job[l].a].sid,
           job'[l].pc = "settle" => job'[l].mem = "RUNNING",
           job'[l].pc = "lookup" => job'[l].mem = "RECONCILING",
           job'[l].pc = "mark" /\ att[job[l].a].sid => remote'[job[l].a] \notin NeverStopped
    PROVE  Good(l)
<1>1. PICK q \in AttemptRow : q = att[job[l].a] /\ att' = Put(l, q)
  BY OnRowFacts, PutSame
<1>2. RowOK(q, remote'[job[l].a]) /\ state' # "HUMAN_BLOCKED"
  BY <1>1, OnRowFacts DEF RowOK, SoftDevin, SoftSession
<1> QED
  BY <1>1, <1>2, GoesOnGood DEF SoftDevin

LEMMA PrepareGood ==
    ASSUME TypeOK, LeaseInv, NEW l \in Loops, Prepare(l)
    PROVE  job[l].pc # "idle" /\ Good(l)
<1> DEFINE q == att[job[l].a]
           c == Closed(l, "FAILED")
           r == [q EXCEPT !.sent = TRUE]
<1>1. job[l].pc = "prepare" /\ job[l].pc \in OnRow /\ UNCHANGED lease /\ UNCHANGED remote
  BY DEF Prepare, At, OnRow, Unattached, devin
<1>2. l \in Actors /\ q \in AttemptRow /\ Active(q) /\ ~q.sid /\ state # "HUMAN_BLOCKED"
      /\ RowOK(q, remote[job[l].a])
  BY <1>1, OnRowFacts DEF JobOK, Unattached
<1>3. SoftDevin /\ \A b \in Attempts : SoftSession(remote[b], remote'[b])
  BY <1>1, SameSessions
<1>4. CASE att' = Put(l, r) /\ Goto(l, "post") /\ UNCHANGED state
  <2>1. r \in AttemptRow /\ r.sid = q.sid /\ r.unresolved = q.unresolved /\ r.status = q.status
    BY <1>2 DEF AttemptRow
  <2> HIDE DEF r
  <2>2. RowOK(r, remote'[job[l].a]) /\ Active(r) /\ ~r.sid
    BY <1>1, <1>2, <2>1, RowStaysOK DEF Active
  <2>3. Others(l) /\ job'[l].pc = "post" /\ job'[l].a = job[l].a
    BY <1>2, <1>4, GotoEffect
  <2> QED
    BY <1>1, <1>2, <1>3, <1>4, <2>1, <2>2, <2>3, GoesOnGood DEF OnRow, Unattached, Attached
<1>5. CASE FailCase(l, Put(l, c))
  <2>1. c \in AttemptRow /\ c.sid = q.sid /\ c.unresolved = q.unresolved
        /\ c.status \in {q.status, "FAILED"}
    BY <1>2, Literals, StatusFields
  <2>2. RowOK(c, remote'[job[l].a])
    BY <1>1, <1>2, <2>1, RowEndsOK
  <2> HIDE DEF c
  <2> QED
    BY <1>1, <1>2, <1>3, <1>5, <2>1, <2>2, FailCaseOnRow
<1> QED
  BY <1>1, <1>4, <1>5 DEF Prepare

\* The POST: the row has no session id yet, so it says nothing of a session.
LEMMA SendGood ==
    ASSUME TypeOK, LeaseInv, NEW l \in Loops, Send(l)
    PROVE  job[l].pc # "idle" /\ Good(l)
<1> DEFINE a == job[l].a
<1>1. job[l].pc = "post" /\ job[l].pc \in OnRow /\ UNCHANGED lease /\ UNCHANGED <<state, att>>
  BY DEF Send, At, OnRow, Unattached
<1>2. /\ l \in Actors /\ a \in Attempts /\ att[a] \in AttemptRow
      /\ Active(att[a]) /\ ~att[a].sid /\ state # "HUMAN_BLOCKED"
  BY <1>1, OnRowFacts DEF JobOK, Unattached
<1>3. \A b \in Attempts \ {a} : SoftSession(remote[b], remote'[b])
  BY <1>2 DEF Send, SoftSession, TypeOK
<1>4. RowOK(att[a], remote'[a])
  BY <1>2 DEF RowOK, Active, ACTIVE_ATTEMPT_STATUSES
<1>5. Others(l) /\ job'[l].pc = "posted" /\ job'[l].a = a
  BY <1>2, GotoEffect DEF Send
<1>6. PICK q \in AttemptRow : q = att[a] /\ att' = Put(l, q)
  BY <1>1, <1>2, PutSame
<1> QED
  BY <1>1, <1>2, <1>3, <1>4, <1>5, <1>6, GoesOnGood DEF OnRow, Unattached, Attached

LEMMA PostGood ==
    ASSUME TypeOK, LeaseInv, NEW l \in Loops, PostOk(l) \/ PostRejected(l) \/ PostLost(l)
    PROVE  job[l].pc # "idle" /\ Good(l)
<1> DEFINE a == job[l].a
           q == att[a]
<1>1. job[l].pc = "posted" /\ job[l].pc \in OnRow /\ UNCHANGED lease
  BY DEF PostOk, PostRejected, PostLost, At, OnRow, Unattached
<1>2. /\ l \in Actors /\ a \in Attempts /\ q \in AttemptRow /\ RowOK(q, remote[a])
      /\ job[l] \in Job /\ Active(q) /\ ~q.sid /\ state # "HUMAN_BLOCKED"
  BY <1>1, OnRowFacts DEF JobOK, Unattached
<1>3. CASE PostOk(l)
  <2>1. remote[a] \in Known /\ UNCHANGED remote /\ UNCHANGED <<state, att>>
    BY <1>2, <1>3 DEF PostOk, Known, Session, TypeOK, devin
  <2>2. Others(l) /\ job'[l].pc = "attach" /\ job'[l].a = a
    BY <1>2, <1>3, GotoEffect DEF PostOk
  <2>3. SoftDevin
    BY <2>1, SameSessions
  <2> QED
    BY <1>1, <1>2, <2>1, <2>2, <2>3, MovesGood DEF OnRow, Unattached, Attached
<1>4. CASE PostRejected(l)
  <2> DEFINE c == Closed(l, "FAILED")
  <2>1. /\ c \in AttemptRow /\ c.sid = q.sid /\ c.unresolved = q.unresolved
        /\ c.status \in {q.status, "FAILED"}
    BY <1>2, Literals, StatusFields
  <2>2. SoftDevin
    BY <1>2, <1>4 DEF PostRejected, SoftDevin, SoftSession, TypeOK, Known,
       Visible, Snapshot, Stopped, NeverStopped
  <2>3. RowOK(c, remote'[a])
    BY <1>2, <2>1 DEF RowOK, Active, ACTIVE_ATTEMPT_STATUSES
  <2>4. FailCase(l, Put(l, c))
    BY <1>4 DEF PostRejected
  <2> HIDE DEF c
  <2> QED
    BY <1>1, <1>2, <2>1, <2>2, <2>3, <2>4, FailCaseOnRow
<1>5. CASE PostLost(l)
  <2> DEFINE p == Row(l, "RECONCILING")
             r == [p EXCEPT !.reason = "other"]
             n == [Then(l, "reconcile", "RECONCILING_CREATE") EXCEPT !.mem = "RECONCILING"]
  <2>1. /\ p \in AttemptRow /\ p.sid = q.sid /\ p.unresolved = q.unresolved
        /\ p.status \in {q.status, "RECONCILING"}
    BY <1>2, Literals, StatusFields
  <2>2. r \in AttemptRow /\ r.sid = p.sid /\ r.unresolved = p.unresolved /\ r.status = p.status
    BY <2>1, ReasonLiterals, ReasonFields
  <2>3. n.pc = "reconcile" /\ n.a = a
    BY <1>2 DEF Then, Job
  <2>4. Commit(l, "RECONCILING_CREATE", Put(l, r), n) /\ UNCHANGED remote
    BY <1>5 DEF PostLost, devin
  <2> HIDE DEF p, r, n
  <2>5. SoftDevin /\ \A b \in Attempts : SoftSession(remote[b], remote'[b])
    BY <2>4, SameSessions
  <2>6. RowOK(r, remote'[a]) /\ Active(r) /\ ~r.sid
    BY <1>2, <2>1, <2>2, <2>4, RowStaysOK DEF Active, ACTIVE_ATTEMPT_STATUSES
  <2>7. CASE /\ state' = "RECONCILING_CREATE" /\ att' = Put(l, r)
             /\ Others(l) /\ job'[l] = n
    BY <1>1, <1>2, <2>2, <2>3, <2>5, <2>6, <2>7, GoesOnGood DEF OnRow, Unattached, Attached
  <2>8. CASE Others(l) /\ job'[l].pc \in Resting /\ UNCHANGED <<state, att>>
    BY <1>1, <2>5, <2>8, RollbackGood
  <2> QED
    BY <1>2, <2>4, <2>7, <2>8, CommitEffect
<1> QED
  BY <1>1, <1>3, <1>4, <1>5

LEMMA AttachGood ==
    ASSUME TypeOK, LeaseInv, NEW l \in Loops, Attach(l)
    PROVE  job[l].pc # "idle" /\ Good(l)
<1> DEFINE a == job[l].a
           q == att[a]
           p == Row(l, "RUNNING")
           r == [p EXCEPT !.sid = TRUE, !.reason = "none", !.late = FALSE]
           c == [q EXCEPT !.status = "CANCELLED", !.sid = TRUE, !.finished = TRUE]
           n == [Then(l, "poll", "TRIAGING") EXCEPT !.mem = "RUNNING"]
<1>1. job[l].pc = "attach" /\ job[l].pc \in OnRow /\ UNCHANGED lease /\ UNCHANGED remote
  BY DEF Attach, At, OnRow, Unattached, devin
<1>2. /\ l \in Actors /\ a \in Attempts /\ q \in AttemptRow /\ RowOK(q, remote[a])
      /\ job[l] \in Job /\ Active(q) /\ state # "HUMAN_BLOCKED" /\ remote[a] \in Known
  BY <1>1, OnRowFacts DEF JobOK, Unattached
<1>3. p \in AttemptRow /\ p.status \in {q.status, "RUNNING"}
  BY <1>2, Literals, StatusFields
<1>4. r \in AttemptRow /\ r.sid /\ r.status = p.status
  BY <1>3 DEF AttemptRow, Reason
<1>5. c \in AttemptRow /\ c.sid /\ c.status = "CANCELLED"
  BY <1>2, Literals DEF AttemptRow
<1>6. n.pc = "poll" /\ n.a = a
  BY <1>2 DEF Then, Job
<1>7. \/ Commit(l, "TRIAGING", Put(l, r), n)
      \/ att' = Put(l, c) /\ Goto(l, "orphan") /\ UNCHANGED state
  BY DEF Attach
<1> HIDE DEF p, r, c, n
<1>8. SoftDevin /\ \A b \in Attempts : SoftSession(remote[b], remote'[b])
  BY <1>1, SameSessions
<1>9. RowOK(r, remote'[a]) /\ RowOK(c, remote'[a])
  BY <1>1, <1>2, <1>3, <1>4, <1>5 DEF RowOK, Active, ACTIVE_ATTEMPT_STATUSES
<1>10. CASE Commit(l, "TRIAGING", Put(l, r), n)
  <2>1. CASE state' = "TRIAGING" /\ att' = Put(l, r) /\ Others(l) /\ job'[l] = n
    BY <1>1, <1>2, <1>4, <1>6, <1>8, <1>9, <2>1, GoesOnGood DEF OnRow, Unattached, Attached
  <2>2. CASE Others(l) /\ job'[l].pc \in Resting /\ UNCHANGED <<state, att>>
    BY <1>1, <1>8, <2>2, RollbackGood
  <2> QED
    BY <1>2, <1>10, <2>1, <2>2, CommitEffect
<1>11. CASE att' = Put(l, c) /\ Goto(l, "orphan") /\ UNCHANGED state
  <2>1. Others(l) /\ job'[l].pc = "orphan"
    BY <1>2, <1>11, GotoEffect
  <2>2. TableOK(att', remote', state') /\ SidsKept
    BY <1>1, <1>2, <1>5, <1>8, <1>9, <1>11, PutTable
  <2>3. JobOK(job'[l], att', remote', state')
    BY <1>2, <1>11, <2>1 DEF JobOK, OnRow, Unattached, Attached
  <2> QED
    BY <1>1, <2>1, <2>2, <2>3 DEF Good
<1> QED
  BY <1>1, <1>7, <1>10, <1>11

LEMMA OrphanGood ==
    ASSUME TypeOK, LeaseInv, NEW l \in Loops, Orphan(l)
    PROVE  job[l].pc # "idle" /\ Good(l)
<1>1. job[l].pc = "orphan" /\ UNCHANGED lease /\ UNCHANGED <<state, att>> /\ l \in Actors
  BY DEF Orphan, At, Actors
<1>2. SoftDevin
  BY SameDevin, DeleteSoft DEF Orphan
<1>3. Others(l) /\ job'[l].pc \in Resting
  BY <1>1, GotoEffect DEF Orphan, Resting
<1> QED
  BY <1>1, <1>2, <1>3, RollbackGood

LEMMA ReconcileGood ==
    ASSUME TypeOK, LeaseInv, NEW l \in Loops, Reconcile(l)
    PROVE  job[l].pc # "idle" /\ Good(l)
<1> DEFINE a == job[l].a
           q == att[a]
           p == Row(l, "RECONCILING")
           r == [p EXCEPT !.reason = "other"]
           n == [job[l] EXCEPT !.pc = "lookup", !.mem = "RECONCILING"]
           m == [n EXCEPT !.view = "RECONCILING_CREATE"]
<1>1. job[l].pc = "reconcile" /\ job[l].pc \in OnRow /\ UNCHANGED lease /\ UNCHANGED remote
  BY DEF Reconcile, At, OnRow, Unattached, devin
<1>2. /\ l \in Actors /\ a \in Attempts /\ q \in AttemptRow /\ RowOK(q, remote[a])
      /\ job[l] \in Job /\ Active(q) /\ ~q.sid /\ state # "HUMAN_BLOCKED"
  BY <1>1, OnRowFacts DEF JobOK, Unattached
<1>3. /\ p \in AttemptRow /\ p.sid = q.sid /\ p.unresolved = q.unresolved
      /\ p.status \in {q.status, "RECONCILING"}
  BY <1>2, Literals, StatusFields
<1>4. r \in AttemptRow /\ r.sid = p.sid /\ r.unresolved = p.unresolved /\ r.status = p.status
  BY <1>3, ReasonLiterals, ReasonFields
<1>5. /\ n.pc = "lookup" /\ n.a = a /\ n.mem = "RECONCILING"
      /\ m.pc = "lookup" /\ m.a = a /\ m.mem = "RECONCILING"
  BY <1>2 DEF Job
<1>6. \/ Commit(l, "RECONCILING_CREATE", Put(l, r), m)
      \/ att' = Put(l, r) /\ job' = [job EXCEPT ![l] = n] /\ UNCHANGED state
  BY DEF Reconcile
<1> HIDE DEF p, r, n, m
<1>7. SoftDevin /\ \A b \in Attempts : SoftSession(remote[b], remote'[b])
  BY <1>1, SameSessions
<1>8. RowOK(r, remote'[a]) /\ Active(r) /\ ~r.sid
  BY <1>1, <1>2, <1>3, <1>4, RowStaysOK DEF Active, ACTIVE_ATTEMPT_STATUSES
<1>9. \/ Others(l) /\ job'[l].pc \in Resting /\ UNCHANGED <<state, att>>
      \/ /\ state' # "HUMAN_BLOCKED" /\ att' = Put(l, r) /\ Others(l)
         /\ job'[l].pc = "lookup" /\ job'[l].a = a /\ job'[l].mem = "RECONCILING"
  BY <1>2, <1>5, <1>6, CommitEffect, JobEffect
<1>10. CASE Others(l) /\ job'[l].pc \in Resting /\ UNCHANGED <<state, att>>
  BY <1>1, <1>7, <1>10, RollbackGood
<1>11. CASE /\ state' # "HUMAN_BLOCKED" /\ att' = Put(l, r) /\ Others(l)
            /\ job'[l].pc = "lookup" /\ job'[l].a = a /\ job'[l].mem = "RECONCILING"
  BY <1>1, <1>2, <1>4, <1>7, <1>8, <1>11, GoesOnGood DEF OnRow, Unattached, Attached
<1> QED
  BY <1>1, <1>9, <1>10, <1>11

LEMMA LookupGood ==
    ASSUME TypeOK, LeaseInv, NEW l \in Loops, Lookup(l)
    PROVE  job[l].pc # "idle" /\ Good(l)
<1> DEFINE a == job[l].a
           q == att[a]
           c == Closed(l, "BLOCKED")
           u == [c EXCEPT !.unresolved = TRUE, !.reason = "other"]
<1>1. job[l].pc = "lookup" /\ job[l].pc \in OnRow /\ UNCHANGED lease /\ UNCHANGED remote
  BY DEF Lookup, At, OnRow, Unattached, devin
<1>2. /\ l \in Actors /\ a \in Attempts /\ q \in AttemptRow /\ RowOK(q, remote[a])
      /\ job[l] \in Job /\ Active(q) /\ ~q.sid /\ state # "HUMAN_BLOCKED"
      /\ job[l].mem = "RECONCILING"
  BY <1>1, OnRowFacts DEF JobOK, Unattached
<1>3. SoftDevin /\ \A b \in Attempts : SoftSession(remote[b], remote'[b])
  BY <1>1, SameSessions
<1>4. CASE remote[a] \in Visible /\ Goto(l, "attach") /\ UNCHANGED <<state, att>>
  <2>1. Others(l) /\ job'[l].pc = "attach" /\ job'[l].a = a
    BY <1>2, <1>4, GotoEffect
  <2>2. remote'[a] \in Known
    BY <1>1, <1>4 DEF Known
  <2> QED
    BY <1>1, <1>2, <1>3, <1>4, <2>1, <2>2, MovesGood DEF OnRow, Unattached, Attached
<1>5. CASE Commit(l, "HUMAN_BLOCKED", Put(l, u), Exit(l))
  <2>1. c \in AttemptRow /\ c.sid = q.sid /\ c.status = "BLOCKED"
    BY <1>2, Literals, StatusFields
  <2>2. u \in AttemptRow /\ u.sid = c.sid /\ u.unresolved /\ u.status = c.status
    BY <2>1, ReasonLiterals, ReasonFields
  <2> HIDE DEF c, u
  <2>3. RowOK(u, remote'[a])
    BY <1>2, <2>1, <2>2 DEF RowOK
  <2>4. CASE state' = "HUMAN_BLOCKED" /\ att' = Put(l, u) /\ Others(l) /\ job'[l] = Exit(l)
    <3>1. job'[l].pc \in Resting
      BY <1>2, <2>4, ResumesNothing DEF Resting
    <3> QED
      BY <1>1, <1>2, <1>3, <2>1, <2>2, <2>3, <2>4, <3>1, EndsGood
  <2>5. CASE Others(l) /\ job'[l].pc \in Resting /\ UNCHANGED <<state, att>>
    BY <1>1, <1>3, <2>5, RollbackGood
  <2> QED
    BY <1>2, <1>5, <2>4, <2>5, CommitEffect
<1> QED
  BY <1>1, <1>4, <1>5 DEF Lookup

LEMMA PollGood ==
    ASSUME TypeOK, LeaseInv, NEW l \in Loops, Poll(l)
    PROVE  job[l].pc # "idle" /\ Good(l)
<1> DEFINE a == job[l].a
           q == att[a]
           p == Row(l, "TERMINATION_PENDING")
           r == [p EXCEPT !.reason = "cancel"]
           n == [job[l] EXCEPT !.pc = "final_get", !.view = state,
                               !.mem = "TERMINATION_PENDING"]
           m(pc) == [job[l] EXCEPT !.pc = pc, !.view = state]
<1>1. /\ job[l].pc = "poll" /\ job[l].pc \in OnRow /\ UNCHANGED lease
      /\ UNCHANGED remote /\ UNCHANGED state
  BY DEF Poll, At, OnRow, Attached, devin
<1>2. /\ l \in Actors /\ a \in Attempts /\ q \in AttemptRow /\ RowOK(q, remote[a])
      /\ job[l] \in Job /\ q.sid /\ state # "HUMAN_BLOCKED"
  BY <1>1, OnRowFacts DEF JobOK, Attached
<1>3. SoftDevin /\ \A b \in Attempts : SoftSession(remote[b], remote'[b])
  BY <1>1, SameSessions
<1>4. /\ p \in AttemptRow /\ p.sid = q.sid /\ p.unresolved = q.unresolved
      /\ p.status \in {q.status, "TERMINATION_PENDING"}
  BY <1>2, Literals, StatusFields
<1>5. r \in AttemptRow /\ r.sid = p.sid /\ r.unresolved = p.unresolved /\ r.status = p.status
  BY <1>4, ReasonLiterals, ReasonFields
<1>6. /\ n.pc = "final_get" /\ n.a = a
      /\ \A pc \in {"final_get", "get"} : m(pc).pc = pc /\ m(pc).a = a
  BY <1>2 DEF Job
<1>7. \/ att' = Put(l, r) /\ job' = [job EXCEPT ![l] = n]
      \/ att' = att /\ \E pc \in {"final_get", "get"} : job' = [job EXCEPT ![l] = m(pc)]
  BY <1>2 DEF Poll, TypeOK
<1> HIDE DEF p, r, n, m
<1>8. Others(l) /\ job'[l].pc \in {"final_get", "get"} /\ job'[l].a = a
  BY <1>2, <1>6, <1>7, JobEffect
<1>9. CASE att' = Put(l, r)
  <2>1. RowOK(r, remote'[a]) /\ r.sid
    BY <1>1, <1>2, <1>4, <1>5, RowStaysOK
  <2> QED
    BY <1>1, <1>2, <1>3, <1>5, <1>8, <1>9, <2>1, GoesOnGood DEF OnRow, Unattached, Attached
<1>10. CASE att' = att
  BY <1>1, <1>2, <1>3, <1>8, <1>10, MovesGood DEF OnRow, Unattached, Attached
<1> QED
  BY <1>1, <1>7, <1>9, <1>10

LEMMA GetGood ==
    ASSUME TypeOK, LeaseInv, NEW l \in Loops, Get(l)
    PROVE  job[l].pc # "idle" /\ Good(l)
<1> DEFINE a == job[l].a
           q == att[a]
           c == Closed(l, "FAILED")
           p == Row(l, "RECONCILING")
           r == [p EXCEPT !.reason = "other"]
           g == Row(l, "RUNNING")
           h == [g EXCEPT !.reason = "none"]
           m == [job[l] EXCEPT !.pc = "poll", !.mem = "RECONCILING"]
<1>1. job[l].pc = "get" /\ job[l].pc \in OnRow /\ UNCHANGED lease /\ UNCHANGED remote
  BY DEF Get, At, OnRow, Attached, devin
<1>2. /\ l \in Actors /\ a \in Attempts /\ q \in AttemptRow /\ RowOK(q, remote[a])
      /\ job[l] \in Job /\ q.sid /\ state # "HUMAN_BLOCKED"
  BY <1>1, OnRowFacts DEF JobOK, Attached
<1>3. SoftDevin /\ \A b \in Attempts : SoftSession(remote[b], remote'[b])
  BY <1>1, SameSessions
<1>4. ASSUME NEW t \in AttemptRow, t.sid = q.sid, t.unresolved = q.unresolved,
             t.status \in {q.status, "RUNNING", "RECONCILING"},
             att' = Put(l, t), UNCHANGED state, Others(l), job'[l].a = a,
             job'[l].pc \in {"poll", "settle"}, job'[l].pc = "settle" => job'[l].mem = "RUNNING"
      PROVE  Good(l)
  <2>1. RowOK(t, remote'[a]) /\ t.sid
    BY <1>1, <1>2, <1>4, RowStaysOK
  <2> QED
    BY <1>1, <1>2, <1>3, <1>4, <2>1, GoesOnGood DEF OnRow, Unattached, Attached
<1>5. ASSUME NEW answer \in Answers(a), answer \notin Snapshot, FailCase(l, Put(l, c))
      PROVE  Good(l)
  <2>1. /\ c \in AttemptRow /\ c.sid = q.sid /\ c.unresolved = q.unresolved
        /\ c.status \in {q.status, "FAILED"}
    BY <1>2, Literals, StatusFields
  <2> HIDE DEF c
  <2>2. remote[a] \notin NeverStopped
    BY <1>2, <1>5 DEF RowOK, Known, Visible, Answers, NeverStopped, Snapshot
  <2>3. RowOK(c, remote'[a])
    BY <1>1, <1>2, <2>1, <2>2, RowEndsOK
  <2> QED
    BY <1>1, <1>2, <1>3, <1>5, <2>1, <2>3, FailCaseOnRow
<1>6. CASE /\ att' = Put(l, r) /\ UNCHANGED state
           /\ job' = [job EXCEPT ![l].pc = "poll", ![l].mem = "RECONCILING"]
  <2>1. job' = [job EXCEPT ![l] = m] /\ m.pc = "poll" /\ m.a = a
    BY <1>2, <1>6 DEF TypeOK, Job
  <2>2. /\ p \in AttemptRow /\ p.sid = q.sid /\ p.unresolved = q.unresolved
        /\ p.status \in {q.status, "RECONCILING"}
    BY <1>2, Literals, StatusFields
  <2>3. r \in AttemptRow /\ r.sid = p.sid /\ r.unresolved = p.unresolved /\ r.status = p.status
    BY <2>2, ReasonLiterals, ReasonFields
  <2> HIDE DEF m, p, r
  <2>4. Others(l) /\ job'[l] = m
    BY <1>2, <2>1, JobEffect
  <2>5. /\ r.sid = q.sid /\ r.unresolved = q.unresolved
        /\ r.status \in {q.status, "RUNNING", "RECONCILING"}
    BY <2>2, <2>3
  <2>6. Others(l) /\ job'[l].a = a /\ job'[l].pc = "poll"
    BY <2>1, <2>4
  <2> HIDE DEF a, q
  <2> QED
    BY <1>1, <1>4, <1>6, <2>3, <2>5, <2>6
<1>7. ASSUME NEW answer \in Answers(a), att' = Put(l, h), UNCHANGED state,
             job' = [job EXCEPT ![l].pc = IF answer = "Working" THEN "poll" ELSE "settle",
                                ![l].mem = "RUNNING", ![l].seen = answer]
      PROVE  Good(l)
  <2> DEFINE n(pc) == [job[l] EXCEPT !.pc = pc, !.mem = "RUNNING", !.seen = answer]
  <2>1. PICK pc \in {"poll", "settle"} : job' = [job EXCEPT ![l] = n(pc)]
    BY <1>2, <1>7 DEF TypeOK
  <2>2. n(pc).pc = pc /\ n(pc).a = a /\ n(pc).mem = "RUNNING"
    BY <1>2 DEF Job
  <2>3. /\ g \in AttemptRow /\ g.sid = q.sid /\ g.unresolved = q.unresolved
        /\ g.status \in {q.status, "RUNNING"}
    BY <1>2, Literals, StatusFields
  <2>4. h \in AttemptRow /\ h.sid = g.sid /\ h.unresolved = g.unresolved /\ h.status = g.status
    BY <2>3, ReasonLiterals, ReasonFields
  <2> HIDE DEF n, g, h
  <2>5. Others(l) /\ job'[l] = n(pc)
    BY <1>2, <2>1, JobEffect
  <2>6. /\ h.sid = q.sid /\ h.unresolved = q.unresolved
        /\ h.status \in {q.status, "RUNNING", "RECONCILING"}
    BY <2>3, <2>4
  <2>7. Others(l) /\ job'[l].a = a /\ job'[l].pc \in {"poll", "settle"} /\ job'[l].mem = "RUNNING"
    BY <2>2, <2>5
  <2> HIDE DEF a, q
  <2> QED
    BY <1>1, <1>4, <1>7, <2>4, <2>6, <2>7
<1> QED
  BY <1>1, <1>5, <1>6, <1>7 DEF Get

\* _settle(): a session that failed has stopped; one that asks is retained.
LEMMA SettleGood ==
    ASSUME TypeOK, OutputInv, LeaseInv, NEW l \in Loops, Settle(l)
    PROVE  job[l].pc # "idle" /\ Good(l)
<1> DEFINE a == job[l].a
           q == att[a]
           out == CASE job[l].seen = "Done" -> "valid"
                    [] job[l].seen = "Invalid" -> "invalid"
                    [] OTHER -> "none"
           r == [q EXCEPT !.finished = TRUE, !.out = out]
           c == Closed(l, "FAILED")
           b == Closed(l, "BLOCKED")
<1>1. job[l].pc = "settle" /\ job[l].pc \in OnRow /\ UNCHANGED lease /\ UNCHANGED remote
  BY DEF Settle, At, OnRow, Attached, devin
<1>2. /\ l \in Actors /\ a \in Attempts /\ q \in AttemptRow /\ RowOK(q, remote[a])
      /\ job[l] \in Job /\ q.sid /\ state # "HUMAN_BLOCKED" /\ job[l].mem = "RUNNING"
  BY <1>1, OnRowFacts DEF JobOK, Attached
<1>3. SoftDevin /\ \A d \in Attempts : SoftSession(remote[d], remote'[d])
  BY <1>1, SameSessions
<1>4. CASE att' = Put(l, r) /\ Goto(l, "finish") /\ UNCHANGED state
  <2>1. out \in {"valid", "invalid", "none"}
    OBVIOUS
  <2> HIDE DEF out
  <2>2. r \in AttemptRow /\ r.sid = q.sid /\ r.unresolved = q.unresolved /\ r.status = q.status
    BY <1>2, <2>1 DEF AttemptRow
  <2>3. Others(l) /\ job'[l].pc = "finish" /\ job'[l].a = a
    BY <1>2, <1>4, GotoEffect
  <2> HIDE DEF r
  <2>4. RowOK(r, remote'[a])
    BY <1>1, <1>2, <2>2, RowStaysOK
  <2> QED
    BY <1>1, <1>2, <1>3, <1>4, <2>2, <2>3, <2>4, GoesOnGood DEF OnRow, Unattached, Attached
<1>5. CASE Commit(l, "HUMAN_BLOCKED", Put(l, b), Exit(l))
  <2>1. b \in AttemptRow /\ b.sid = q.sid /\ b.status = "BLOCKED"
    BY <1>2, Literals, StatusFields
  <2> HIDE DEF b
  <2>2. RowOK(b, remote'[a])
    BY <1>1, <1>2, <2>1 DEF RowOK
  <2>3. CASE state' = "HUMAN_BLOCKED" /\ att' = Put(l, b) /\ Others(l) /\ job'[l] = Exit(l)
    <3>1. job'[l].pc \in Resting
      BY <1>2, <2>3, ResumesNothing DEF Resting
    <3> QED
      BY <1>1, <1>2, <1>3, <2>1, <2>2, <2>3, <3>1, EndsGood
  <2>4. CASE Others(l) /\ job'[l].pc \in Resting /\ UNCHANGED <<state, att>>
    BY <1>1, <1>3, <2>4, RollbackGood
  <2> QED
    BY <1>2, <1>5, <2>3, <2>4, CommitEffect
<1>6. CASE job[l].seen = "Errored" /\ FailCase(l, Put(l, c))
  <2>1. /\ c \in AttemptRow /\ c.sid = q.sid /\ c.unresolved = q.unresolved
        /\ c.status \in {q.status, "FAILED"}
    BY <1>2, Literals, StatusFields
  <2> HIDE DEF c
  <2>2. remote[a] \notin NeverStopped
    BY <1>1, <1>2, <1>6 DEF OutputInv, SnapshotsHold, SnapshotHolds, Reading, Final, Held, NeverStopped
  <2>3. RowOK(c, remote'[a])
    BY <1>1, <1>2, <2>1, <2>2, RowEndsOK
  <2> QED
    BY <1>1, <1>2, <1>3, <1>6, <2>1, <2>3, FailCaseOnRow
<1> QED
  BY <1>1, <1>4, <1>5, <1>6 DEF Settle

LEMMA FinishGood ==
    ASSUME TypeOK, OutputInv, LeaseInv, NEW l \in Loops, Finish(l)
    PROVE  job[l].pc # "idle" /\ Good(l)
<1> DEFINE a == job[l].a
           q == att[a]
           d == Row(l, "SUCCEEDED")
           p == Row(l, "FAILED")
           r == [p EXCEPT !.out = "none"]
<1>1. job[l].pc = "finish" /\ job[l].pc \in OnRow /\ UNCHANGED lease /\ UNCHANGED remote
  BY DEF Finish, At, OnRow, Attached, devin
<1>2. /\ l \in Actors /\ a \in Attempts /\ q \in AttemptRow /\ RowOK(q, remote[a])
      /\ q.sid /\ state # "HUMAN_BLOCKED"
  BY <1>1, OnRowFacts DEF JobOK, Attached
<1>3. SoftDevin
  BY <1>1, SameSessions
<1>4. remote[a] \notin NeverStopped
  BY <1>1, <1>2 DEF OutputInv, SnapshotsHold, SnapshotHolds, Reading, Final, Held, NeverStopped
<1>5. CASE /\ state' = "AWAITING_REMEDIATION_APPROVAL" /\ att' = Put(l, d) /\ Leave(l)
  <2>1. d \in AttemptRow /\ d.sid = q.sid /\ d.unresolved = q.unresolved
        /\ d.status \in {q.status, "SUCCEEDED"}
    BY <1>2, Literals, StatusFields
  <2> HIDE DEF d
  <2>2. RowOK(d, remote'[a])
    BY <1>1, <1>2, <1>4, <2>1, RowEndsOK
  <2>3. Others(l) /\ job'[l].pc \in Resting
    BY <1>2, <1>5, LeaveEffect
  <2> QED
    BY <1>1, <1>2, <1>3, <1>5, <2>1, <2>2, <2>3, EndsGood
<1>6. CASE job' = [job EXCEPT ![l] = Lost(l)] /\ UNCHANGED <<state, att>>
  BY <1>1, <1>2, <1>3, <1>6, LostEffect, RollbackGood
<1>7. CASE FailCase(l, Put(l, r))
  <2>1. p \in AttemptRow /\ p.sid = q.sid /\ p.unresolved = q.unresolved
        /\ p.status \in {q.status, "FAILED"}
    BY <1>2, Literals, StatusFields
  <2>2. r \in AttemptRow /\ r.sid = p.sid /\ r.unresolved = p.unresolved /\ r.status = p.status
    BY <2>1 DEF AttemptRow
  <2> HIDE DEF p, r
  <2>3. RowOK(r, remote'[a])
    BY <1>1, <1>2, <1>4, <2>1, <2>2, RowEndsOK
  <2> QED
    BY <1>1, <1>2, <1>3, <1>7, <2>1, <2>2, <2>3, FailCaseOnRow
<1> QED
  BY <1>1, <1>5, <1>6, <1>7 DEF Finish

\* The session an id is known for: read as gone or failed, it has stopped.
LEMMA FinalGetGood ==
    ASSUME TypeOK, LeaseInv, NEW l \in Loops, FinalGet(l)
    PROVE  job[l].pc # "idle" /\ Good(l)
<1> DEFINE a == job[l].a
           q == att[a]
           r == Row(l, "RUNNING")
<1>1. /\ job[l].pc = "final_get" /\ job[l].pc \in OnRow /\ UNCHANGED lease
      /\ UNCHANGED remote /\ UNCHANGED state
  BY DEF FinalGet, At, OnRow, Attached, devin
<1>2. /\ l \in Actors /\ a \in Attempts /\ q \in AttemptRow /\ RowOK(q, remote[a])
      /\ job[l] \in Job /\ q.sid /\ state # "HUMAN_BLOCKED"
  BY <1>1, OnRowFacts DEF JobOK, Attached
<1>3. SoftDevin /\ \A b \in Attempts : SoftSession(remote[b], remote'[b])
  BY <1>1, SameSessions
<1>4. ASSUME NEW answer \in Answers(a), answer \notin Snapshot \ {"Errored", "Suspended"},
             Goto(l, "mark"), UNCHANGED att
      PROVE  Good(l)
  <2>1. Others(l) /\ job'[l].pc = "mark" /\ job'[l].a = a
    BY <1>2, <1>4, GotoEffect
  <2>2. remote'[a] \notin NeverStopped
    BY <1>1, <1>2, <1>4 DEF RowOK, Known, Visible, Snapshot, NeverStopped, Answers
  <2> QED
    BY <1>1, <1>2, <1>3, <1>4, <2>1, <2>2, MovesGood DEF OnRow, Unattached, Attached
<1>5. CASE Goto(l, "delete") /\ UNCHANGED att
  <2>1. Others(l) /\ job'[l].pc = "delete" /\ job'[l].a = a
    BY <1>2, <1>5, GotoEffect
  <2> QED
    BY <1>1, <1>2, <1>3, <1>5, <2>1, MovesGood DEF OnRow, Unattached, Attached
<1>6. ASSUME NEW answer, att' = Put(l, r),
             job' = [job EXCEPT ![l].pc = "settle", ![l].mem = "RUNNING",
                                ![l].seen = answer]
      PROVE  Good(l)
  <2> DEFINE n == [job[l] EXCEPT !.pc = "settle", !.mem = "RUNNING", !.seen = answer]
  <2>1. /\ r \in AttemptRow /\ r.sid = q.sid /\ r.unresolved = q.unresolved
        /\ r.status \in {q.status, "RUNNING"}
    BY <1>2, Literals, StatusFields
  <2>2. job' = [job EXCEPT ![l] = n] /\ n.pc = "settle" /\ n.a = a /\ n.mem = "RUNNING"
    BY <1>2, <1>6 DEF TypeOK, Job
  <2> HIDE DEF r, n
  <2>3. Others(l) /\ job'[l].pc = "settle" /\ job'[l].a = a /\ job'[l].mem = "RUNNING"
    BY <1>2, <2>2, JobEffect
  <2>4. RowOK(r, remote'[a]) /\ r.sid
    BY <1>1, <1>2, <2>1, RowStaysOK
  <2> QED
    BY <1>1, <1>2, <1>3, <1>6, <2>1, <2>3, <2>4, GoesOnGood DEF OnRow, Unattached, Attached
<1> QED
  BY <1>1, <1>4, <1>5, <1>6 DEF FinalGet

\* A session that was deleted, or never was there, is not live.
LEMMA DeletedEnded ==
    ASSUME TypeOK, NEW a \in Attempts, remote[a] \in Known,
           remote' = DeleteSessions({a})
    PROVE  remote'[a] \notin NeverStopped
BY DEF DeleteSessions, Known, NeverStopped

LEMMA DeleteGood ==
    ASSUME TypeOK, LeaseInv, NEW l \in Loops, Delete(l)
    PROVE  job[l].pc # "idle" /\ Good(l)
<1> DEFINE a == job[l].a
           q == att[a]
           p == Row(l, "TERMINATION_PENDING")
           r == [p EXCEPT !.reason = KeptTrigger(p.reason)]
<1>1. job[l].pc = "delete" /\ job[l].pc \in OnRow /\ UNCHANGED lease
  BY DEF Delete, At, OnRow, Attached
<1>2. /\ l \in Actors /\ a \in Attempts /\ q \in AttemptRow /\ RowOK(q, remote[a])
      /\ job[l] \in Job /\ q.sid /\ state # "HUMAN_BLOCKED"
  BY <1>1, OnRowFacts DEF JobOK, Attached
<1>3. remote[a] \in Known
  BY <1>2 DEF RowOK
<1>4. SoftDevin
  BY SameDevin, DeleteSoft DEF Delete
<1>5. CASE remote' = DeleteSessions({a}) /\ Goto(l, "mark") /\ UNCHANGED <<state, att>>
  <2>1. Others(l) /\ job'[l].pc = "mark" /\ job'[l].a = a
    BY <1>2, <1>5, GotoEffect
  <2>2. remote'[a] \notin NeverStopped
    BY <1>2, <1>3, <1>5, DeletedEnded
  <2> QED
    BY <1>1, <1>2, <1>4, <1>5, <2>1, <2>2, MovesGood DEF OnRow, Unattached, Attached
<1>6. CASE \/ Commit(l, "TERMINATION_PENDING", Put(l, r), Exit(l))
           \/ att' = Put(l, r) /\ Leave(l) /\ UNCHANGED state
  <2>1. /\ p \in AttemptRow /\ p.sid = q.sid /\ p.unresolved = q.unresolved
        /\ p.status \in {q.status, "TERMINATION_PENDING"}
    BY <1>2, Literals, StatusFields
  <2>2. KeptTrigger(p.reason) \in Reason
    BY DEF KeptTrigger, Reason
  <2>3. r \in AttemptRow /\ r.sid = p.sid /\ r.unresolved = p.unresolved /\ r.status = p.status
    BY <2>1, <2>2, ReasonFields
  <2> HIDE DEF p, r
  <2>4. RowOK(r, remote[a])
    BY <1>2, <2>1, <2>3, RowStaysOK
  <2>5. RowOK(r, remote'[a]) /\ (q.sid => r.sid)
    BY <1>2, <1>4, <2>1, <2>3, <2>4 DEF RowOK, SoftDevin, SoftSession
  <2>6. \/ Others(l) /\ job'[l].pc \in Resting /\ UNCHANGED <<state, att>>
        \/ att' = Put(l, r) /\ Others(l) /\ job'[l].pc \in Resting /\ state' # "HUMAN_BLOCKED"
    <3>1. Exit(l).pc \in Resting
      BY <1>2, ResumesNothing DEF Resting
    <3> QED
      BY <1>2, <1>6, <3>1, CommitEffect, LeaveEffect
  <2> QED
    BY <1>1, <1>2, <1>4, <2>3, <2>5, <2>6, EndsGood, RollbackGood
<1> QED
  BY <1>1, <1>5, <1>6 DEF Delete

LEMMA TagGood ==
    ASSUME TypeOK, LeaseInv, NEW l \in Loops, Tag(l)
    PROVE  job[l].pc # "idle" /\ Good(l)
<1> DEFINE a == job[l].a
           q == att[a]
           r == [q EXCEPT !.reason = "other"]
<1>1. job[l].pc = "tag" /\ job[l].pc \in OnRow /\ UNCHANGED lease /\ UNCHANGED state
  BY DEF Tag, At, OnRow
<1>2. /\ l \in Actors /\ a \in Attempts /\ q \in AttemptRow /\ RowOK(q, remote[a])
      /\ job[l] \in Job /\ ~q.sid /\ state # "HUMAN_BLOCKED"
  BY <1>1, OnRowFacts DEF JobOK
<1>3. SoftDevin
  BY SameDevin, DeleteSoft DEF Tag
<1>4. CASE Goto(l, "mark") /\ UNCHANGED att
  <2>1. Others(l) /\ job'[l].pc = "mark" /\ job'[l].a = a
    BY <1>2, <1>4, GotoEffect
  <2> QED
    BY <1>1, <1>2, <1>3, <1>4, <2>1, MovesGood DEF OnRow, Unattached, Attached
<1>5. CASE att' = Put(l, r) /\ Leave(l)
  <2>1. r \in AttemptRow /\ r.sid = q.sid /\ r.unresolved = q.unresolved /\ r.status = q.status
    BY <1>2, ReasonLiterals, ReasonFields
  <2> HIDE DEF r
  <2>2. RowOK(r, remote'[a])
    BY <1>2, <2>1 DEF RowOK
  <2>3. Others(l) /\ job'[l].pc \in Resting
    BY <1>2, <1>5, LeaveEffect
  <2> QED
    BY <1>1, <1>2, <1>3, <1>5, <2>1, <2>2, <2>3, EndsGood
<1> QED
  BY <1>1, <1>4, <1>5 DEF Tag

LEMMA MarkGood ==
    ASSUME TypeOK, LeaseInv, NEW l \in Loops, Mark(l)
    PROVE  job[l].pc # "idle" /\ Good(l)
<1> DEFINE a == job[l].a
           q == att[a]
<1>1. job[l].pc = "mark" /\ job[l].pc \in OnRow /\ UNCHANGED lease /\ UNCHANGED remote
  BY DEF Mark, At, OnRow, devin
<1>2. /\ l \in Actors /\ a \in Attempts /\ q \in AttemptRow /\ RowOK(q, remote[a])
      /\ job[l] \in Job /\ state # "HUMAN_BLOCKED" /\ (q.sid => remote[a] \notin NeverStopped)
  BY <1>1, OnRowFacts DEF JobOK
<1>3. SoftDevin
  BY <1>1, SameSessions
<1>4. PICK v \in {"CANCELLED", "FAILED", "TIMED_OUT"} :
        Commit(l, v, Put(l, [Closed(l, v) EXCEPT !.reason = "none"]), Exit(l))
  BY DEF Mark, TerminationVerdict
<1> DEFINE c == Closed(l, v)
           r == [c EXCEPT !.reason = "none"]
<1>5. /\ c \in AttemptRow /\ c.sid = q.sid /\ c.unresolved = q.unresolved
      /\ c.status \in {q.status, v}
  BY <1>2, Literals, StatusFields
<1>6. r \in AttemptRow /\ r.sid = c.sid /\ r.unresolved = c.unresolved /\ r.status = c.status
  BY <1>5, ReasonLiterals, ReasonFields
<1>7. Commit(l, v, Put(l, r), Exit(l))
  BY <1>4
<1> HIDE DEF c, r
<1>8. RowOK(r, remote'[a]) /\ (q.sid => r.sid)
  BY <1>1, <1>2, <1>5, <1>6, RowEndsOK
<1>9. \/ Others(l) /\ job'[l].pc \in Resting /\ UNCHANGED <<state, att>>
      \/ att' = Put(l, r) /\ Others(l) /\ job'[l].pc \in Resting /\ state' # "HUMAN_BLOCKED"
  <2>1. Exit(l).pc \in Resting
    BY <1>2, ResumesNothing DEF Resting
  <2> QED
    BY <1>2, <1>7, <2>1, CommitEffect
<1> QED
  BY <1>1, <1>3, <1>6, <1>8, <1>9, EndsGood, RollbackGood

\* What a loop that has not picked an attempt can rely on.
LEMMA DrivingFacts ==
    ASSUME TypeOK, LeaseInv, NEW l \in Loops
    PROVE  /\ l \in Actors /\ job[l] \in Job /\ job[l].a \in Attempts
           /\ JobOK(job[l], att, remote, state)
           /\ job[l].pc \in Driving => state # "HUMAN_BLOCKED"
           /\ TableOK(att, remote, state)
BY DEF Actors, TypeOK, Job, LeaseInv, JobOK

Walking == {"orphan", "eligibility", "verdict", "run", "terminate"}

LEMMA WalkingOK ==
    ASSUME NEW j, NEW rows, NEW sessions, NEW st, j.pc \in Walking, st # "HUMAN_BLOCKED"
    PROVE  JobOK(j, rows, sessions, st)
BY DEF JobOK, Walking, OnRow, Unattached, Attached

\* The loop goes on without an attempt; the table is as it was.
LEMMA WalksGood ==
    ASSUME TypeOK, LeaseInv, NEW l \in Loops, UNCHANGED lease, UNCHANGED att, SoftDevin,
           Others(l), job'[l].pc \in Walking, state' # "HUMAN_BLOCKED"
    PROVE  Good(l)
<1>1. TableOK(att', remote', state') /\ SidsKept
  BY AttWeak, WeakTable DEF StaysBlocked
<1> QED
  BY <1>1, WalkingOK DEF Good

LEMMA EntryGood ==
    ASSUME TypeOK, LeaseInv, NEW l \in Loops, Evaluate(l) \/ Verdict(l)
    PROVE  job[l].pc # "idle" /\ Good(l)
<1> DEFINE n == Then(l, "verdict", "ELIGIBILITY_EVALUATED")
           m == Then(l, "run", "TRIAGE_CREATE_INTENT")
<1>1. /\ l \in Actors /\ job[l].pc \in {"eligibility", "verdict"}
      /\ UNCHANGED lease /\ UNCHANGED remote
  BY DrivingFacts DEF Evaluate, Verdict, At, devin
<1>2. n.pc = "verdict" /\ m.pc = "run" /\ Exit(l).pc \in Resting
  BY <1>1, ResumesNothing, DrivingFacts DEF Then, Job, Resting
<1>3. SoftDevin
  BY <1>1, SameDevin
<1>4. \/ Commit(l, "ELIGIBILITY_EVALUATED", att, n)
      \/ Commit(l, "TRIAGE_CREATE_INTENT", att, m)
      \/ Commit(l, "POLICY_REJECTED", att, Exit(l))
  BY DEF Evaluate, Verdict
<1> HIDE DEF n, m
<1>5. \/ Others(l) /\ job'[l].pc \in Resting /\ UNCHANGED <<state, att>>
      \/ /\ Others(l) /\ job'[l].pc \in Resting \cup Walking
         /\ UNCHANGED att /\ state' # "HUMAN_BLOCKED"
  BY <1>1, <1>2, <1>4, CommitEffect DEF Walking
<1>6. CASE Others(l) /\ job'[l].pc \in Resting /\ UNCHANGED <<state, att>>
  BY <1>1, <1>3, <1>6, RollbackGood
<1>7. CASE Others(l) /\ job'[l].pc \in Walking /\ UNCHANGED att /\ state' # "HUMAN_BLOCKED"
  BY <1>1, <1>3, <1>7, WalksGood
<1>8. CASE Others(l) /\ job'[l].pc \in Resting /\ UNCHANGED att /\ state' # "HUMAN_BLOCKED"
  BY <1>1, <1>3, <1>8, RestGood, AttWeak DEF StaysBlocked
<1> QED
  BY <1>1, <1>5, <1>6, <1>7, <1>8

LEMMA RunNewGood ==
    ASSUME TypeOK, LeaseInv, NEW l \in Loops, RunNew(l)
    PROVE  job[l].pc # "idle" /\ Good(l)
<1>1. /\ l \in Actors /\ job[l].pc = "run"
      /\ UNCHANGED lease /\ UNCHANGED remote /\ UNCHANGED <<state, att>>
  BY DrivingFacts DEF RunNew, At, devin
<1>2. SoftDevin /\ state # "HUMAN_BLOCKED" /\ TableOK(att, remote, state)
  BY <1>1, SameDevin, DrivingFacts DEF Driving
<1>3. CASE Goto(l, "create")
  <2>1. Others(l) /\ job'[l].pc = "create"
    BY <1>1, <1>3, GotoEffect
  <2>2. \A a \in Attempts : ~Active(att[a])
    BY DEF RunNew, ActiveAttempts
  <2>3. JobOK(job'[l], att, remote, state)
    BY <1>2, <2>1, <2>2 DEF JobOK, OnRow, Unattached, Attached
  <2> QED
    BY <1>1, <1>2, <2>1, <2>3 DEF Good, SidsKept
<1>4. CASE Leave(l)
  BY <1>1, <1>2, <1>4, LeaveEffect, RollbackGood
<1> QED
  BY <1>1, <1>3, <1>4 DEF RunNew

\* The attempt to resume is the only open one.
LEMMA RunResumeGood ==
    ASSUME TypeOK, LeaseInv, NEW l \in Loops, RunResume(l)
    PROVE  job[l].pc # "idle" /\ Good(l)
<1> DEFINE a == Newest(ActiveAttempts(att))
           r == att[a]
           On(pc) == [job[l] EXCEPT !.pc = pc, !.a = a, !.mem = r.status]
           n == [On("poll") EXCEPT !.view = "TRIAGING"]
<1>1. /\ l \in Actors /\ job[l] \in Job /\ job[l].pc = "run" /\ UNCHANGED lease /\ UNCHANGED remote
  BY DrivingFacts DEF RunResume, At, devin
<1>2. SoftDevin /\ state # "HUMAN_BLOCKED" /\ TableOK(att, remote, state)
  BY <1>1, SameDevin, DrivingFacts DEF Driving
<1>3. a \in Attempts /\ Active(r) /\ \A b \in Attempts \ {a} : ~Open(att[b])
  <2>1. a \in ActiveAttempts(att)
    BY NewestIsMember DEF RunResume, ActiveAttempts
  <2> QED
    BY <1>2, <2>1 DEF ActiveAttempts, TableOK, Open
<1>4. /\ \A pc \in {"final_get", "tag", "reconcile", "poll"} : On(pc).pc = pc /\ On(pc).a = a
      /\ n.pc = "poll" /\ n.a = a
  BY <1>1 DEF Job
<1>5. \/ Commit(l, "TRIAGING", att, n) /\ r.sid
      \/ \E pc \in {"final_get", "poll"} :
            job' = [job EXCEPT ![l] = On(pc)] /\ UNCHANGED <<state, att>> /\ r.sid
      \/ \E pc \in {"tag", "reconcile"} :
            job' = [job EXCEPT ![l] = On(pc)] /\ UNCHANGED <<state, att>> /\ ~r.sid
  BY DEF RunResume
<1> HIDE DEF a, n, On
<1>6. \/ Others(l) /\ job'[l].pc \in Resting /\ UNCHANGED <<state, att>>
      \/ /\ Others(l) /\ job'[l].a = a /\ UNCHANGED att /\ state' # "HUMAN_BLOCKED"
         /\ \/ job'[l].pc \in {"final_get", "poll"} /\ r.sid
            \/ job'[l].pc \in {"tag", "reconcile"} /\ ~r.sid
  BY <1>1, <1>2, <1>4, <1>5, CommitEffect, JobEffect
<1>7. CASE Others(l) /\ job'[l].pc \in Resting /\ UNCHANGED <<state, att>>
  BY <1>1, <1>2, <1>7, RollbackGood
<1>8. CASE /\ Others(l) /\ job'[l].a = a /\ UNCHANGED att /\ state' # "HUMAN_BLOCKED"
           /\ \/ job'[l].pc \in {"final_get", "poll"} /\ r.sid
              \/ job'[l].pc \in {"tag", "reconcile"} /\ ~r.sid
  <2>1. TableOK(att', remote', state') /\ SidsKept
    BY <1>2, <1>8, AttWeak, WeakTable DEF StaysBlocked
  <2>2. JobOK(job'[l], att, remote, state')
    BY <1>3, <1>8 DEF JobOK, OnRow, Unattached, Attached
  <2> QED
    BY <1>1, <1>8, <2>1, <2>2 DEF Good
<1> QED
  BY <1>1, <1>6, <1>7, <1>8

LEMMA SettledFields ==
    ASSUME TypeOK, NEW done, NEW a \in Attempts
    PROVE  LET r == Settled(done)[a]
           IN  /\ r.sid = att[a].sid /\ r.unresolved = att[a].unresolved
               /\ \/ r = att[a] /\ ~(a \in done /\ (att[a].unresolved \/ att[a].sid))
                  \/ r.status = "CANCELLED"
BY DEF Settled, TypeOK, AttemptRow

LEMMA SettledWeak ==
    ASSUME TypeOK, NEW done
    PROVE  WeakRows(Settled(done))
BY SettledFields DEF WeakRows, WeakRow, Open, Active, ACTIVE_ATTEMPT_STATUSES

\* _settle_previous_sessions() lets a replacement in once nothing is open.
LEMMA CreateGood ==
    ASSUME TypeOK, LeaseInv, NEW l \in Loops, Create(l)
    PROVE  job[l].pc # "idle" /\ Good(l)
<1>1. /\ l \in Actors /\ job[l] \in Job /\ job[l].pc = "create" /\ UNCHANGED lease
      /\ att \in RowTable
  BY DrivingFacts DEF Create, At, TypeOK, RowTable
<1>2. state # "HUMAN_BLOCKED" /\ TableOK(att, remote, state) /\ \A a \in Attempts : ~Active(att[a])
  BY <1>1, DrivingFacts DEF Driving, JobOK
<1>3. SoftDevin
  BY SameDevin, DeleteSoft DEF Create
<1>4. ASSUME NEW rows \in {att} \cup {Settled(done) : done \in SUBSET Previous}, FailCase(l, rows)
      PROVE  Good(l)
  <2>1. rows \in RowTable /\ WeakRows(rows)
    BY <1>1, SettledType, SettledWeak, AttWeak
  <2>2. Others(l) /\ job'[l].pc \in Resting /\ WeakRows(att') /\ StaysBlocked
    BY <1>1, <1>2, <1>4, <2>1, FailCaseWeak
  <2> QED
    BY <1>1, <1>3, <2>2, RestGood
<1>5. CASE /\ att' = Settled(Previous) /\ UNCHANGED state
           /\ job' = [job EXCEPT ![l].pc = "insert", ![l].a = NextOrdinal,
                                 ![l].mem = "RUNNING"]
  <2> DEFINE n == [job[l] EXCEPT !.pc = "insert", !.a = NextOrdinal, !.mem = "RUNNING"]
  <2>1. job' = [job EXCEPT ![l] = n] /\ n.pc = "insert"
    BY <1>1, <1>5 DEF TypeOK, Job
  <2> HIDE DEF n
  <2>2. Others(l) /\ job'[l].pc = "insert"
    BY <1>1, <2>1, JobEffect
  <2>3. \A a \in Attempts : ~Open(att'[a])
    <3> SUFFICES ASSUME NEW a \in Attempts PROVE ~Open(att'[a])
      OBVIOUS
    <3>1. att[a].status = "BLOCKED" => a \in Previous /\ (att[a].unresolved \/ att[a].sid)
      BY <1>2 DEF Previous, TableOK, RowOK
    <3> QED
      BY <1>2, <1>5, <3>1, SettledFields DEF Open, Active, ACTIVE_ATTEMPT_STATUSES
  <2>4. TableOK(att', remote', state') /\ SidsKept
    BY <1>2, <1>3, <1>5, SettledWeak, WeakTable DEF StaysBlocked
  <2>5. JobOK(job'[l], att', remote', state')
    BY <1>2, <1>5, <2>2, <2>3 DEF JobOK, OnRow, Unattached, Attached
  <2> QED
    BY <1>1, <2>2, <2>4, <2>5 DEF Good
<1>6. \/ FailCase(l, att)
      \/ \E done \in SUBSET Previous : FailCase(l, Settled(done))
      \/ /\ att' = Settled(Previous) /\ UNCHANGED state
         /\ job' = [job EXCEPT ![l].pc = "insert", ![l].a = NextOrdinal,
                               ![l].mem = "RUNNING"]
  BY DEF Create
<1> QED
  BY <1>1, <1>4, <1>5, <1>6

\* The new attempt is the only open one; its key and its row were never used.
LEMMA InsertGood ==
    ASSUME OneCreateInv, OutputInv, LeaseInv, NEW l \in Loops, Insert(l)
    PROVE  job[l].pc # "idle" /\ Good(l)
<1> DEFINE a == job[l].a
           r == [NoRow EXCEPT !.status = "RUNNING"]
<1>1. /\ TypeOK /\ l \in Actors /\ a \in Attempts /\ job[l].pc = "insert"
      /\ UNCHANGED lease /\ UNCHANGED remote /\ UNCHANGED state
  BY DrivingFacts DEF Insert, At, OneCreateInv, devin
<1>2. /\ state # "HUMAN_BLOCKED" /\ TableOK(att, remote, state)
      /\ \A b \in Attempts : ~Open(att[b])
  BY <1>1, DrivingFacts DEF Driving, JobOK
<1>3. SoftDevin
  BY <1>1, SameDevin
<1>4. CASE att' = Put(l, r) /\ a \notin Rows(att) /\ Goto(l, "prepare")
  <2>1. r.status = "RUNNING" /\ ~r.sid
    BY DEF NoRow
  <2> HIDE DEF r
  <2>2. ~att[a].sid
    <3>1. att[a].status = "NONE"
      BY <1>1, <1>4 DEF Rows
    <3>2. remote[a] = "Absent"
      BY <1>1, <3>1 DEF OneCreateInv, FreshCreates, OutputInv, UnusedIsAbsent
    <3> QED
      BY <1>1, <1>2, <3>2 DEF TableOK, RowOK, Known, Visible, Snapshot, Stopped
  <2>3. att'[a] = r /\ \A b \in Attempts \ {a} : att'[b] = att[b]
    BY <1>1, <1>4 DEF Put, TypeOK
  <2>4. Others(l) /\ job'[l].pc = "prepare" /\ job'[l].a = a
    BY <1>1, <1>4, GotoEffect
  <2>5. TableOK(att', remote, state)
    BY <1>2, <2>1, <2>3 DEF TableOK, RowOK
  <2>6. SidsKept
    BY <2>2, <2>3 DEF SidsKept
  <2>7. JobOK(job'[l], att', remote, state)
    BY <1>1, <1>2, <2>1, <2>3, <2>4
       DEF JobOK, OnRow, Unattached, Attached, Active, ACTIVE_ATTEMPT_STATUSES
  <2> QED
    BY <1>1, <2>4, <2>5, <2>6, <2>7 DEF Good
<1>5. CASE job' = [job EXCEPT ![l] = Idle] /\ UNCHANGED att
  <2>1. Others(l) /\ job'[l].pc \in Resting
    BY <1>1, <1>5, IdleType, JobEffect DEF Resting
  <2> QED
    BY <1>1, <1>3, <1>5, <2>1, RollbackGood
<1> QED
  BY <1>1, <1>4, <1>5 DEF Insert

LEMMA TerminateGood ==
    ASSUME TypeOK, LeaseInv, NEW l \in Loops, Terminate(l)
    PROVE  job[l].pc # "idle" /\ Good(l)
<1> DEFINE owners == ActiveAttempts(att) \cup {a \in Attempts : att[a].status = "BLOCKED"}
           called == {a \in owners : att[a].sid \/ att[a].sent}
           Ended(failing) ==
             [a \in Attempts |->
                IF a \in failing
                THEN [att[a] EXCEPT !.status = "TERMINATION_PENDING", !.reason = "cancel"]
                ELSE IF a \in owners
                THEN [att[a] EXCEPT !.status = "CANCELLED", !.reason = "none",
                                    !.finished = TRUE]
                ELSE att[a]]
<1>1. l \in Actors /\ job[l].pc = "terminate" /\ UNCHANGED lease /\ Exit(l).pc \in Resting
  BY DrivingFacts, ResumesNothing DEF Terminate, At, Resting
<1>2. state # "HUMAN_BLOCKED"
  BY <1>1, DrivingFacts DEF Driving
<1>3. SoftDevin
  BY DeleteSoft DEF Terminate
<1>4. ASSUME NEW failing \in SUBSET owners PROVE WeakRows(Ended(failing))
  <2>1. \A a \in Attempts : att[a] \in AttemptRow
    BY DEF TypeOK
  <2>2. \A a \in owners : Open(att[a])
    BY DEF ActiveAttempts, Open
  <2>3. \A a \in Attempts :
          /\ Ended(failing)[a].sid = att[a].sid
          /\ Ended(failing)[a].unresolved = att[a].unresolved
          /\ \/ Ended(failing)[a] = att[a]
             \/ a \in owners /\ Ended(failing)[a].status \in {"TERMINATION_PENDING", "CANCELLED"}
    BY <2>1 DEF AttemptRow
  <2> HIDE DEF Ended, owners
  <2> QED
    BY <2>2, <2>3 DEF WeakRows, WeakRow
<1>5. \/ Commit(l, "CANCELLED", Ended({}), Exit(l))
      \/ \E failing \in SUBSET owners : att' = Ended(failing) /\ Leave(l) /\ UNCHANGED state
  BY DEF Terminate
<1> HIDE DEF Ended, owners
<1>6. WeakRows(Ended({}))
  <2>1. {} \in SUBSET owners
    OBVIOUS
  <2> QED
    BY <1>4, <2>1
<1>7. \/ Others(l) /\ job'[l].pc \in Resting /\ UNCHANGED <<state, att>>
      \/ Others(l) /\ job'[l].pc \in Resting /\ WeakRows(att') /\ state' # "HUMAN_BLOCKED"
  BY <1>1, <1>2, <1>4, <1>5, <1>6, CommitEffect, LeaveEffect
<1> QED
  BY <1>1, <1>3, <1>7, RollbackGood, RestGood DEF StaysBlocked

LEMMA AnnotatedFields ==
    ASSUME TypeOK, NEW errors, NEW got \in AllAnswers
    PROVE  /\ WeakRows(Annotated(errors, got))
           /\ \A a \in Attempts : Annotated(errors, got)[a].status = att[a].status
                                  /\ Annotated(errors, got)[a].sid = att[a].sid
<1>1. \A a \in Attempts : att[a] \in AttemptRow
  BY DEF TypeOK
<1>2. \A a \in Attempts : /\ Annotated(errors, got)[a].status = att[a].status
                          /\ Annotated(errors, got)[a].sid = att[a].sid
                          /\ Annotated(errors, got)[a].unresolved = att[a].unresolved
  BY <1>1 DEF Annotated, AttemptRow
<1> QED
  BY <1>2 DEF WeakRows, WeakRow, Open, Active

LEMMA ReconcileBlockedGood ==
    ASSUME TypeOK, LeaseInv, NEW l \in Loops, ReconcileBlocked(l)
    PROVE  job[l].pc # "idle" /\ Good(l)
<1>1. /\ l \in Actors /\ job[l].pc = "reconcile_blocked" /\ UNCHANGED lease
      /\ UNCHANGED remote /\ UNCHANGED state /\ job[l].view = "HUMAN_BLOCKED"
  BY DrivingFacts DEF ReconcileBlocked, At, devin, JobOK
<1>2. SoftDevin
  BY <1>1, SameDevin
<1>3. PICK errors \in SUBSET RetainedSessions(att), got \in AllAnswers :
        /\ att' = Annotated(errors, got)
        /\ IF WithOutput(errors, got) = {} THEN Leave(l)
           ELSE job' = [job EXCEPT ![l] =
                          Ingesting("ingest", job[l].view,
                                     Chosen(WithOutput(errors, got), got), got)]
  BY DEF ReconcileBlocked
<1>4. /\ WeakRows(att')
      /\ \A a \in Attempts : att'[a].status = att[a].status /\ att'[a].sid = att[a].sid
  BY <1>3, AnnotatedFields
<1>5. StaysBlocked
  BY <1>1, <1>4 DEF StaysBlocked
<1>6. CASE Leave(l)
  BY <1>1, <1>2, <1>4, <1>5, <1>6, LeaveEffect, RestGood
<1>7. CASE WithOutput(errors, got) # {}
  <2> DEFINE c == Chosen(WithOutput(errors, got), got)
             n == Ingesting("ingest", job[l].view, c, got)
  <2>1. c \in Attempts /\ att[c].status = "BLOCKED" /\ att[c].sid
    BY <1>7, ChosenHasOutput DEF RetainedSessions
  <2>2. n.pc = "ingest" /\ n.a = c /\ n.view = "HUMAN_BLOCKED"
    BY <1>1, IngestingFields
  <2>3. job' = [job EXCEPT ![l] = n]
    BY <1>3, <1>7
  <2> HIDE DEF c, n
  <2>4. Others(l) /\ job'[l] = n
    BY <1>1, <2>3, JobEffect
  <2>5. JobOK(job'[l], att', remote', state')
    BY <1>4, <2>1, <2>2, <2>4 DEF JobOK, Driving, OnRow, Unattached, Attached
  <2> QED
    BY <1>1, <1>2, <1>4, <1>5, <2>4, <2>5, WeakTable DEF Good
<1> QED
  BY <1>1, <1>3, <1>6, <1>7

LEMMA SupersededFields ==
    ASSUME TypeOK, NEW c \in Attempts, att[c].sid
    PROVE  /\ Superseded(c)[c].status = "RUNNING" /\ Superseded(c)[c].sid
           /\ \A a \in Attempts \ {c} : WeakRow(att[a], Superseded(c)[a])
<1>1. \A a \in Attempts : att[a] \in AttemptRow
  BY DEF TypeOK
<1>2. Superseded(c)[c].status = "RUNNING" /\ Superseded(c)[c].sid
  BY <1>1 DEF Superseded, AttemptRow
<1>3. \A a \in Attempts \ {c} :
        /\ Superseded(c)[a].sid = att[a].sid /\ Superseded(c)[a].unresolved = att[a].unresolved
        /\ Superseded(c)[a].status \in {att[a].status, "CANCELLED"}
  BY <1>1 DEF Superseded, AttemptRow
<1> QED
  BY <1>2, <1>3 DEF WeakRow, Open, Active, ACTIVE_ATTEMPT_STATUSES

\* The ingesting commit reopens the one attempt that was open before it.
LEMMA SupersededTable ==
    ASSUME TypeOK, LeaseInv, NEW c \in Attempts, att[c].status = "BLOCKED", att[c].sid,
           att' = Superseded(c), UNCHANGED remote, state' = "TRIAGING"
    PROVE  /\ TableOK(att', remote', state') /\ SidsKept
           /\ att'[c].sid /\ Active(att'[c])
           /\ \A b \in Attempts \ {c} : ~Open(att[b]) /\ ~Open(att'[b])
<1>1. TableOK(att, remote, state) /\ Open(att[c])
  BY DEF LeaseInv, Open
<1>2. /\ att'[c].status = "RUNNING" /\ att'[c].sid
      /\ \A a \in Attempts \ {c} : WeakRow(att[a], att'[a])
  BY SupersededFields
<1>3. \A b \in Attempts \ {c} : ~Open(att[b]) /\ ~Open(att'[b])
  BY <1>1, <1>2 DEF TableOK, WeakRow
<1>4. \A a \in Attempts : RowOK(att'[a], remote'[a])
  BY <1>1, <1>2 DEF TableOK, RowOK, WeakRow
<1>5. SidsKept
  BY <1>2 DEF SidsKept, WeakRow
<1> QED
  BY <1>2, <1>3, <1>4, <1>5 DEF TableOK, Active, ACTIVE_ATTEMPT_STATUSES

LEMMA IngestGood ==
    ASSUME TypeOK, LeaseInv, NEW l \in Loops, Ingest(l)
    PROVE  job[l].pc # "idle" /\ Good(l)
<1> DEFINE n == [Then(l, "settle", "TRIAGING") EXCEPT !.mem = "RUNNING"]
           c == job[l].a
<1>1. /\ l \in Actors /\ job[l] \in Job /\ c \in Attempts /\ job[l].pc = "ingest"
      /\ UNCHANGED lease /\ UNCHANGED remote /\ job[l].view = "HUMAN_BLOCKED"
      /\ att[c].sid /\ (state = "HUMAN_BLOCKED" => att[c].status = "BLOCKED")
  BY DrivingFacts DEF Ingest, At, devin, JobOK
<1>2. n.pc = "settle" /\ n.a = c /\ n.mem = "RUNNING"
  BY <1>1 DEF Then, Job
<1>3. Commit(l, "TRIAGING", Superseded(c), n)
  BY DEF Ingest
<1>4. SoftDevin
  BY <1>1, SameDevin
<1> HIDE DEF n
<1>5. CASE /\ CanMove(l, "TRIAGING") /\ state' = "TRIAGING" /\ att' = Superseded(c)
           /\ Others(l) /\ job'[l] = n
  <2>1. att[c].status = "BLOCKED"
    BY <1>1, <1>5 DEF CanMove
  <2>2. /\ TableOK(att', remote', state') /\ SidsKept /\ att'[c].sid /\ Active(att'[c])
        /\ \A b \in Attempts \ {c} : ~Open(att'[b])
    BY <1>1, <1>5, <2>1, SupersededTable
  <2>3. JobOK(job'[l], att', remote', state')
    BY <1>2, <1>5, <2>2 DEF JobOK, OnRow, Unattached, Attached
  <2> QED
    BY <1>1, <1>5, <2>2, <2>3 DEF Good
<1>6. CASE Others(l) /\ job'[l].pc \in Resting /\ UNCHANGED <<state, att>>
  BY <1>1, <1>4, <1>6, RollbackGood
<1> QED
  BY <1>1, <1>3, <1>5, <1>6, CommitEffect

LEMMA EndGood ==
    ASSUME TypeOK, LeaseInv, NEW l \in Loops, Abandon(l) \/ MarkFailed(l)
    PROVE  job[l].pc # "idle" /\ Good(l)
<1>1. /\ l \in Actors /\ att \in RowTable /\ job[l].pc \in {"abandon", "mark_failed"}
      /\ UNCHANGED lease /\ UNCHANGED remote
  BY DrivingFacts DEF Abandon, MarkFailed, At, TypeOK, RowTable, devin
<1>2. SoftDevin
  BY <1>1, SameDevin
<1>3. CASE Abandon(l)
  <2>1. \A a \in Attempts : att[a] \in AttemptRow
    BY DEF TypeOK
  <2>2. \A a \in Attempts :
          /\ att'[a].sid = att[a].sid /\ att'[a].unresolved = att[a].unresolved
          /\ \/ att'[a].status = att[a].status
             \/ Active(att[a]) /\ att'[a].status = "CANCELLED"
    BY <1>3, <2>1 DEF Abandon, AttemptRow
  <2>3. WeakRows(att') /\ StaysBlocked
    BY <1>3, <2>2
    DEF Abandon, WeakRows, WeakRow, StaysBlocked, Open, Active, ACTIVE_ATTEMPT_STATUSES
  <2>4. Others(l) /\ job'[l].pc \in Resting
    BY <1>1, <1>3, LeaveEffect DEF Abandon
  <2> QED
    BY <1>1, <1>2, <2>3, <2>4, RestGood
<1>4. CASE MarkFailed(l)
  <2>1. Others(l) /\ job'[l].pc \in Resting /\ WeakRows(att') /\ StaysBlocked
    BY <1>1, <1>4, AttWeak, FailCaseWeak DEF MarkFailed
  <2> QED
    BY <1>1, <1>2, <2>1, RestGood
<1> QED
  BY <1>1, <1>3, <1>4

\* _release_case(), and the ways a job ends early.
LEMMA IdleEffect ==
    ASSUME TypeOK, NEW l \in Actors, job' = [job EXCEPT ![l] = Idle]
    PROVE  Others(l) /\ job'[l].pc = "idle"
BY JobEffect, IdleType

LEMMA ReleaseGood ==
    ASSUME TypeOK, LeaseInv, NEW l \in Loops, Release(l)
    PROVE  job[l].pc # "idle" /\ Good(l)
<1>1. l \in Actors /\ job[l].pc = "release" /\ UNCHANGED remote /\ UNCHANGED <<state, att>>
  BY DrivingFacts DEF Release, At, devin
<1>2. Others(l) /\ job'[l].pc = "idle"
  BY <1>1, IdleEffect DEF Release
<1>3. TableOK(att', remote', state') /\ SidsKept
  BY <1>1, DrivingFacts DEF SidsKept
<1> QED
  BY <1>1, <1>2, <1>3, RestingOK DEF Good, Resting

LEMMA FaultGood ==
    ASSUME TypeOK, LeaseInv, NEW l \in Loops, JobError(l) \/ DbError(l) \/ Crash(l)
    PROVE  job[l].pc # "idle" /\ Good(l)
<1>1. l \in Actors /\ UNCHANGED lease /\ UNCHANGED <<state, att>>
  BY DrivingFacts DEF JobError, DbError, Crash
<1>2. job[l].pc # "idle"
  BY DEF JobError, DbError, Crash, At, JobPC
<1>3. SoftDevin
  BY SameDevin, DeleteSoft DEF JobError, DbError, Crash, devin
<1>4. CASE JobError(l)
  <2>1. Others(l) /\ job'[l].pc = "mark_failed"
    BY <1>1, <1>4 DEF JobError, Others, TypeOK, Job
  <2> QED
    BY <1>1, <1>2, <1>3, <2>1, RollbackGood DEF Resting
<1>5. CASE DbError(l)
  BY <1>1, <1>2, <1>3, <1>5, LeaveEffect, RollbackGood DEF DbError
<1>6. CASE Crash(l)
  <2>1. Others(l) /\ job'[l].pc \in Resting
    BY <1>1, <1>6, IdleEffect DEF Crash, Resting
  <2> QED
    BY <1>1, <1>2, <1>3, <2>1, RollbackGood
<1> QED
  BY <1>4, <1>5, <1>6

\* Nobody works on a case whose lease has lapsed, so a loop that claims it is alone.
LEMMA ClaimLease ==
    ASSUME TypeOK, LeaseInv, NEW l \in Loops, Claim(l)
    PROVE  LeaseInv'
<1> DEFINE n == [Idle EXCEPT !.pc = EntryPoint, !.view = state]
<1>1. /\ l \in Actors /\ l # Operator /\ Operator \in Actors /\ UNCHANGED <<state, att, remote>>
      /\ claim' = l /\ leased' /\ \A k \in Loops : job[k].pc = "idle"
  BY ConstantsAssumption DEF Claim, Actors, devin, LeaseInv, HolderWorks
<1>2. n.pc = EntryPoint /\ n.view = state
  BY IdleType DEF Job
<1>3. \/ EntryPoint \in Walking \cup Resting /\ state # "HUMAN_BLOCKED"
      \/ EntryPoint = "reconcile_blocked" /\ state = "HUMAN_BLOCKED"
  BY DEF EntryPoint, Walking, Resting
<1>4. job' = [job EXCEPT ![l] = n]
  BY DEF Claim
<1> HIDE DEF n
<1>5. Others(l) /\ job'[l] = n
  BY <1>1, <1>4, JobEffect
<1>6. JobOK(job'[l], att, remote, state)
  <2>1. CASE EntryPoint \in Walking \cup Resting /\ state # "HUMAN_BLOCKED"
    BY <1>2, <1>5, <2>1, WalkingOK, RestingOK
  <2>2. CASE EntryPoint = "reconcile_blocked" /\ state = "HUMAN_BLOCKED"
    BY <1>2, <1>5, <2>2 DEF JobOK, Driving, OnRow, Unattached, Attached
  <2> QED
    BY <1>3, <2>1, <2>2
<1>7. \A k \in Loops \ {l} : job'[k] = job[k] /\ job'[k].pc = "idle"
  BY <1>1, <1>5 DEF Others, Actors
<1>8. \A k \in Loops : JobOK(job'[k], att, remote, state)
  BY <1>6, <1>7, RestingOK DEF Resting
<1>9. HolderWorks'
  BY <1>1, <1>7 DEF HolderWorks
<1>10. OperatorOK(job'[Operator], att) /\ TableOK(att, remote, state)
  BY <1>1, <1>5 DEF LeaseInv, Others
<1> QED
  BY <1>1, <1>8, <1>9, <1>10 DEF LeaseInv, OperatorOK, TableOK, JobOK, RowOK, Open, Active

\* What the operator, Devin and the clock do beside the loops.
Closing == {"SUCCEEDED", "FAILED", "TIMED_OUT"}

BesideRow(r, t, s) ==
    /\ t.sid = r.sid /\ t.unresolved = r.unresolved
    /\ Active(t) => Active(r)
    /\ t.status = "BLOCKED" => r.status = "BLOCKED"
    /\ Active(r) /\ ~r.sid => Active(t)
    /\ t.sid /\ t.status \in Closing => r.status \in Closing \/ s \notin NeverStopped

Beside ==
    /\ \A k \in Loops : job'[k] = job[k]
    /\ \A a \in Attempts : BesideRow(att[a], att'[a], remote'[a])
    /\ SoftDevin /\ StaysBlocked
    /\ HolderWorks' /\ OperatorOK(job'[Operator], att')

LEMMA BesidePreserves ==
    ASSUME TypeOK, LeaseInv, Beside
    PROVE  LeaseInv'
<1>1. TableOK(att, remote, state) /\ \A k \in Loops : JobOK(job[k], att, remote, state)
  BY DEF LeaseInv
<1>2. \A a \in Attempts : /\ BesideRow(att[a], att'[a], remote'[a])
                          /\ SoftSession(remote[a], remote'[a])
  BY DEF Beside, SoftDevin
<1>3. \A a \in Attempts : Open(att'[a]) => Open(att[a])
  BY <1>2 DEF BesideRow, Open
<1>4. TableOK(att', remote', state')
  <2>1. \A a \in Attempts : RowOK(att'[a], remote'[a])
    BY <1>1, <1>2 DEF TableOK, RowOK, BesideRow, SoftSession, Closing
  <2>2. \A a, b \in Attempts : Open(att'[a]) /\ Open(att'[b]) => a = b
    BY <1>1, <1>3 DEF TableOK
  <2>3. state' = "HUMAN_BLOCKED" => \E a \in Attempts : att'[a].status = "BLOCKED"
    BY <1>1 DEF TableOK, Beside, StaysBlocked
  <2> QED
    BY <2>1, <2>2, <2>3 DEF TableOK
<1>5. ASSUME NEW k \in Loops PROVE JobOK(job'[k], att', remote', state')
  <2> DEFINE j == job[k]
  <2>1. j.a \in Attempts /\ job'[k] = j /\ JobOK(j, att, remote, state)
    BY <1>1, DrivingFacts DEF Beside
  <2>2. BesideRow(att[j.a], att'[j.a], remote'[j.a]) /\ SoftSession(remote[j.a], remote'[j.a])
    BY <1>2, <2>1
  <2>3. \A a \in Attempts : ~Active(att[a]) => ~Active(att'[a])
    BY <1>2 DEF BesideRow
  <2>4. /\ state' = "HUMAN_BLOCKED" => state = "HUMAN_BLOCKED"
        /\ state' = "HUMAN_BLOCKED" /\ att[j.a].status = "BLOCKED" => att'[j.a].status = "BLOCKED"
    BY <2>1 DEF Beside, StaysBlocked
  <2> HIDE DEF j
  <2>5. JobOK(j, att', remote', state')
    BY <1>3, <2>1, <2>2, <2>3, <2>4 DEF JobOK, BesideRow, SoftSession
  <2> QED
    BY <2>1, <2>5
<1>6. HolderWorks' /\ OperatorOK(job'[Operator], att')
  BY DEF Beside
<1> QED
  BY <1>4, <1>5, <1>6
     DEF LeaseInv, OperatorOK, TableOK, JobOK, RowOK, Open, Active

LEMMA SameRows ==
    ASSUME NEW r, NEW t, NEW s, t.sid = r.sid, t.unresolved = r.unresolved,
           t.status = r.status
    PROVE  BesideRow(r, t, s)
BY DEF BesideRow, Active

LEMMA HolderStays ==
    ASSUME LeaseInv, UNCHANGED lease, \A k \in Loops : job'[k] = job[k]
    PROVE  HolderWorks'
BY DEF LeaseInv, HolderWorks, lease

\* Steps that leave the jobs, and every status and id, alone.
LEMMA OutsideBeside ==
    ASSUME TypeOK, LeaseInv, Cancel \/ Retry \/ Environment \/ UNCHANGED vars
    PROVE  Beside
<1>1. /\ UNCHANGED job
      /\ \A a \in Attempts : /\ att'[a].sid = att[a].sid
                             /\ att'[a].unresolved = att[a].unresolved
                             /\ att'[a].status = att[a].status
  <2>1. \A a \in Attempts : att[a] \in AttemptRow
    BY DEF TypeOK
  <2>2. CASE Retry
    BY <2>1, <2>2 DEF Retry, AttemptRow
  <2>3. ASSUME NEW b \in Attempts, Expire(b)
        PROVE  /\ UNCHANGED job
               /\ \A a \in Attempts : /\ att'[a].sid = att[a].sid
                                      /\ att'[a].unresolved = att[a].unresolved
                                      /\ att'[a].status = att[a].status
    BY <2>1, <2>3 DEF Expire, AttemptRow, TypeOK
  <2>4. CASE UNCHANGED <<job, att>>
    BY <2>4
  <2> QED
    BY <2>2, <2>3, <2>4 DEF Cancel, Environment, LeaseLapses, Land, SessionStep, vars
<1>2. \A a \in Attempts : BesideRow(att[a], att'[a], remote'[a])
  BY <1>1, SameRows
<1>3. state' = "HUMAN_BLOCKED" => state = "HUMAN_BLOCKED"
  BY DEF Cancel, Retry, Environment, LeaseLapses, Land, SessionStep, Expire, vars
<1>4. SoftDevin
  <2>1. CASE UNCHANGED remote
    BY <2>1, SameDevin
  <2>2. ASSUME NEW a \in Attempts, Land(a) \/ SessionStep(a) PROVE SoftDevin
    BY <2>2 DEF Land, SessionStep, SoftDevin, SoftSession, TypeOK, Known,
       Visible, Snapshot, Stopped, NeverStopped
  <2> QED
    BY <2>1, <2>2 DEF Cancel, Retry, Environment, LeaseLapses, Expire, vars, devin
<1>5. HolderWorks'
  <2>1. CASE UNCHANGED lease
    BY <1>1, <2>1, HolderStays
  <2>2. CASE LeaseLapses
    <3>1. \A l \in Loops : job[l].pc = "idle"
      BY <2>2, ConstantsAssumption DEF LeaseLapses, LeaseInv, HolderWorks, At
    <3> QED
      BY <1>1, <3>1 DEF HolderWorks
  <2> QED
    BY <2>1, <2>2 DEF Cancel, Retry, Environment, Land, SessionStep, Expire, vars, lease
<1>6. OperatorOK(job'[Operator], att')
  <2>1. job[Operator].a \in Attempts
    BY DEF TypeOK, Job, Actors
  <2> QED
    BY <1>1, <2>1 DEF LeaseInv, OperatorOK
<1> QED
  BY <1>1, <1>2, <1>3, <1>4, <1>5, <1>6 DEF Beside, StaysBlocked

LEMMA OperatorFacts ==
    ASSUME TypeOK, LeaseInv
    PROVE  /\ Operator \in Actors /\ job[Operator] \in Job /\ job[Operator].a \in Attempts
           /\ \A k \in Loops : k \in Actors \ {Operator}
           /\ OperatorOK(job[Operator], att)
BY ConstantsAssumption DEF Actors, TypeOK, Job, LeaseInv

LEMMA OperatorLeaves ==
    ASSUME TypeOK, LeaseInv, job' = [job EXCEPT ![Operator] = Idle]
    PROVE  /\ \A k \in Loops : job'[k] = job[k]
           /\ job'[Operator].pc = "idle"
BY OperatorFacts, IdleEffect DEF Others

LEMMA OperatorExit == Exit(Operator) = Idle /\ Lost(Operator) = Idle
BY DEF Exit, Lost

\* An operator's job that ends, with the table as it was.
LEMMA OperatorGivesUp ==
    ASSUME TypeOK, LeaseInv, job' = [job EXCEPT ![Operator] = Idle],
           UNCHANGED <<state, att>>, UNCHANGED remote, UNCHANGED lease
    PROVE  Beside
<1>1. (\A k \in Loops : job'[k] = job[k]) /\ job'[Operator].pc = "idle"
  BY OperatorLeaves
<1>2. \A a \in Attempts : BesideRow(att[a], att'[a], remote'[a])
  BY SameRows
<1> QED
  BY <1>1, <1>2, HolderStays, SameDevin DEF Beside, StaysBlocked, OperatorOK

LEMMA OperatorSettles ==
    ASSUME TypeOK, LeaseInv, Settle(Operator)
    PROVE  Beside
<1> DEFINE a == job[Operator].a
           q == att[a]
           out == CASE job[Operator].seen = "Done" -> "valid"
                    [] job[Operator].seen = "Invalid" -> "invalid"
                    [] OTHER -> "none"
           r == [q EXCEPT !.finished = TRUE, !.out = out]
<1>1. /\ Operator \in Actors /\ job[Operator] \in Job /\ a \in Attempts /\ q \in AttemptRow
      /\ q.sid /\ job[Operator].seen \in HasOutput
      /\ job[Operator].view = "TRIAGING" /\ job[Operator].mem = "RUNNING"
  BY OperatorFacts DEF Settle, At, OperatorOK, TypeOK
<1>2. /\ att' = Put(Operator, r) /\ Goto(Operator, "finish") /\ UNCHANGED state
      /\ UNCHANGED lease /\ UNCHANGED remote
  BY <1>1 DEF Settle, HasOutput, devin
<1>3. r.sid = q.sid /\ r.unresolved = q.unresolved /\ r.status = q.status
  BY <1>1 DEF AttemptRow
<1> HIDE DEF r
<1>4. att'[a] = r /\ \A b \in Attempts \ {a} : att'[b] = att[b]
  BY <1>1, <1>2 DEF Put, TypeOK
<1>5. \A b \in Attempts : /\ att'[b].sid = att[b].sid
                          /\ att'[b].unresolved = att[b].unresolved
                          /\ att'[b].status = att[b].status
  BY <1>3, <1>4
<1>6. \A b \in Attempts : BesideRow(att[b], att'[b], remote'[b])
  BY <1>5, SameRows
<1>7. /\ \A k \in Loops : job'[k] = job[k]
      /\ OperatorOK(job'[Operator], att')
  BY <1>1, <1>2, <1>5, OperatorFacts, GotoEffect DEF Others, OperatorOK
<1>8. StaysBlocked
  BY <1>2, <1>5 DEF StaysBlocked
<1> QED
  BY <1>2, <1>6, <1>7, <1>8, HolderStays, SameDevin DEF Beside

\* The operator's verdict on the ended session it ingested.
LEMMA OperatorFinishes ==
    ASSUME TypeOK, OutputInv, LeaseInv, Finish(Operator)
    PROVE  Beside
<1> DEFINE a == job[Operator].a
           q == att[a]
           d == Row(Operator, "SUCCEEDED")
           p == Row(Operator, "FAILED")
           r == [p EXCEPT !.out = "none"]
<1>1. /\ Operator \in Actors /\ job[Operator] \in Job /\ a \in Attempts /\ q \in AttemptRow
      /\ q.sid /\ job[Operator].seen \in HasOutput /\ job[Operator].pc = "finish"
      /\ job[Operator].view = "TRIAGING" /\ job[Operator].mem = "RUNNING"
      /\ UNCHANGED lease /\ UNCHANGED remote
  BY OperatorFacts DEF Finish, At, OperatorOK, TypeOK, devin
<1>2. remote[a] \notin NeverStopped
  BY <1>1 DEF OutputInv, SnapshotsHold, SnapshotHolds, Reading, Final, HasOutput, Held,
     NeverStopped
<1>3. /\ d \in AttemptRow /\ d.sid = q.sid /\ d.unresolved = q.unresolved /\ d.status = "SUCCEEDED"
      /\ p \in AttemptRow /\ p.sid = q.sid /\ p.unresolved = q.unresolved /\ p.status = "FAILED"
  BY <1>1, Literals, StatusFields
<1>4. r \in AttemptRow /\ r.sid = p.sid /\ r.unresolved = p.unresolved /\ r.status = p.status
  BY <1>3 DEF AttemptRow
<1>5. \/ CanMove(Operator, "TRIAGED") /\ state' = "AWAITING_REMEDIATION_APPROVAL"
         /\ att' = Put(Operator, d) /\ Leave(Operator)
      \/ job' = [job EXCEPT ![Operator] = Lost(Operator)] /\ UNCHANGED <<state, att>>
      \/ FailCase(Operator, Put(Operator, r))
  BY DEF Finish
<1> HIDE DEF d, p, r
<1>6. ASSUME NEW t \in {d, r}, NEW rows,
             rows \in {Put(Operator, t), ParkForTermination(Put(Operator, t))}
      PROVE  \A b \in Attempts : BesideRow(att[b], rows[b], remote'[b])
  <2> DEFINE u == Put(Operator, t)
  <2>1. u[a] = t /\ \A b \in Attempts \ {a} : u[b] = att[b]
    BY <1>1 DEF Put, TypeOK
  <2>2. /\ u \in RowTable /\ \A b \in Attempts : u[b] \in AttemptRow
    BY <1>1, <1>3, <1>4, <1>6 DEF Put, TypeOK, RowTable
  <2> HIDE DEF u
  <2>3. \A b \in Attempts : BesideRow(att[b], u[b], remote'[b])
    <3>1. BesideRow(q, t, remote'[a])
      BY <1>1, <1>2, <1>3, <1>4, <1>6 DEF BesideRow, Active, ACTIVE_ATTEMPT_STATUSES
    <3>2. \A b \in Attempts \ {a} : BesideRow(att[b], u[b], remote'[b])
      BY <2>1, SameRows
    <3> QED
      BY <1>1, <2>1, <3>1, <3>2
  <2>4. \A b \in Attempts :
          LET s == ParkForTermination(u)[b]
          IN  /\ s.sid = u[b].sid /\ s.unresolved = u[b].unresolved
              /\ \/ s.status = u[b].status
                 \/ Active(u[b]) /\ s.status = "TERMINATION_PENDING"
    BY <2>2 DEF ParkForTermination, MayBeLive, ActiveAttempts, AttemptRow
  <2>5. \A b \in Attempts : BesideRow(att[b], ParkForTermination(u)[b], remote'[b])
    BY <2>3, <2>4 DEF BesideRow, Active, ACTIVE_ATTEMPT_STATUSES, Closing
  <2> QED
    BY <1>6, <2>3, <2>5 DEF u
<1>7. ASSUME NEW t \in {d, r}, att' \in {Put(Operator, t), ParkForTermination(Put(Operator, t))},
             state' # "HUMAN_BLOCKED", job' = [job EXCEPT ![Operator] = Idle]
      PROVE  Beside
  <2>1. \A b \in Attempts : BesideRow(att[b], att'[b], remote'[b])
    BY <1>6, <1>7
  <2>2. (\A k \in Loops : job'[k] = job[k]) /\ job'[Operator].pc = "idle"
    BY <1>7, OperatorLeaves
  <2> QED
    BY <1>1, <1>7, <2>1, <2>2, HolderStays, SameDevin DEF Beside, StaysBlocked, OperatorOK
<1>8. CASE state' = "AWAITING_REMEDIATION_APPROVAL" /\ att' = Put(Operator, d) /\ Leave(Operator)
  BY <1>7, <1>8, OperatorExit DEF Leave
<1>9. CASE job' = [job EXCEPT ![Operator] = Lost(Operator)] /\ UNCHANGED <<state, att>>
  BY <1>1, <1>9, OperatorExit, OperatorGivesUp
<1>10. CASE FailCase(Operator, Put(Operator, r))
  <2>1. job[Operator].view \notin TERMINAL_STATES /\ job[Operator].view # "TERMINATION_PENDING"
    BY <1>1 DEF TERMINAL_STATES
  <2>2. \E to \in {"FAILED", "TERMINATION_PENDING"} :
          \E rows \in {Put(Operator, r), ParkForTermination(Put(Operator, r))} :
             Commit(Operator, to, rows, Exit(Operator))
    BY <1>10, <2>1 DEF FailCase
  <2> QED
    BY <1>1, <1>7, <2>2, OperatorExit, OperatorGivesUp DEF Commit
<1> QED
  BY <1>5, <1>8, <1>9, <1>10

\* One session is retained, so the first commit is the ingesting one; the case was
\* blocked, so no loop drives an attempt of it.
LEMMA ReconcileSessionLease ==
    ASSUME TypeOK, LeaseInv, ReconcileSession
    PROVE  LeaseInv'
<1>1. /\ Operator \in Actors /\ \A k \in Loops : k \in Actors \ {Operator}
      /\ state = "HUMAN_BLOCKED" /\ UNCHANGED lease /\ UNCHANGED remote
      /\ job[Operator].pc = "idle"
  BY OperatorFacts DEF ReconcileSession, At, devin
<1>2. PICK errors \in SUBSET RetainedSessions(att), got \in AllAnswers :
        LET output == WithOutput(errors, got)
            locked == output = RetainedSessions(att)
        IN  \/ output = {} /\ att' = Annotated(errors, got) /\ UNCHANGED <<state, job>>
            \/ /\ output # {}
               /\ att' = IF locked THEN Superseded(Chosen(output, got))
                           ELSE Annotated(errors, got)
               /\ state' = IF locked THEN "TRIAGING" ELSE state
               /\ job' = [job EXCEPT ![Operator] =
                    IF locked
                    THEN [Ingesting("settle", "TRIAGING", Chosen(output, got), got)
                            EXCEPT !.mem = "RUNNING"]
                    ELSE Ingesting("ingest", state, Chosen(output, got), got)]
  BY DEF ReconcileSession
<1> DEFINE output == WithOutput(errors, got)
           c == Chosen(output, got)
           n == [Ingesting("settle", "TRIAGING", c, got) EXCEPT !.mem = "RUNNING"]
<1>3. CASE output = {} /\ att' = Annotated(errors, got) /\ UNCHANGED <<state, job>>
  <2>1. \A a \in Attempts : /\ att'[a].status = att[a].status /\ att'[a].sid = att[a].sid
                            /\ att'[a].unresolved = att[a].unresolved
    BY <1>3, AnnotatedFields DEF WeakRows, WeakRow
  <2>2. \A a \in Attempts : BesideRow(att[a], att'[a], remote'[a])
    BY <2>1, SameRows
  <2>3. OperatorOK(job'[Operator], att')
    BY <1>1, <1>3 DEF OperatorOK
  <2>4. StaysBlocked
    BY <1>3, <2>1 DEF StaysBlocked
  <2> QED
    BY <1>1, <1>3, <2>2, <2>3, <2>4, HolderStays, SameDevin, BesidePreserves DEF Beside
<1>4. CASE output # {}
  <2>1. /\ c \in Attempts /\ c \in RetainedSessions(att) /\ got[c] \in HasOutput
        /\ att[c].status = "BLOCKED" /\ att[c].sid
    BY <1>4, ChosenHasOutput DEF RetainedSessions
  <2>2. \A a \in RetainedSessions(att) : a = c
    BY <2>1 DEF RetainedSessions, LeaseInv, TableOK, Open
  <2>3. output = RetainedSessions(att)
    BY <1>4, <2>2 DEF WithOutput
  <2>4. /\ att' = Superseded(c) /\ state' = "TRIAGING"
        /\ job' = [job EXCEPT ![Operator] = n]
    BY <1>2, <1>4, <2>3
  <2>5. /\ n.pc = "settle" /\ n.a = c /\ n.seen = got[c] /\ n.view = "TRIAGING"
        /\ n.mem = "RUNNING"
    BY IngestingFields
  <2> HIDE DEF n, c, output
  <2>6. (\A k \in Loops : job'[k] = job[k]) /\ job'[Operator] = n
    BY <1>1, <2>4, JobEffect DEF Others
  <2>7. TableOK(att', remote', state') /\ SidsKept /\ att'[c].sid
    BY <1>1, <2>1, <2>4, SupersededTable
  <2>8. ASSUME NEW k \in Loops PROVE JobOK(job'[k], att', remote', state')
    <3>1. job[k].a \in Attempts /\ JobOK(job[k], att, remote, state) /\ job[k].pc \notin Driving
      BY <1>1, DrivingFacts
    <3> QED
      BY <2>4, <2>6, <2>7, <3>1 DEF JobOK, Driving, OnRow, Unattached, Attached, SidsKept
  <2>9. OperatorOK(job'[Operator], att')
    BY <2>1, <2>5, <2>6, <2>7 DEF OperatorOK
  <2>10. HolderWorks'
    BY <1>1, <2>6, HolderStays
  <2> QED
    BY <2>7, <2>8, <2>9, <2>10
       DEF LeaseInv, OperatorOK, TableOK, JobOK, RowOK, Open, Active
<1> QED
  BY <1>2, <1>3, <1>4

LEMMA OperatorLease ==
    ASSUME TypeOK, OutputInv, LeaseInv, OperatorStep
    PROVE  LeaseInv'
<1>1. CASE Cancel \/ Retry
  BY <1>1, OutsideBeside, BesidePreserves
<1>2. CASE ReconcileSession
  BY <1>2, ReconcileSessionLease
<1>3. CASE Ingest(Operator)
  BY <1>3, OperatorFacts DEF Ingest, At, OperatorOK
<1>4. CASE Settle(Operator)
  BY <1>4, OperatorSettles, BesidePreserves
<1>5. CASE Finish(Operator)
  BY <1>5, OperatorFinishes, BesidePreserves
<1>6. CASE DbError(Operator)
  <2>1. job' = [job EXCEPT ![Operator] = Idle]
    BY <1>6, OperatorExit DEF DbError, Leave
  <2> QED
    BY <1>6, <2>1, OperatorGivesUp, BesidePreserves DEF DbError, devin
<1> QED
  BY <1>1, <1>2, <1>3, <1>4, <1>5, <1>6 DEF OperatorStep, SharedStep

LEMMA LeaseInit == Init => LeaseInv
<1> SUFFICES ASSUME Init PROVE LeaseInv
  OBVIOUS
<1>1. /\ Operator \in Actors /\ \A l \in Actors : job[l].pc = "idle"
      /\ \A l \in Loops : l \in Actors
  BY IdleType DEF Init, Actors
<1>2. \A a \in Attempts : att[a].status = "NONE" /\ ~att[a].sid
  BY DEF Init, NoRow
<1>3. TableOK(att, remote, state)
  BY <1>2 DEF Init, TableOK, RowOK, Open, Active, ACTIVE_ATTEMPT_STATUSES
<1>4. \A l \in Loops : JobOK(job[l], att, remote, state)
  BY <1>1, RestingOK DEF Resting
<1> QED
  BY <1>1, <1>3, <1>4 DEF LeaseInv, HolderWorks, OperatorOK

LEMMA LeaseNext ==
    ASSUME MayStall = FALSE, OneCreateInv, OutputInv, LeaseInv, [Next]_vars
    PROVE  LeaseInv'
<1>1. TypeOK
  BY DEF OneCreateInv
<1>2. ASSUME NEW l \in Loops, LoopStep(l) PROVE LeaseInv'
  <2>1. CASE Claim(l)
    BY <1>1, <2>1, ClaimLease
  <2>2. CASE \/ Evaluate(l) \/ Verdict(l) \/ RunNew(l) \/ RunResume(l)
             \/ Create(l) \/ Insert(l) \/ Prepare(l) \/ Send(l)
    <3>1. job[l].pc # "idle" /\ Good(l)
      BY <1>1, <2>2, EntryGood, RunNewGood, RunResumeGood, CreateGood, InsertGood,
         PrepareGood, SendGood
    <3> QED
      BY <1>1, <3>1, GoodPreserves
  <2>3. CASE \/ PostOk(l) \/ PostRejected(l) \/ PostLost(l) \/ Attach(l) \/ Orphan(l)
             \/ Reconcile(l) \/ Lookup(l) \/ Poll(l) \/ Get(l)
    <3>1. job[l].pc # "idle" /\ Good(l)
      BY <1>1, <2>3, PostGood, AttachGood, OrphanGood, ReconcileGood, LookupGood,
         PollGood, GetGood
    <3> QED
      BY <1>1, <3>1, GoodPreserves
  <2>4. CASE \/ FinalGet(l) \/ Delete(l) \/ Tag(l) \/ Mark(l) \/ Terminate(l)
             \/ ReconcileBlocked(l) \/ Abandon(l) \/ Release(l) \/ MarkFailed(l)
    <3>1. job[l].pc # "idle" /\ Good(l)
      BY <1>1, <2>4, FinalGetGood, DeleteGood, TagGood, MarkGood, TerminateGood,
         ReconcileBlockedGood, EndGood, ReleaseGood
    <3> QED
      BY <1>1, <3>1, GoodPreserves
  <2>5. CASE SharedStep(l)
    <3>1. job[l].pc # "idle" /\ Good(l)
      BY <1>1, <2>5, IngestGood, SettleGood, FinishGood DEF SharedStep
    <3> QED
      BY <1>1, <3>1, GoodPreserves
  <2> QED
    BY <1>2, <2>1, <2>2, <2>3, <2>4, <2>5 DEF LoopStep
<1>3. ASSUME NEW l \in Loops, LoopFault(l) PROVE LeaseInv'
  <2>1. job[l].pc # "idle" /\ Good(l)
    BY <1>1, <1>3, FaultGood DEF LoopFault, Stall
  <2> QED
    BY <1>1, <2>1, GoodPreserves
<1>4. ASSUME NEW l \in Loops, Heartbeat(l) PROVE LeaseInv'
  BY <1>4 DEF Heartbeat, JobPC, LeaseInv, HolderWorks
<1>5. CASE OperatorStep
  BY <1>1, <1>5, OperatorLease
<1>6. CASE Environment \/ UNCHANGED vars
  BY <1>1, <1>6, OutsideBeside, BesidePreserves
<1> QED
  BY <1>2, <1>3, <1>4, <1>5, <1>6 DEF Next

\* The lease lets one loop work on a case at a time, so claiming, resuming, parking,
\* ingesting and superseding (process_case(), DevinRunner, reconcile_session()) never
\* leave two attempts that may run a session, for any number of loops and attempts.
THEOREM OneAttemptRuns ==
    ASSUME MayStall = FALSE
    PROVE  Spec => []OneActiveAttempt
<1>1. LeaseInv => OneActiveAttempt
  BY DEF LeaseInv, TableOK, OneActiveAttempt, ActiveAttempts, Open
<1>2. OneCreateInv /\ OutputInv /\ LeaseInv /\ [Next]_vars => LeaseInv'
  BY LeaseNext
<1> QED
  BY InvInit, InvNext, OutputInit, OutputNext, LeaseInit, <1>1, <1>2, PTL DEF Spec

\* At most one session is retained for a human: _settle_previous_sessions() has closed
\* the earlier one before its replacement is inserted.
THEOREM OneSessionRetained ==
    ASSUME MayStall = FALSE
    PROVE  Spec => []OneRetainedSession
<1>1. LeaseInv => OneRetainedSession
  BY DEF LeaseInv, TableOK, OneRetainedSession, RetainedSessions, Open
<1>2. OneCreateInv /\ OutputInv /\ LeaseInv /\ [Next]_vars => LeaseInv'
  BY LeaseNext
<1> QED
  BY InvInit, InvNext, OutputInit, OutputNext, LeaseInit, <1>1, <1>2, PTL DEF Spec

\* A HUMAN_BLOCKED case has a blocked attempt and no active one: both columns change
\* in one transaction (_reconcile_create(), _settle()), and an ingesting commit takes
\* the case out of HUMAN_BLOCKED as it reopens the attempt.
THEOREM BlockedCasesHaveCause ==
    ASSUME MayStall = FALSE
    PROVE  Spec => []BlockedCaseHasCause
<1>1. LeaseInv => BlockedCaseHasCause
  <2> SUFFICES ASSUME LeaseInv, state = "HUMAN_BLOCKED"
               PROVE  /\ \E a \in Attempts : att[a].status = "BLOCKED"
                      /\ ActiveAttempts(att) = {}
    BY DEF BlockedCaseHasCause
  <2>1. PICK a \in Attempts : att[a].status = "BLOCKED"
    BY DEF LeaseInv, TableOK
  <2>2. ASSUME NEW b \in Attempts, Active(att[b]) PROVE FALSE
    <3>1. a = b
      BY <2>1, <2>2 DEF LeaseInv, TableOK, Open
    <3> QED
      BY <2>1, <2>2, <3>1 DEF Active, ACTIVE_ATTEMPT_STATUSES
  <2> QED
    BY <2>1, <2>2 DEF ActiveAttempts
<1>2. OneCreateInv /\ OutputInv /\ LeaseInv /\ [Next]_vars => LeaseInv'
  BY LeaseNext
<1> QED
  BY InvInit, InvNext, OutputInit, OutputNext, LeaseInit, <1>1, <1>2, PTL DEF Spec

\* An attempt whose session id is known is closed as succeeded, failed or timed out
\* only after Devin reported the end of its session or confirmed its DELETE
\* (_settle(), _finish_triage(), _handle_timeout() and _mark_terminated()), whether
\* or not such a session is resumed afterwards.
THEOREM ClosedAttemptsWereStopped ==
    ASSUME MayStall = FALSE
    PROVE  Spec => []ClosedAttemptWasStopped
<1>1. LeaseInv => ClosedAttemptWasStopped
  BY DEF LeaseInv, TableOK, RowOK, ClosedAttemptWasStopped
<1>2. OneCreateInv /\ OutputInv /\ LeaseInv /\ [Next]_vars => LeaseInv'
  BY LeaseNext
<1> QED
  BY InvInit, InvNext, OutputInit, OutputNext, LeaseInit, <1>1, <1>2, PTL DEF Spec

LEMMA OnlySendPosts ==
    ASSUME OneCreateInv, [Next]_vars
    PROVE  posts' = posts \/ \E l \in Loops : Send(l)
<1>1. TypeOK
  BY DEF OneCreateInv
<1>2. ASSUME NEW l \in Actors, SharedStep(l) PROVE posts' = posts
  BY <1>2 DEF SharedStep, Ingest, Settle, Finish, devin
<1>3. ASSUME NEW l \in Loops, LoopStep(l) PROVE posts' = posts \/ Send(l)
  <2>1. CASE \/ Claim(l) \/ Evaluate(l) \/ Verdict(l) \/ RunNew(l) \/ RunResume(l)
             \/ Create(l) \/ Insert(l) \/ Prepare(l)
    BY <2>1 DEF Claim, Evaluate, Verdict, RunNew, RunResume, Create, Insert, Prepare, devin
  <2>2. CASE \/ PostOk(l) \/ PostRejected(l) \/ PostLost(l) \/ Attach(l) \/ Orphan(l)
             \/ Reconcile(l) \/ Lookup(l) \/ Poll(l) \/ Get(l)
    BY <2>2 DEF PostOk, PostRejected, PostLost, Attach, Orphan, Reconcile, Lookup, Poll,
       Get, devin
  <2>3. CASE \/ FinalGet(l) \/ Delete(l) \/ Tag(l) \/ Mark(l) \/ Terminate(l)
             \/ ReconcileBlocked(l) \/ Abandon(l) \/ Release(l) \/ MarkFailed(l)
    BY <2>3 DEF FinalGet, Delete, Tag, Mark, Terminate, ReconcileBlocked, Abandon, Release,
       MarkFailed, devin
  <2> QED
    BY <1>2, <1>3, <2>1, <2>2, <2>3 DEF LoopStep, Actors
<1>4. ASSUME NEW l \in Actors, LoopFault(l) \/ Heartbeat(l) \/ DbError(l) PROVE posts' = posts
  BY <1>4 DEF LoopFault, JobError, DbError, Crash, Stall, Heartbeat, devin
<1>5. CASE OperatorStep
  BY <1>2, <1>4, <1>5 DEF OperatorStep, Cancel, Retry, ReconcileSession, devin, Actors
<1>6. CASE Environment \/ UNCHANGED vars
  BY <1>6 DEF Environment, LeaseLapses, Land, SessionStep, Expire, vars, devin
<1> QED
  BY <1>3, <1>4, <1>5, <1>6 DEF Next, Actors

\* POST /sessions leaves only when every other attempt of the case is closed: _create()
\* settled the earlier sessions, and nothing opened another since.
THEOREM CreatesComeAlone ==
    ASSUME MayStall = FALSE
    PROVE  Spec => NoCreateBehindOpenAttempt
<1> DEFINE Alone == \A a \in Attempts :
                      posts'[a] # posts[a] =>
                        \A b \in Attempts \ {a} : ~Active(att[b]) /\ att[b].status # "BLOCKED"
<1>1. OneCreateInv /\ LeaseInv /\ [Next]_vars => Alone
  <2> SUFFICES ASSUME OneCreateInv, LeaseInv, [Next]_vars,
                      NEW a \in Attempts, posts'[a] # posts[a],
                      NEW b \in Attempts \ {a}
               PROVE  ~Open(att[b])
    BY DEF Open
  <2>1. PICK l \in Loops : Send(l)
    BY OnlySendPosts
  <2>2. TypeOK /\ job[l].pc = "post" /\ job[l].pc \in OnRow
    BY <2>1 DEF OneCreateInv, Send, At, OnRow, Unattached
  <2>3. job[l].a = a
    BY <2>1, <2>2 DEF Send, TypeOK
  <2> QED
    BY <2>2, <2>3, OnRowFacts
<1>2. OneCreateInv /\ OutputInv /\ LeaseInv /\ [Next]_vars => LeaseInv'
  BY LeaseNext
<1> QED
  BY InvInit, InvNext, OutputInit, OutputNext, LeaseInit, <1>1, <1>2, PTL
     DEF Spec, NoCreateBehindOpenAttempt
=============================================================================
