---------------------------- MODULE ApprovalProofs ----------------------------
(***************************************************************************)
(* Theorems about Approval for any number of loops, processes, rounds,      *)
(* tokens, webhooks and faults: the approval subsystem implements           *)
(* Decision.tla.                                                            *)
(***************************************************************************)
EXTENDS Approval, SetBounds

\* A loop's dispatcher at work.
Jobs ==
    [pc : PCs, at : Rows, snap : Requests, case : CaseState, dirty : BOOLEAN,
     permanent : BOOLEAN]

\* The variables the rounds depend on.
Typed ==
    /\ state \in CaseState
    /\ attempt \in Rounds
    /\ req \in [Rounds -> Requests]
    /\ job \in [Loops -> Jobs]

\* The rounds come one after the other: none beyond the newest triage attempt, none for
\* the attempt that still runs, and only the newest of them can be open.
RoundsInOrder ==
    /\ \A r \in Rounds : r > attempt => req[r].decision = "NONE"
    /\ state = "TRIAGING" => req[attempt].decision = "NONE"
    /\ state = "RECEIVED" => attempt < MaxRounds
    /\ \A r, q \in Rounds : req[r].decision = "PENDING" /\ req[q].decision # "NONE" => q <= r

\* A handler that is past the checks of _github_apply_label() works for an approved round.
LabelsAreApproved ==
    \A l \in Loops :
        job[l].pc \in {"add", "added", "replay"} => req[job[l].at[1]].decision = "APPROVED"

\* The inductive invariant of the refinement.
RoundInv == Typed /\ RoundsInOrder /\ LabelsAreApproved
-----------------------------------------------------------------------------
(***************************************************************************)
(* The newest round.                                                        *)
(***************************************************************************)
LEMMA NewestIs ==
    ASSUME Typed
    PROVE  /\ Newest \in Rounds \cup {0}
           /\ Newest # 0 => req[Newest].decision # "NONE"
           /\ \A r \in Rounds : req[r].decision # "NONE" => r <= Newest
<1> DEFINE T == {0} \cup {r \in Rounds : req[r].decision # "NONE"}
<1>1. MaxRounds \in Nat /\ T \subseteq 0..MaxRounds /\ T # {}
  BY ConstantsAssumption DEF Rounds
<1>2. Newest = CHOOSE x \in T : \A y \in T : x >= y
  BY DEF Newest, Max
<1>3. \E x \in T : \A y \in T : x >= y
  BY <1>1, Greatest
<1> HIDE DEF T
<1>4. Newest \in T /\ \A y \in T : Newest >= y
  BY <1>2, <1>3, Zenon
<1> QED
  BY <1>1, <1>4 DEF T, Rounds

\* It is the one round that has these properties.
LEMMA NewestIsUnique ==
    ASSUME Typed, NEW n \in Rounds \cup {0}, n # 0 => req[n].decision # "NONE",
           \A r \in Rounds : req[r].decision # "NONE" => r <= n
    PROVE  Newest = n
<1>1. MaxRounds \in Nat /\ n \in Nat /\ Newest \in Nat
  BY NewestIs, ConstantsAssumption DEF Rounds
<1> QED
  BY <1>1, NewestIs DEF Rounds

\* An open round is the newest.
LEMMA OpenIsNewest ==
    ASSUME Typed, RoundsInOrder, NEW r \in Rounds, req[r].decision = "PENDING"
    PROVE  Newest = r
BY NewestIsUnique DEF RoundsInOrder

\* A step that leaves the decisions alone leaves the newest round alone.
LEMMA SameNewest ==
    ASSUME \A r \in Rounds : req'[r].decision = req[r].decision
    PROVE  Newest' = Newest
<1>1. {r \in Rounds : req'[r].decision # "NONE"} = {r \in Rounds : req[r].decision # "NONE"}
  OBVIOUS
<1> QED
  BY <1>1 DEF Newest, Max
-----------------------------------------------------------------------------
(***************************************************************************)
(* Types.                                                                   *)
(***************************************************************************)
LEMMA NoRequestType == NoRequest \in Requests /\ NoRequest.decision = "NONE"
BY DEF NoRequest, Requests, Decisions

LEMMA IdleType == Idle \in Jobs /\ Idle.pc = "idle"
<1>1. <<1, "slack_approval_request">> \in Rows
  BY ConstantsAssumption DEF Rows, Rounds, Kinds
<1> QED
  BY <1>1, NoRequestType DEF Idle, Jobs, PCs, CaseState, GENERIC_STATES

LEMMA InitRounds == Init => RoundInv
<1> SUFFICES ASSUME Init PROVE RoundInv
  OBVIOUS
<1>1. Typed
  BY NoRequestType, IdleType, ConstantsAssumption
  DEF Init, Typed, Rounds, CaseState, GENERIC_STATES
<1> QED
  BY <1>1, NoRequestType, IdleType, ConstantsAssumption
  DEF Init, RoundInv, RoundsInOrder, LabelsAreApproved, Rounds

\* What the actions write into a round's row.
LEMMA RequestUpdates ==
    ASSUME NEW q \in Requests
    PROVE  /\ \A d \in Decisions : [q EXCEPT !.decision = d] \in Requests
           /\ \A d \in Decisions, v \in {"NOT_REQUESTED", "PENDING"} :
                 [q EXCEPT !.decision = d, !.delivery = v] \in Requests
           /\ \A v \in {"LABEL_APPLIED", "CONFIRMED", "FAILED", "PENDING"} :
                 [q EXCEPT !.delivery = v] \in Requests
           /\ [q EXCEPT !.decision = "SUPERSEDED", !.token = 0] \in Requests
           /\ \A n \in {"SENT"}, t \in Tokens \cup {0} :
                [q EXCEPT !.notification = n, !.ts = t] \in Requests
           /\ \A t \in Tokens : [q EXCEPT !.notification = "SENDING", !.token = t] \in Requests
           /\ [q EXCEPT !.requested = TRUE] \in Requests
           /\ [q EXCEPT !.intent = TRUE] \in Requests
           /\ [q EXCEPT !.comment = TRUE] \in Requests
           /\ Applied(q) \in Requests
BY DEF Requests, Decisions, Applied
-----------------------------------------------------------------------------
(***************************************************************************)
(* The steps of the outbox decide nothing.                                  *)
(***************************************************************************)
SameDecisions == \A r \in Rounds : req'[r].decision = req[r].decision

Labelling == {"add", "added", "replay"}

OutboxStep == Typed' /\ SameDecisions /\ LabelsAreApproved'

LEMMA LoopStep ==
    ASSUME RoundInv, NEW l \in Loops, NEW j \in Jobs, job' = [job EXCEPT ![l] = j],
           j.pc \in Labelling => req[j.at[1]].decision = "APPROVED",
           req' \in [Rounds -> Requests], SameDecisions, UNCHANGED attempt, state' \in CaseState
    PROVE  OutboxStep
<1>1. Typed'
  BY DEF RoundInv, Typed
<1>2. \A m \in Loops : job'[m].at[1] \in Rounds
  BY <1>1 DEF Typed, Jobs, Rows
<1> QED
  BY <1>1, <1>2 DEF OutboxStep, RoundInv, Typed, LabelsAreApproved, SameDecisions, Labelling

LEMMA JobRow ==
    ASSUME Typed, NEW l \in Loops
    PROVE  /\ job[l] \in Jobs /\ job[l].at[1] \in Rounds /\ req[job[l].at[1]] \in Requests
           /\ job[l].snap \in Requests /\ job[l].dirty \in BOOLEAN
BY DEF Typed, Jobs, Rows

LEMMA FailingJob ==
    ASSUME Typed, NEW l \in Loops, NEW p \in BOOLEAN
    PROVE  LET j == [Idle EXCEPT !.pc = "fail", !.at = job[l].at, !.permanent = p]
           IN  j \in Jobs /\ j.pc = "fail"
BY IdleType, JobRow DEF Jobs, PCs

LEMMA ClaimStep ==
    ASSUME RoundInv, NEW l \in Loops, NEW w \in Rows, Claim(l, w)
    PROVE  OutboxStep
<1> DEFINE j == [Idle EXCEPT !.pc = "claimed", !.at = w]
<1>1. j \in Jobs /\ j.pc = "claimed"
  BY IdleType DEF Jobs, PCs
<1>2. job' = [job EXCEPT ![l] = j] /\ UNCHANGED <<req, attempt, state>>
  BY DEF Claim
<1> HIDE DEF j
<1> QED
  BY <1>1, <1>2, LoopStep DEF RoundInv, Typed, SameDecisions, Labelling

LEMMA CrashStep ==
    ASSUME RoundInv, NEW l \in Loops, Crash(l)
    PROVE  OutboxStep
<1>1. \A m \in Loops : job'[m] = Idle \/ job'[m] = job[m]
  BY DEF Crash
<1>2. Typed'
  BY IdleType DEF Crash, RoundInv, Typed
<1> QED
  BY <1>1, <1>2, IdleType
  DEF Crash, OutboxStep, RoundInv, SameDecisions, LabelsAreApproved

LEMMA NotOursStep ==
    ASSUME RoundInv, NEW l \in Loops, NotOurs(l)
    PROVE  OutboxStep
BY IdleType, LoopStep DEF NotOurs, RoundInv, Typed, SameDecisions, Labelling

LEMMA CallFailsStep ==
    ASSUME RoundInv, NEW l \in Loops, CallFails(l)
    PROVE  OutboxStep
<1>1. PICK p \in BOOLEAN : Failing(l, p)
  BY DEF CallFails, Failures
<1> DEFINE j == [Idle EXCEPT !.pc = "fail", !.at = job[l].at, !.permanent = p]
<1>2. job' = [job EXCEPT ![l] = j] /\ UNCHANGED <<req, attempt, state>>
  BY <1>1 DEF CallFails, Failing
<1>3. j \in Jobs /\ j.pc = "fail"
  BY FailingJob DEF RoundInv
<1> HIDE DEF j
<1> QED
  BY <1>2, <1>3, LoopStep DEF RoundInv, Typed, SameDecisions, Labelling

LEMMA PostStep ==
    ASSUME RoundInv, NEW l \in Loops, Post(l)
    PROVE  OutboxStep
<1> DEFINE j == [job[l] EXCEPT !.pc = "posted"]
<1>1. j \in Jobs /\ j.pc = "posted"
  BY JobRow DEF RoundInv, Jobs, PCs
<1>2. job' = [job EXCEPT ![l] = j] /\ UNCHANGED <<req, attempt, state>>
  BY DEF Post
<1> HIDE DEF j
<1> QED
  BY <1>1, <1>2, LoopStep DEF RoundInv, Typed, SameDecisions, Labelling

LEMMA AddLabelStep ==
    ASSUME RoundInv, NEW l \in Loops, AddLabel(l)
    PROVE  OutboxStep
<1> DEFINE j == [job[l] EXCEPT !.pc = "added"]
<1>1. j \in Jobs /\ j.at = job[l].at
  BY JobRow DEF RoundInv, Jobs, PCs
<1>2. job' = [job EXCEPT ![l] = j] /\ UNCHANGED <<req, attempt, state>>
  BY DEF AddLabel
<1>3. req[job[l].at[1]].decision = "APPROVED"
  BY DEF AddLabel, RoundInv, LabelsAreApproved
<1> HIDE DEF j
<1> QED
  BY <1>1, <1>2, <1>3, LoopStep DEF RoundInv, Typed, SameDecisions

LEMMA CreateCommentStep ==
    ASSUME RoundInv, NEW l \in Loops, CreateComment(l)
    PROVE  OutboxStep
<1> DEFINE j == [job[l] EXCEPT !.pc = "commented"]
<1>1. j \in Jobs /\ j.pc = "commented"
  BY JobRow DEF RoundInv, Jobs, PCs
<1>2. job' = [job EXCEPT ![l] = j] /\ UNCHANGED <<req, attempt, state>>
  BY DEF CreateComment
<1> HIDE DEF j
<1> QED
  BY <1>1, <1>2, LoopStep DEF RoundInv, Typed, SameDecisions, Labelling

\* A step that writes an undecided part of one round's row.
LEMMA RowWritten ==
    ASSUME Typed, NEW r \in Rounds, NEW q \in Requests, req' = [req EXCEPT ![r] = q],
           q.decision = req[r].decision
    PROVE  req' \in [Rounds -> Requests] /\ SameDecisions
BY DEF Typed, SameDecisions

LEMMA SentJob ==
    ASSUME RoundInv, NEW l \in Loops, Sent(l), UNCHANGED attempt, state' \in CaseState,
           req' \in [Rounds -> Requests], SameDecisions
    PROVE  OutboxStep
BY IdleType, LoopStep DEF Sent, Labelling

LEMMA BeginNotifyStep ==
    ASSUME RoundInv, NEW l \in Loops, BeginNotify(l)
    PROVE  OutboxStep
<1> DEFINE r == job[l].at[1]
           t == req[r].token + 1
<1>1. Typed /\ r \in Rounds /\ req[r] \in Requests /\ UNCHANGED attempt
      /\ state' \in CaseState
  BY JobRow DEF RoundInv, Typed, BeginNotify
<1>2. CASE Sent(l) /\ UNCHANGED req
  BY <1>1, <1>2, SentJob DEF SameDecisions, Typed
<1>3. CASE Sent(l) /\ \E m \in Messages(r) :
             req' = [req EXCEPT ![r].notification = "SENT", ![r].ts = m]
  <2>1. PICK m \in Tokens : req' = [req EXCEPT ![r].notification = "SENT", ![r].ts = m]
    BY <1>3 DEF Messages
  <2> DEFINE q == [req[r] EXCEPT !.notification = "SENT", !.ts = m]
  <2>2. req' = [req EXCEPT ![r] = q]
    BY <1>1, <2>1 DEF Typed
  <2>3. q \in Requests /\ q.decision = req[r].decision
    BY <1>1 DEF Requests
  <2> HIDE DEF q, r
  <2> QED
    BY <1>1, <1>3, <2>2, <2>3, RowWritten, SentJob
<1>4. CASE /\ t \in Tokens
           /\ req' = [req EXCEPT ![r].notification = "SENDING", ![r].token = t]
           /\ job' = [job EXCEPT ![l].pc = "post", ![l].snap = req'[r]]
  <2> DEFINE q == [req[r] EXCEPT !.notification = "SENDING", !.token = t]
             j == [job[l] EXCEPT !.pc = "post", !.snap = q]
  <2>1. req' = [req EXCEPT ![r] = q] /\ req'[r] = q
    BY <1>1, <1>4 DEF Typed
  <2>2. q \in Requests /\ q.decision = req[r].decision
    BY <1>1, <1>4 DEF Requests
  <2>3. job' = [job EXCEPT ![l] = j]
    BY <1>1, <1>4, <2>1 DEF Typed
  <2> HIDE DEF q
  <2>4. j \in Jobs /\ j.pc = "post"
    BY <1>1, <2>2, JobRow DEF Jobs, PCs
  <2> HIDE DEF j, r
  <2> QED
    BY <1>1, <2>1, <2>2, <2>3, <2>4, RowWritten, LoopStep DEF Labelling
<1> QED
  BY <1>2, <1>3, <1>4 DEF BeginNotify

LEMMA MarkNotifiedStep ==
    ASSUME RoundInv, NEW l \in Loops, MarkNotified(l)
    PROVE  OutboxStep
<1> DEFINE r == job[l].at[1]
           q == [req[r] EXCEPT !.notification = "SENT", !.ts = job[l].snap.token]
<1>1. Typed /\ r \in Rounds /\ req[r] \in Requests /\ Sent(l) /\ UNCHANGED attempt
      /\ state' \in CaseState
  BY JobRow DEF RoundInv, Typed, MarkNotified
<1>2. req' = [req EXCEPT ![r] = q]
  BY <1>1 DEF MarkNotified, Typed
<1>3. q \in Requests /\ q.decision = req[r].decision
  BY <1>1, JobRow DEF Requests
<1> HIDE DEF q, r
<1> QED
  BY <1>1, <1>2, <1>3, RowWritten, SentJob

LEMMA CommitLabelStep ==
    ASSUME RoundInv, NEW l \in Loops, CommitLabel(l)
    PROVE  OutboxStep
<1> DEFINE r == job[l].at[1]
           q == Applied(req[r])
           j == [job[l] EXCEPT !.pc = "replay", !.snap = Applied(job[l].snap)]
<1>1. Typed /\ r \in Rounds /\ req[r] \in Requests /\ UNCHANGED attempt
      /\ req[r].decision = "APPROVED" /\ state' \in CaseState
  BY JobRow DEF RoundInv, Typed, CommitLabel, LabelsAreApproved
<1>2. req' = [req EXCEPT ![r] = q] /\ job' = [job EXCEPT ![l] = j]
  BY <1>1 DEF CommitLabel, Typed
<1>3. q \in Requests /\ q.decision = req[r].decision
  <2>1. q \in Requests
    BY <1>1, RequestUpdates
  <2>2. q.decision = req[r].decision
    BY <1>1 DEF Applied, Requests
  <2> QED
    BY <2>1, <2>2
<1>4. j \in Jobs /\ j.at = job[l].at
  BY <1>1, JobRow, RequestUpdates DEF Jobs, PCs
<1>5. req' \in [Rounds -> Requests] /\ SameDecisions
  <2> HIDE DEF q, r
  <2> QED
    BY <1>1, <1>2, <1>3, RowWritten
<1> HIDE DEF j
<1> QED
  BY <1>1, <1>2, <1>4, <1>5, LoopStep

LEMMA BeginLabelStep ==
    ASSUME RoundInv, NEW l \in Loops, BeginLabel(l)
    PROVE  OutboxStep
<1> DEFINE r == job[l].at[1]
           J(pc, q) == [job[l] EXCEPT !.pc = pc, !.snap = q, !.case = state]
<1>1. Typed /\ r \in Rounds /\ req[r] \in Requests /\ UNCHANGED <<attempt, state>>
  BY JobRow DEF RoundInv, BeginLabel
<1>2. ASSUME NEW p \in PCs, NEW q \in Requests
      PROVE  J(p, q) \in Jobs /\ J(p, q).pc = p /\ J(p, q).at = job[l].at
  BY <1>1, JobRow DEF Jobs, Typed
<1>3. CASE Failing(l, TRUE) /\ UNCHANGED req
  <2> DEFINE j == [Idle EXCEPT !.pc = "fail", !.at = job[l].at, !.permanent = TRUE]
  <2>1. j \in Jobs /\ j.pc = "fail"
    BY <1>1, FailingJob
  <2>2. job' = [job EXCEPT ![l] = j]
    BY <1>3 DEF Failing
  <2> HIDE DEF j
  <2> QED
    BY <1>1, <1>3, <2>1, <2>2, LoopStep DEF Typed, SameDecisions, Labelling
<1>4. CASE /\ job' = [job EXCEPT ![l].pc = "note", ![l].snap = req[r], ![l].case = state]
           /\ UNCHANGED req
  <2>1. job' = [job EXCEPT ![l] = J("note", req[r])]
    BY <1>1, <1>4 DEF Typed
  <2>2. J("note", req[r]) \in Jobs /\ J("note", req[r]).pc = "note"
    BY <1>1, <1>2 DEF PCs
  <2> HIDE DEF J
  <2> QED
    BY <1>1, <1>4, <2>1, <2>2, LoopStep DEF Typed, SameDecisions, Labelling
<1>5. ASSUME NEW p \in {"replay", "add"}, NEW q \in Requests, q.decision = req[r].decision,
             Labelable(r), req' = [req EXCEPT ![r] = q],
             job' = [job EXCEPT ![l].pc = p, ![l].snap = req'[r], ![l].case = state]
      PROVE  OutboxStep
  <2>1. job' = [job EXCEPT ![l] = J(p, q)]
    BY <1>1, <1>5 DEF Typed
  <2>2. J(p, q) \in Jobs /\ J(p, q).at = job[l].at
    <3>1. p \in PCs
      BY DEF PCs
    <3> QED
      BY <1>2, <3>1
  <2>3. req' \in [Rounds -> Requests] /\ SameDecisions
    <3> HIDE DEF r
    <3> QED
      BY <1>1, <1>5, RowWritten
  <2>4. req[r].decision = "APPROVED"
    BY <1>5 DEF Labelable
  <2> HIDE DEF J
  <2> QED
    BY <1>1, <2>1, <2>2, <2>3, <2>4, LoopStep DEF Typed
<1>6. CASE /\ Labelable(r) /\ req' = [req EXCEPT ![r] = Applied(@)]
           /\ job' = [job EXCEPT ![l].pc = "replay", ![l].snap = req'[r], ![l].case = state]
  <2>1. Applied(req[r]) \in Requests
    BY <1>1, RequestUpdates
  <2>2. Applied(req[r]).decision = req[r].decision
    BY <1>1 DEF Applied, Requests
  <2> QED
    BY <1>5, <1>6, <2>1, <2>2
<1>7. CASE /\ Labelable(r) /\ req' = [req EXCEPT ![r].requested = TRUE]
           /\ job' = [job EXCEPT ![l].pc = "add", ![l].snap = req'[r], ![l].case = state]
  <2> DEFINE q == [req[r] EXCEPT !.requested = TRUE]
  <2>1. q \in Requests /\ q.decision = req[r].decision
    BY <1>1 DEF Requests
  <2>2. req' = [req EXCEPT ![r] = q]
    BY <1>1, <1>7 DEF Typed
  <2> HIDE DEF q
  <2> QED
    BY <1>5, <1>7, <2>1, <2>2
<1> QED
  BY <1>3, <1>4, <1>6, <1>7 DEF BeginLabel

\* What a handler's last commits write is undecided, too.
LEMMA FlushedRow ==
    ASSUME Typed, NEW l \in Loops, NEW q \in Requests
    PROVE  /\ Flushed(l, q) \in Requests /\ Flushed(l, q).decision = q.decision
           /\ Recorded(l, q) \in Requests /\ Recorded(l, q).decision = q.decision
           /\ [Flushed(l, q) EXCEPT !.intent = TRUE] \in Requests
           /\ [Flushed(l, q) EXCEPT !.intent = TRUE].decision = q.decision
<1>1. Flushed(l, q) \in Requests /\ Flushed(l, q).decision = q.decision
  BY DEF Flushed, Requests
<1> HIDE DEF Flushed
<1>2. /\ [Flushed(l, q) EXCEPT !.intent = TRUE] \in Requests
      /\ [Flushed(l, q) EXCEPT !.intent = TRUE].decision = q.decision
  BY <1>1 DEF Requests
<1> DEFINE p == [Flushed(l, q) EXCEPT !.comment = TRUE]
<1>3. p \in Requests /\ p.decision = q.decision
  BY <1>1 DEF Requests
<1>4. Recorded(l, q) = IF job[l].snap.delivery = "FAILED"
                       THEN [p EXCEPT !.delivery = "LABEL_APPLIED"] ELSE p
  BY DEF Recorded
<1> HIDE DEF p
<1>5. Recorded(l, q) \in Requests /\ Recorded(l, q).decision = q.decision
  BY <1>3, <1>4 DEF Requests
<1> QED
  BY <1>1, <1>2, <1>5

LEMMA CommentedStep ==
    ASSUME RoundInv, NEW l \in Loops, Commented(l), UNCHANGED <<attempt, state>>
    PROVE  OutboxStep
<1> DEFINE r == job[l].at[1]
           q == Recorded(l, req[r])
<1>1. Typed /\ r \in Rounds /\ req[r] \in Requests /\ Sent(l) /\ state' \in CaseState
  BY JobRow DEF RoundInv, Typed, Commented
<1>2. req' = [req EXCEPT ![r] = q]
  BY DEF Commented
<1>3. q \in Requests /\ q.decision = req[r].decision
  BY <1>1, FlushedRow
<1> HIDE DEF q, r
<1> QED
  BY <1>1, <1>2, <1>3, RowWritten, SentJob

LEMMA EnsureCommentStep ==
    ASSUME RoundInv, NEW l \in Loops, EnsureComment(l)
    PROVE  OutboxStep
<1> DEFINE r == job[l].at[1]
<1>1. Typed /\ r \in Rounds /\ req[r] \in Requests /\ UNCHANGED <<attempt, state>>
  BY JobRow DEF RoundInv, EnsureComment
<1>2. CASE Commented(l)
  BY <1>1, <1>2, CommentedStep
<1>3. CASE job' = [job EXCEPT ![l].pc = "comment"] /\ UNCHANGED req
  <2> DEFINE j == [job[l] EXCEPT !.pc = "comment"]
  <2>1. j \in Jobs /\ j.pc = "comment"
    BY <1>1, JobRow DEF Jobs, PCs
  <2>2. job' = [job EXCEPT ![l] = j]
    BY <1>3
  <2> HIDE DEF j
  <2> QED
    BY <1>1, <1>3, <2>1, <2>2, LoopStep DEF Typed, SameDecisions, Labelling
<1>4. CASE /\ req' = [req EXCEPT ![r] = [Flushed(l, @) EXCEPT !.intent = TRUE]]
           /\ job' = [job EXCEPT ![l].pc = "comment", ![l].dirty = FALSE]
  <2> DEFINE j == [job[l] EXCEPT !.pc = "comment", !.dirty = FALSE]
             q == [Flushed(l, req[r]) EXCEPT !.intent = TRUE]
  <2>1. j \in Jobs /\ j.pc = "comment"
    BY <1>1, JobRow DEF Jobs, PCs
  <2>2. job' = [job EXCEPT ![l] = j] /\ req' = [req EXCEPT ![r] = q]
    BY <1>1, <1>4 DEF Typed
  <2>3. q \in Requests /\ q.decision = req[r].decision
    BY <1>1, FlushedRow
  <2> HIDE DEF j, q, r
  <2> QED
    BY <1>1, <2>1, <2>2, <2>3, RowWritten, LoopStep DEF Typed, Labelling
<1> QED
  BY <1>2, <1>3, <1>4 DEF EnsureComment

LEMMA RecordCommentStep ==
    ASSUME RoundInv, NEW l \in Loops, RecordComment(l)
    PROVE  OutboxStep
BY CommentedStep DEF RecordComment

LEMMA BeginRejectionStep ==
    ASSUME RoundInv, NEW l \in Loops, BeginRejection(l)
    PROVE  OutboxStep
<1> DEFINE r == job[l].at[1]
<1>1. Typed /\ r \in Rounds /\ req[r] \in Requests /\ UNCHANGED <<attempt, state, req>>
      /\ SameDecisions /\ req' \in [Rounds -> Requests] /\ state' \in CaseState
  BY JobRow DEF RoundInv, Typed, BeginRejection, SameDecisions
<1>2. CASE Failing(l, TRUE)
  <2> DEFINE j == [Idle EXCEPT !.pc = "fail", !.at = job[l].at, !.permanent = TRUE]
  <2>1. j \in Jobs /\ j.pc = "fail"
    BY <1>1, FailingJob
  <2>2. job' = [job EXCEPT ![l] = j]
    BY <1>2 DEF Failing
  <2> HIDE DEF j
  <2> QED
    BY <1>1, <2>1, <2>2, LoopStep DEF Labelling
<1>3. CASE Sent(l)
  BY <1>1, <1>3, SentJob
<1>4. CASE job' = [job EXCEPT ![l].pc = "note", ![l].snap = req[r]]
  <2> DEFINE j == [job[l] EXCEPT !.pc = "note", !.snap = req[r]]
  <2>1. j \in Jobs /\ j.pc = "note"
    BY <1>1, JobRow DEF Jobs, PCs
  <2>2. job' = [job EXCEPT ![l] = j]
    BY <1>1, <1>4 DEF Typed
  <2> HIDE DEF j
  <2> QED
    BY <1>1, <2>1, <2>2, LoopStep DEF Labelling
<1> QED
  BY <1>2, <1>3, <1>4 DEF BeginRejection

LEMMA ReplayStep ==
    ASSUME RoundInv, NEW l \in Loops, Replay(l)
    PROVE  /\ OutboxStep /\ UNCHANGED attempt
           /\ \/ UNCHANGED state
              \/ /\ state' = "REMEDIATION_APPROVED" /\ ~Granted
                 /\ Newest # 0 /\ req[Newest].decision = "APPROVED"
<1> DEFINE r == job[l].at[1]
<1>1. Typed /\ r \in Rounds /\ req[r] \in Requests /\ UNCHANGED attempt
      /\ req[r].decision = "APPROVED"
  BY JobRow DEF RoundInv, Replay, LabelsAreApproved
<1>2. ASSUME NEW j \in Jobs, j.pc = "note", job' = [job EXCEPT ![l] = j], UNCHANGED <<state, req>>
      PROVE  OutboxStep
  BY <1>1, <1>2, LoopStep DEF Typed, SameDecisions, Labelling
<1> DEFINE j == [job[l] EXCEPT !.pc = "note"]
<1>3. j \in Jobs /\ j.pc = "note"
  BY <1>1, JobRow DEF Jobs, PCs
<1>4. CASE job' = [job EXCEPT ![l].pc = "note"] /\ UNCHANGED <<state, req>>
  <2>1. job' = [job EXCEPT ![l] = j]
    BY <1>4
  <2> HIDE DEF j
  <2> QED
    BY <1>1, <1>2, <1>3, <1>4, <2>1
<1>5. CASE job' = [job EXCEPT ![l].pc = "note", ![l].dirty = TRUE] /\ UNCHANGED <<state, req>>
  <2> DEFINE k == [job[l] EXCEPT !.pc = "note", !.dirty = TRUE]
  <2>1. k \in Jobs /\ k.pc = "note"
    BY <1>1, JobRow DEF Jobs, PCs
  <2>2. job' = [job EXCEPT ![l] = k]
    BY <1>1, <1>5 DEF Typed
  <2> HIDE DEF k
  <2> QED
    BY <1>1, <1>2, <1>5, <2>1, <2>2
<1>6. CASE /\ confirms(r, job[l].snap, job[l].case) /\ state = job[l].case
           /\ state' = "REMEDIATION_APPROVED"
           /\ req' = [req EXCEPT ![r].delivery = "CONFIRMED"]
           /\ job' = [job EXCEPT ![l].pc = "note"]
  <2> DEFINE q == [req[r] EXCEPT !.delivery = "CONFIRMED"]
  <2>1. q \in Requests /\ q.decision = req[r].decision
    BY <1>1 DEF Requests
  <2>2. job' = [job EXCEPT ![l] = j] /\ req' = [req EXCEPT ![r] = q]
    BY <1>1, <1>6 DEF Typed
  <2>3. state' \in CaseState
    BY <1>6 DEF CaseState, REMEDIATION_PHASE_STATES
  <2>4. r = Newest /\ Newest # 0 /\ ~Granted
    BY <1>1, <1>6 DEF confirms, is_current_request, Granted
  <2>5. req[Newest].decision = "APPROVED"
    BY <1>1, <2>4
  <2> HIDE DEF j, q, r
  <2> QED
    BY <1>1, <1>3, <1>6, <2>1, <2>2, <2>3, <2>4, <2>5, RowWritten, LoopStep DEF Labelling
<1> QED
  BY <1>4, <1>5, <1>6 DEF Replay

LEMMA FailStep ==
    ASSUME RoundInv, NEW l \in Loops, Fail(l)
    PROVE  /\ OutboxStep /\ UNCHANGED attempt
           /\ \/ UNCHANGED state
              \/ state = "AWAITING_REMEDIATION_APPROVAL" /\ state' = "APPROVAL_DELIVERY_FAILED"
<1> DEFINE r == job[l].at[1]
<1>1. Typed /\ r \in Rounds /\ req[r] \in Requests /\ UNCHANGED attempt
      /\ job' = [job EXCEPT ![l] = Idle]
  BY JobRow DEF RoundInv, Fail
<1>2. PICK n, v : /\ n \in {"FAILED", req[r].notification} /\ v \in {"FAILED", req[r].delivery}
                  /\ req' = [req EXCEPT ![r].notification = n, ![r].delivery = v]
  BY <1>1 DEF Fail, Typed
<1> DEFINE q == [req[r] EXCEPT !.notification = n, !.delivery = v]
<1>3. q \in Requests /\ q.decision = req[r].decision
  BY <1>1, <1>2 DEF Requests
<1>4. req' = [req EXCEPT ![r] = q]
  BY <1>1, <1>2 DEF Typed
<1>5. \/ UNCHANGED state
      \/ state = "AWAITING_REMEDIATION_APPROVAL" /\ state' = "APPROVAL_DELIVERY_FAILED"
  BY DEF Fail
<1>6. state' \in CaseState
  BY <1>1, <1>5 DEF Typed, CaseState, GENERIC_STATES
<1> HIDE DEF q, r
<1> QED
  BY <1>1, <1>3, <1>4, <1>5, <1>6, RowWritten, IdleType, LoopStep DEF Labelling

LEMMA RetryOutboxStep ==
    ASSUME RoundInv, NEW w \in Rows, RetryOutbox(w)
    PROVE  OutboxStep
<1> DEFINE r == w[1]
<1>1. Typed /\ r \in Rounds /\ req[r] \in Requests /\ UNCHANGED <<attempt, state, job>>
  BY DEF RoundInv, Typed, RetryOutbox, Rows
<1>2. PICK n, v : /\ n \in {"PENDING", req[r].notification} /\ v \in {"PENDING", req[r].delivery}
                  /\ req' = [req EXCEPT ![r].delivery = v, ![r].notification = n]
  BY <1>1 DEF RetryOutbox, Typed
<1> DEFINE q == [req[r] EXCEPT !.delivery = v, !.notification = n]
<1>3. q \in Requests /\ q.decision = req[r].decision
  BY <1>1, <1>2 DEF Requests
<1>4. req' = [req EXCEPT ![r] = q]
  BY <1>1, <1>2 DEF Typed
<1>5. req' \in [Rounds -> Requests] /\ SameDecisions
  <2> HIDE DEF q, r
  <2> QED
    BY <1>1, <1>3, <1>4, RowWritten
<1>6. \A l \in Loops : job[l].at[1] \in Rounds
  BY <1>1, JobRow
<1> QED
  BY <1>1, <1>5, <1>6
  DEF OutboxStep, Typed, SameDecisions, RoundInv, LabelsAreApproved

LEMMA ConfirmStep ==
    ASSUME RoundInv, NEW e, NEW s, Confirm(e, s)
    PROVE  /\ OutboxStep /\ UNCHANGED attempt
           /\ \/ UNCHANGED state
              \/ /\ state' = "REMEDIATION_APPROVED" /\ ~Granted
                 /\ Newest # 0 /\ req[Newest].decision = "APPROVED"
<1>1. Typed /\ UNCHANGED <<attempt, job>> /\ Newest \in Rounds \cup {0}
  BY NewestIs DEF RoundInv, Confirm
<1>2. CASE UNCHANGED <<req, state>>
  BY <1>1, <1>2 DEF OutboxStep, Typed, SameDecisions, RoundInv, LabelsAreApproved
<1>3. CASE /\ Newest # 0 /\ confirms(Newest, req[Newest], s)
           /\ req' = [req EXCEPT ![Newest].delivery = "CONFIRMED"]
           /\ UNCHANGED state \/ (state = s /\ state' = "REMEDIATION_APPROVED")
  <2> DEFINE q == [req[Newest] EXCEPT !.delivery = "CONFIRMED"]
  <2>1. q \in Requests /\ q.decision = req[Newest].decision
    BY <1>1, <1>3 DEF Typed, Requests
  <2>2. req' = [req EXCEPT ![Newest] = q]
    BY <1>1, <1>3 DEF Typed
  <2>3. state' \in CaseState
    BY <1>1, <1>3 DEF Typed, CaseState, REMEDIATION_PHASE_STATES
  <2>4. req' \in [Rounds -> Requests] /\ SameDecisions
    <3> HIDE DEF q
    <3> QED
      BY <1>1, <1>3, <2>1, <2>2, RowWritten
  <2>5. req[Newest].decision = "APPROVED" /\ (state = s => ~Granted)
    BY <1>3 DEF confirms, Granted
  <2>6. \A l \in Loops : job[l].at[1] \in Rounds
    BY <1>1, JobRow
  <2>7. OutboxStep
    BY <1>1, <2>3, <2>4, <2>6
    DEF OutboxStep, Typed, SameDecisions, RoundInv, LabelsAreApproved
  <2> QED
    BY <1>1, <1>3, <2>5, <2>7
<1> QED
  BY <1>2, <1>3 DEF Confirm
-----------------------------------------------------------------------------
(***************************************************************************)
(* The refinement.                                                          *)
(***************************************************************************)
Verdicts == [r \in Rounds |-> req[r].decision]

GrantedRounds == IF Granted THEN {Newest} ELSE {}

PromiseVars == <<Newest, Verdicts, GrantedRounds>>

Refines == RoundInv' /\ [Abstract!Next]_PromiseVars

LEMMA SameVerdicts ==
    ASSUME SameDecisions
    PROVE  Newest' = Newest /\ Verdicts' = Verdicts
BY SameNewest DEF SameDecisions, Verdicts

LEMMA RoundsKept ==
    ASSUME RoundInv, OutboxStep, UNCHANGED attempt,
           UNCHANGED state \/ state' \notin {"TRIAGING", "RECEIVED"}
    PROVE  RoundInv'
BY DEF RoundInv, OutboxStep, Typed, RoundsInOrder, SameDecisions

\* A step of the outbox that does not grant anything is invisible.
LEMMA Stutters ==
    ASSUME RoundInv, OutboxStep, UNCHANGED attempt,
           \/ UNCHANGED state
           \/ state = "AWAITING_REMEDIATION_APPROVAL" /\ state' = "APPROVAL_DELIVERY_FAILED"
    PROVE  Refines
<1>1. RoundInv'
  BY RoundsKept
<1>2. UNCHANGED PromiseVars
  BY SameVerdicts DEF OutboxStep, PromiseVars, GrantedRounds, Granted
<1> QED
  BY <1>1, <1>2 DEF Refines

LEMMA Grants ==
    ASSUME RoundInv, OutboxStep, UNCHANGED attempt, state' = "REMEDIATION_APPROVED", ~Granted,
           Newest # 0, req[Newest].decision = "APPROVED"
    PROVE  Refines
<1>1. RoundInv'
  BY RoundsKept
<1>2. Newest' = Newest /\ Verdicts' = Verdicts /\ Newest \in Rounds
  BY SameVerdicts, NewestIs DEF OutboxStep, RoundInv
<1>3. GrantedRounds = {} /\ GrantedRounds' = {Newest}
  BY <1>2 DEF GrantedRounds, Granted
<1>4. Abstract!Grant
  BY <1>2, <1>3 DEF Abstract!Grant, Verdicts, GrantedRounds
<1> QED
  BY <1>1, <1>4 DEF Refines, Abstract!Next

LEMMA Decides ==
    ASSUME RoundInv, NEW r \in Rounds, req[r].decision = "PENDING",
           NEW d \in {"APPROVED", "REJECTED", "EXPIRED"},
           NEW q \in Requests, q.decision = d, req' = [req EXCEPT ![r] = q],
           UNCHANGED <<attempt, job>>,
           \/ UNCHANGED state
           \/ state = "AWAITING_REMEDIATION_APPROVAL" /\ state' = "REMEDIATION_REJECTED"
    PROVE  Refines
<1>1. Typed /\ Newest = r /\ r # 0 /\ req' \in [Rounds -> Requests]
  BY OpenIsNewest, ConstantsAssumption DEF RoundInv, Typed, Rounds
<1>2. state' \in CaseState
  BY <1>1 DEF Typed, CaseState, GENERIC_STATES
<1>3. /\ req'[r].decision = d /\ d # "NONE" /\ d # "PENDING"
      /\ \A p \in Rounds \ {r} : req'[p].decision = req[p].decision
  BY <1>1 DEF Typed
<1>4. Typed'
  BY <1>1, <1>2 DEF Typed
<1>5. RoundsInOrder'
  BY <1>1, <1>3 DEF RoundInv, RoundsInOrder
<1>6. LabelsAreApproved'
  BY <1>1, <1>3, JobRow DEF RoundInv, LabelsAreApproved
<1>7. {p \in Rounds : req'[p].decision # "NONE"} = {p \in Rounds : req[p].decision # "NONE"}
  BY <1>3
<1>8. Newest' = Newest
  BY <1>7 DEF Newest, Max
<1>9. Verdicts' = [Verdicts EXCEPT ![Newest] = d]
  BY <1>1, <1>3 DEF Verdicts
<1>10. GrantedRounds' = GrantedRounds
  BY <1>8 DEF GrantedRounds, Granted
<1>11. Abstract!Decide(d)
  BY <1>1, <1>8, <1>9, <1>10 DEF Abstract!Decide, Verdicts, GrantedRounds
<1> QED
  BY <1>4, <1>5, <1>6, <1>11 DEF Refines, RoundInv, Abstract!Next

LEMMA ClicksDecide ==
    ASSUME RoundInv, NEW r \in Rounds, NEW t \in Tokens,
           ClickApprove(r, t) \/ ClickReject(r, t) \/ ClickExpired(r, t) \/ ExpireApproval(r)
    PROVE  Refines
<1>1. req[r] \in Requests /\ Typed
  BY DEF RoundInv, Typed
<1>2. CASE ClickApprove(r, t)
  <2> DEFINE q == [req[r] EXCEPT !.decision = "APPROVED", !.delivery = "PENDING"]
  <2>1. q \in Requests /\ q.decision = "APPROVED"
    BY <1>1 DEF Requests, Decisions
  <2>2. req' = [req EXCEPT ![r] = q]
    BY <1>1, <1>2 DEF ClickApprove, Typed
  <2> HIDE DEF q
  <2> QED
    BY <1>2, <2>1, <2>2, Decides DEF ClickApprove, Decidable
<1>3. CASE ClickReject(r, t)
  <2> DEFINE q == [req[r] EXCEPT !.decision = "REJECTED", !.delivery = "NOT_REQUESTED"]
  <2>1. q \in Requests /\ q.decision = "REJECTED"
    BY <1>1 DEF Requests, Decisions
  <2>2. req' = [req EXCEPT ![r] = q]
    BY <1>1, <1>3 DEF ClickReject, Typed
  <2> HIDE DEF q
  <2> QED
    BY <1>3, <2>1, <2>2, Decides DEF ClickReject, Decidable
<1>4. CASE ClickExpired(r, t) \/ ExpireApproval(r)
  <2> DEFINE q == [req[r] EXCEPT !.decision = "EXPIRED"]
  <2>1. q \in Requests /\ q.decision = "EXPIRED"
    BY <1>1 DEF Requests, Decisions
  <2>2. req' = [req EXCEPT ![r] = q]
    BY <1>1, <1>4 DEF ClickExpired, ExpireApproval, expire_request, Typed
  <2> HIDE DEF q
  <2> QED
    BY <1>4, <2>1, <2>2, Decides DEF ClickExpired, ExpireApproval, expire_request
<1> QED
  BY <1>2, <1>3, <1>4

LEMMA FinishTriageOpens ==
    ASSUME RoundInv, FinishTriage
    PROVE  Refines
<1>1. Typed /\ attempt \in Rounds /\ Rounds \subseteq Nat /\ UNCHANGED <<attempt, job>>
      /\ state = "TRIAGING" /\ req[attempt].decision = "NONE"
  BY ConstantsAssumption DEF RoundInv, Typed, RoundsInOrder, FinishTriage, Rounds
<1>2. \A r \in Rounds :
        req'[r] = IF r = attempt THEN [NoRequest EXCEPT !.decision = "PENDING"]
                  ELSE IF req[r].decision = "PENDING"
                  THEN [req[r] EXCEPT !.decision = "SUPERSEDED", !.token = 0]
                  ELSE req[r]
  BY DEF FinishTriage, create_approval_request
<1>3. /\ [NoRequest EXCEPT !.decision = "PENDING"] \in Requests
      /\ [NoRequest EXCEPT !.decision = "PENDING"].decision = "PENDING"
  BY DEF NoRequest, Requests, Decisions
<1>4. ASSUME NEW r \in Rounds
      PROVE  /\ [req[r] EXCEPT !.decision = "SUPERSEDED", !.token = 0] \in Requests
             /\ [req[r] EXCEPT !.decision = "SUPERSEDED", !.token = 0].decision = "SUPERSEDED"
  <2>1. req[r] \in Requests
    BY <1>1 DEF Typed
  <2>2. [req[r] EXCEPT !.decision = "SUPERSEDED", !.token = 0].decision = "SUPERSEDED"
    BY <2>1 DEF Requests
  <2> QED
    BY <2>1, <2>2, RequestUpdates
<1>5. \A r \in Rounds :
        /\ req'[r] \in Requests
        /\ req'[r].decision = IF r = attempt THEN "PENDING"
                              ELSE IF req[r].decision = "PENDING" THEN "SUPERSEDED"
                              ELSE req[r].decision
  BY <1>1, <1>2, <1>3, <1>4 DEF Typed
<1>6. Typed'
  <2>1. req' = create_approval_request /\ state' = "AWAITING_REMEDIATION_APPROVAL"
    BY DEF FinishTriage
  <2>2. req' \in [Rounds -> Requests]
    BY <1>5, <2>1 DEF create_approval_request
  <2> QED
    BY <1>1, <2>1, <2>2 DEF Typed, CaseState, GENERIC_STATES
<1>7. RoundsInOrder'
  BY <1>1, <1>5 DEF FinishTriage, RoundInv, RoundsInOrder, Typed
<1>8. LabelsAreApproved'
  BY <1>1, <1>5, JobRow DEF RoundInv, LabelsAreApproved
<1>9. Newest < attempt
  <2>1. Newest \in Nat /\ attempt \in Nat
    <3>1. Newest \in Rounds \cup {0}
      BY <1>1, NewestIs
    <3> QED
      BY <1>1, <3>1
  <2>2. Newest <= attempt /\ Newest # attempt
    BY <1>1, <2>1, NewestIs, ConstantsAssumption DEF RoundInv, RoundsInOrder, Rounds
  <2> QED
    BY <2>1, <2>2
<1>10. Newest' = attempt
  <2> DEFINE T == {0} \cup {r \in Rounds : req'[r].decision # "NONE"}
  <2>1. attempt \in T /\ \A y \in T : attempt >= y
    BY <1>1, <1>5 DEF RoundInv, RoundsInOrder
  <2>2. T \subseteq Nat
    BY <1>1
  <2>3. Newest' = CHOOSE x \in T : \A y \in T : x >= y
    BY DEF Newest, Max
  <2> HIDE DEF T
  <2>4. \A x \in T : (\A y \in T : x >= y) => x = attempt
    BY <2>1, <2>2
  <2> QED
    BY <2>1, <2>3, <2>4
<1>11. /\ Verdicts' = [p \in Rounds |-> IF p = attempt THEN "PENDING"
                                         ELSE IF Verdicts[p] = "PENDING" THEN "SUPERSEDED"
                                         ELSE Verdicts[p]]
       /\ GrantedRounds = {} /\ GrantedRounds' = {}
  BY <1>5 DEF Verdicts, GrantedRounds, Granted, FinishTriage
<1>12. PICK a \in Rounds : a = attempt
  BY <1>1
<1>13. Abstract!Open(a)
  BY <1>1, <1>9, <1>10, <1>11, <1>12 DEF Abstract!Open, Verdicts, GrantedRounds
<1>14. RoundInv'
  BY <1>6, <1>7, <1>8 DEF RoundInv
<1> QED
  BY <1>13, <1>14 DEF Refines, Abstract!Next

\* The steps that leave the rounds and the outbox alone.
LEMMA CaseStutters ==
    ASSUME RoundInv, UNCHANGED <<req, job>>,
           \/ UNCHANGED <<state, attempt>>
           \/ LeaveWait \/ RetryTriage \/ StartTriage \/ StartRemediation
    PROVE  Refines
<1>1. Newest' = Newest /\ Verdicts' = Verdicts
  BY SameVerdicts DEF SameDecisions
<1>2. GrantedRounds' = GrantedRounds
  BY <1>1 DEF GrantedRounds, Granted, LeaveWait, RetryTriage, StartTriage, StartRemediation
<1>3. attempt' \in Rounds /\ state' \in CaseState
  BY ConstantsAssumption
  DEF RoundInv, Typed, RoundsInOrder, LeaveWait, RetryTriage, StartTriage, StartRemediation,
      Rounds, CaseState, GENERIC_STATES, REMEDIATION_PHASE_STATES
<1>4. RoundsInOrder'
  BY ConstantsAssumption
  DEF RoundInv, Typed, RoundsInOrder, LeaveWait, RetryTriage, StartTriage, StartRemediation,
      Rounds
<1> QED
  BY <1>1, <1>2, <1>3, <1>4
  DEF Refines, RoundInv, Typed, LabelsAreApproved, PromiseVars

LEMMA LoopRefines ==
    ASSUME RoundInv, NEW l \in Loops, Crash(l) \/ CallFails(l) \/ Dispatch(l)
    PROVE  Refines
<1>1. CASE Crash(l)
  BY <1>1, CrashStep, Stutters DEF Crash
<1>2. CASE CallFails(l)
  BY <1>2, CallFailsStep, Stutters DEF CallFails
<1>3. CASE NotOurs(l)
  BY <1>3, NotOursStep, Stutters DEF NotOurs
<1>4. CASE BeginNotify(l)
  BY <1>4, BeginNotifyStep, Stutters DEF BeginNotify
<1>5. CASE Post(l)
  BY <1>5, PostStep, Stutters DEF Post
<1>6. CASE MarkNotified(l)
  BY <1>6, MarkNotifiedStep, Stutters DEF MarkNotified
<1>7. CASE BeginLabel(l)
  BY <1>7, BeginLabelStep, Stutters DEF BeginLabel
<1>8. CASE AddLabel(l)
  BY <1>8, AddLabelStep, Stutters DEF AddLabel
<1>9. CASE CommitLabel(l)
  BY <1>9, CommitLabelStep, Stutters DEF CommitLabel
<1>10. CASE Replay(l)
  BY <1>10, ReplayStep, Stutters, Grants
<1>11. CASE EnsureComment(l)
  BY <1>11, EnsureCommentStep, Stutters DEF EnsureComment
<1>12. CASE CreateComment(l)
  BY <1>12, CreateCommentStep, Stutters DEF CreateComment
<1>13. CASE RecordComment(l)
  BY <1>13, RecordCommentStep, Stutters DEF RecordComment
<1>14. CASE BeginRejection(l)
  BY <1>14, BeginRejectionStep, Stutters DEF BeginRejection
<1>15. CASE Fail(l)
  BY <1>15, FailStep, Stutters
<1> QED
  BY <1>1, <1>2, <1>3, <1>4, <1>5, <1>6, <1>7, <1>8, <1>9, <1>10, <1>11, <1>12, <1>13,
     <1>14, <1>15 DEF Dispatch

LEMMA PeopleRefine ==
    ASSUME RoundInv, People
    PROVE  Refines
<1>1. 1 \in Tokens
  BY ConstantsAssumption DEF Tokens
<1>2. ASSUME NEW r \in Rounds, NEW t \in Tokens,
             ClickApprove(r, t) \/ ClickReject(r, t) \/ ClickExpired(r, t)
      PROVE  Refines
  BY <1>2, ClicksDecide
<1>3. ASSUME NEW r \in Rounds, TokenExpires(r)
      PROVE  Refines
  BY <1>3, CaseStutters DEF TokenExpires
<1>4. ASSUME NEW r \in Rounds, ExpireApproval(r)
      PROVE  Refines
  BY <1>1, <1>4, ClicksDecide
<1>5. ASSUME NEW w \in Rows, RetryOutbox(w)
      PROVE  Refines
  BY <1>5, RetryOutboxStep, Stutters DEF RetryOutbox
<1>6. CASE HumanLabels
  BY <1>6, CaseStutters DEF HumanLabels
<1>7. CASE LeaveWait \/ RetryTriage
  <2>1. UNCHANGED <<req, job>>
    BY <1>7 DEF LeaveWait, RetryTriage
  <2> QED
    BY <1>7, <2>1, CaseStutters
<1> QED
  BY <1>2, <1>3, <1>4, <1>5, <1>6, <1>7 DEF People

LEMMA EventRefines ==
    ASSUME RoundInv, NEW e \in Events,
           WebhookArrives(e) \/ ProcessEvent(e) \/ LoadEvent(e) \/ ConfirmEvent(e)
    PROVE  Refines
<1>1. CASE WebhookArrives(e)
  BY <1>1, CaseStutters DEF WebhookArrives
<1>2. CASE LoadEvent(e)
  BY <1>2, CaseStutters DEF LoadEvent
<1>3. ASSUME NEW s, Confirm(e, s)
      PROVE  Refines
  BY <1>3, ConfirmStep, Stutters, Grants
<1> QED
  BY <1>1, <1>2, <1>3 DEF ProcessEvent, ConfirmEvent

LEMMA NextRefines ==
    ASSUME RoundInv, [Next]_vars
    PROVE  Refines
<1>1. CASE FinishTriage
  BY <1>1, FinishTriageOpens
<1>2. CASE StartTriage \/ StartRemediation
  <2>1. UNCHANGED <<req, job>>
    BY <1>2 DEF StartTriage, StartRemediation
  <2> QED
    BY <1>2, <2>1, CaseStutters
<1>3. CASE People
  BY <1>3, PeopleRefine
<1>4. ASSUME NEW e \in Events,
             WebhookArrives(e) \/ ProcessEvent(e) \/ LoadEvent(e) \/ ConfirmEvent(e)
      PROVE  Refines
  BY <1>4, EventRefines
<1>5. ASSUME NEW l \in Loops, Crash(l) \/ CallFails(l) \/ Dispatch(l)
      PROVE  Refines
  BY <1>5, LoopRefines
<1>6. ASSUME NEW l \in Loops, NEW w \in Rows, Claim(l, w)
      PROVE  Refines
  BY <1>6, ClaimStep, Stutters DEF Claim
<1>7. ASSUME NEW w \in Rows, LeaseLapses(w)
      PROVE  Refines
  BY <1>7, CaseStutters DEF LeaseLapses
<1>8. ASSUME NEW r \in Rounds, DeliverUpdate(r)
      PROVE  Refines
  BY <1>8, CaseStutters DEF DeliverUpdate
<1>9. CASE UNCHANGED vars
  BY <1>9, CaseStutters DEF vars
<1> QED
  BY <1>1, <1>2, <1>3, <1>4, <1>5, <1>6, <1>7, <1>8, <1>9 DEF Next

LEMMA InitRefines == Init => Abstract!Init
<1> SUFFICES ASSUME Init PROVE Abstract!Init
  OBVIOUS
<1>1. Typed /\ \A r \in Rounds : req[r].decision = "NONE"
  BY InitRounds, NoRequestType DEF Init, RoundInv
<1>2. Newest = 0
  BY <1>1, NewestIs
<1>3. [r \in Rounds |-> req[r].decision] = [r \in Rounds |-> "NONE"]
  BY <1>1
<1>4. ~Granted
  BY DEF Init, Granted
<1> QED
  BY <1>2, <1>3, <1>4 DEF Abstract!Init

\* Approval implements Decision: with any number of loops, processes, rounds and
\* webhooks, and whatever crashes, lapsed leases, lost answers and operators do, every
\* round is decided once and only while it is the newest, a new round supersedes the
\* open one, and the case is granted remediation only while its newest round stands
\* approved (create_approval_request(), process_slack_action(),
\* confirm_label_webhook(), replay_label_webhooks_after_delivery()).
THEOREM ImplementsDecision == Spec => KeepsItsPromise
<1>1. Init => RoundInv /\ Abstract!Init
  BY InitRounds, InitRefines
<1>2. RoundInv /\ [Next]_vars => RoundInv' /\ [Abstract!Next]_PromiseVars
  BY NextRefines DEF Refines
<1>3. RoundInv /\ [Next]_vars =>
        RoundInv' /\ [Abstract!Next]_<<Newest, [r \in Rounds |-> req[r].decision],
                                       IF Granted THEN {Newest} ELSE {}>>
  BY <1>2 DEF PromiseVars, Verdicts, GrantedRounds
<1> QED
  BY <1>1, <1>3, PTL DEF Spec, KeepsItsPromise, Abstract!Spec
=============================================================================
