------------------------ MODULE ApprovalDeliveryProofs ------------------------
(***************************************************************************)
(* Theorems about Approval and what reaches Slack and GitHub: the rows, the *)
(* counts and the messages are of their types; and, as long as no outbox    *)
(* lease lapses under a loop that still works, a grant rests on a label     *)
(* that was put on and confirmed, every round gets one message and one      *)
(* comment, and the buttons of an open round work.                          *)
(***************************************************************************)
EXTENDS ApprovalProofs

Slack(r) == <<r, "slack_approval_request">>
Label(r) == <<r, "apply_remediation_label">>
Rejection(r) == <<r, "rejection_comment">>

Owners == {worker_id[l] : l \in Loops}

OutboxRows ==
    [status : {"none", "PENDING", "SENT", "FAILED"}, attempts : Nat,
     claimed_by : Owners \cup {"none"}, lapsed : BOOLEAN]

Budgets ==
    [crashes : 0..MaxCrashes, faults : 0..MaxFaults, lapses : 0..MaxLapses,
     operator : 0..MaxOperator, human : 0..MaxHuman]

EventStatus == {"none", "sent", "received", "loaded", "processed", "old", "lost"}

\* The variables that Typed leaves out.
Delivered ==
    /\ due \subseteq Rounds
    /\ update \subseteq Rounds
    /\ row \in [Rows -> OutboxRows]
    /\ posted \in [Rounds -> [Tokens -> Shown \cup {"absent"}]]
    /\ labelled \in BOOLEAN
    /\ comments \in [Rounds -> Nat]
    /\ event \in [Events -> EventStatus]
    /\ seen \in [Events -> CaseState]
    /\ budget \in Budgets

\* A round has the outbox rows that its decision calls for, and updates only for a
\* message that is known.
RowsFollowDecisions ==
    \A r \in Rounds :
        /\ row[Slack(r)].status # "none" => req[r].decision # "NONE"
        /\ row[Label(r)].status # "none" => req[r].decision = "APPROVED"
        /\ row[Rejection(r)].status # "none" => req[r].decision = "REJECTED"
        /\ r \in update => req[r].decision # "NONE" /\ req[r].ts # 0

\* A handler's steps are about rows of its own kind.
InKind(j) ==
    /\ j.pc \in {"post", "posted"} => j.at[2] = "slack_approval_request" /\ j.snap.token # 0
    /\ j.pc \in {"add", "added", "replay"} => j.at[2] = "apply_remediation_label"
    /\ j.pc \in {"note", "comment", "commented"} => j.at[2] # "slack_approval_request"

\* A loop works on a row that exists.
JobsHaveRows ==
    \A l \in Loops :
        (job[l].pc # "idle" => row[job[l].at].status # "none") /\ InKind(job[l])

At(l, w) == job[l].pc # "idle" /\ job[l].at = w

\* How often a claim can have been lost without the row being failed or sent.
Losses == (MaxCrashes - budget.crashes) + (MaxLapses - budget.lapses)

\* A row is tried outbox_max_attempts times, and once more for every claim that was lost.
Tries(w) ==
    /\ row[w].attempts <= outbox_max_attempts + Losses
    /\ row[w].status = "PENDING" =>
         IF row[w].claimed_by = "none" THEN row[w].attempts < outbox_max_attempts
         ELSE row[w].lapsed \/ (\A l \in Loops : At(l, w) => worker_id[l] # row[w].claimed_by)
              => row[w].attempts < outbox_max_attempts + Losses

\* The inductive invariant of TypeOK.
OutboxInv ==
    /\ RoundInv /\ Delivered /\ RowsFollowDecisions /\ JobsHaveRows
    /\ \A w \in Rows : Tries(w)
-----------------------------------------------------------------------------
(***************************************************************************)
(* What a step of loop l does: it goes on with its row, or it is done with  *)
(* it.  It writes one round's row, and of that some columns.                *)
(***************************************************************************)
Others(l) == job' \in [Loops -> Jobs] /\ \A m \in Loops : m # l => job'[m] = job[m]

Goes(l, p) ==
    /\ Others(l) /\ UNCHANGED row
    /\ job[l].pc # "idle" /\ job'[l].pc = p /\ job'[l].at = job[l].at

Ended(w, s) ==
    row' = [row EXCEPT ![w] = [@ EXCEPT !.status = s, !.claimed_by = "none", !.lapsed = FALSE]]

Done(l) ==
    /\ Others(l) /\ job[l].pc # "idle" /\ job'[l].pc = "idle"
    /\ \E s \in {"PENDING", "SENT", "FAILED"} :
         /\ Ended(job[l].at, s)
         /\ s = "PENDING" => row[job[l].at].attempts < outbox_max_attempts

OneRound(r) == \A q \in Rounds : q # r => req'[q] = req[q]

SameSlack(r) == req'[r].token = req[r].token /\ req'[r].ts = req[r].ts

SameGitHub(r) ==
    /\ req'[r].applied <=> req[r].applied
    /\ req'[r].delivery = req[r].delivery
    /\ req'[r].intent <=> req[r].intent

LEMMA RowOfJob ==
    ASSUME RoundInv, Delivered, NEW l \in Loops
    PROVE  /\ job[l] \in Jobs /\ job[l].at \in Rows /\ job[l].at[1] \in Rounds
           /\ job[l].at[2] \in Kinds
           /\ row[job[l].at] \in OutboxRows /\ req[job[l].at[1]] \in Requests
           /\ job[l].snap \in Requests
BY DEF RoundInv, Typed, Jobs, Delivered, Rows

\* The fields of a job that goes on.
LEMMA Going ==
    ASSUME RoundInv, NEW l \in Loops, NEW j \in Jobs, j.pc # "idle", j.at = job[l].at,
           job' = [job EXCEPT ![l] = j], UNCHANGED row, job[l].pc # "idle"
    PROVE  Goes(l, j.pc) /\ job'[l] = j
BY DEF RoundInv, Typed, Goes, Others

LEMMA SentIsDone ==
    ASSUME RoundInv, NEW l \in Loops, Sent(l), job[l].pc # "idle"
    PROVE  Done(l)
BY IdleType DEF Sent, Done, Others, Ended, RoundInv, Typed

LEMMA FailingGoes ==
    ASSUME RoundInv, NEW l \in Loops, NEW p \in BOOLEAN, Failing(l, p), UNCHANGED row,
           job[l].pc # "idle"
    PROVE  Goes(l, "fail")
<1> DEFINE j == [Idle EXCEPT !.pc = "fail", !.at = job[l].at, !.permanent = p]
<1>1. j \in Jobs /\ j.pc = "fail" /\ j.at = job[l].at /\ job' = [job EXCEPT ![l] = j]
  BY IdleType, JobRow DEF RoundInv, Jobs, PCs, Failing, Idle
<1> HIDE DEF j
<1> QED
  BY <1>1, Going

LEMMA CallFailsDoes ==
    ASSUME RoundInv, NEW l \in Loops, CallFails(l)
    PROVE  /\ Goes(l, "fail")
           /\ UNCHANGED <<state, attempt, req, due, update, slack, github, webhooks>>
<1>1. PICK p \in BOOLEAN : Failing(l, p)
  BY DEF CallFails, Failures
<1>2. job[l].pc # "idle" /\ UNCHANGED row
  BY DEF CallFails, Ours
<1> QED
  BY <1>1, <1>2, FailingGoes DEF CallFails

LEMMA BeginNotifyDoes ==
    ASSUME RoundInv, Delivered, NEW l \in Loops, BeginNotify(l),
           NEW r \in Rounds, r = job[l].at[1]
    PROVE  /\ OneRound(r) /\ SameGitHub(r)
           /\ job[l].at[2] = "slack_approval_request"
           /\ \/ Done(l) /\ UNCHANGED req
              \/ Done(l) /\ req'[r].token = req[r].token /\ req'[r].ts \in Messages(r)
              \/ /\ Goes(l, "post") /\ job'[l].snap = req'[r]
                 /\ req'[r].token \in Tokens /\ req'[r].ts = req[r].ts
                 /\ req[r].decision = "PENDING"
                 /\ req[r].token = 0 \/ Messages(r) = {}
<1>1. /\ req \in [Rounds -> Requests] /\ req[r] \in Requests /\ job[l] \in Jobs
      /\ job \in [Loops -> Jobs] /\ job[l].pc = "claimed"
      /\ job[l].at[2] = "slack_approval_request"
  BY RowOfJob DEF RoundInv, Typed, BeginNotify, Ours
<1>2. CASE Sent(l) /\ UNCHANGED req
  BY <1>1, <1>2, SentIsDone DEF OneRound, SameGitHub
<1>3. CASE Sent(l) /\ \E m \in Messages(r) :
             req' = [req EXCEPT ![r].notification = "SENT", ![r].ts = m]
  <2>1. PICK m \in Messages(r) : req' = [req EXCEPT ![r].notification = "SENT", ![r].ts = m]
    BY <1>3
  <2>2. req'[r] = [req[r] EXCEPT !.notification = "SENT", !.ts = m] /\ OneRound(r)
    BY <1>1, <2>1 DEF OneRound
  <2>3. SameGitHub(r) /\ req'[r].token = req[r].token /\ req'[r].ts = m
    BY <1>1, <2>2 DEF SameGitHub, Requests
  <2> QED
    BY <1>1, <1>3, <2>2, <2>3, SentIsDone
<1> DEFINE t == req[r].token + 1
           q == [req[r] EXCEPT !.notification = "SENDING", !.token = t]
           j == [job[l] EXCEPT !.pc = "post", !.snap = q]
<1>4. CASE /\ ~Obsolete(r) /\ ~Reconciles(r) /\ t \in Tokens /\ UNCHANGED row
           /\ req' = [req EXCEPT ![r].notification = "SENDING", ![r].token = t]
           /\ job' = [job EXCEPT ![l].pc = "post", ![l].snap = req'[r]]
  <2>1. req'[r] = q /\ OneRound(r)
    BY <1>1, <1>4 DEF OneRound
  <2>2. q \in Requests /\ q.token = t /\ q.ts = req[r].ts /\ SameGitHub(r)
    BY <1>1, <1>4, <2>1 DEF Requests, SameGitHub
  <2>3. job' = [job EXCEPT ![l] = j]
    BY <1>1, <1>4, <2>1
  <2> HIDE DEF q
  <2>4. j \in Jobs /\ j.pc = "post" /\ j.at = job[l].at /\ j.snap = q
    BY <1>1, <2>2 DEF Jobs, PCs
  <2>5. UNCHANGED row /\ job[l].pc # "idle"
    BY <1>1, <1>4
  <2> HIDE DEF j
  <2>6. Goes(l, "post") /\ job'[l].snap = q
    BY <2>3, <2>4, <2>5, Going
  <2> QED
    BY <1>1, <1>4, <2>1, <2>2, <2>6 DEF Obsolete, Reconciles
<1> QED
  BY <1>2, <1>3, <1>4 DEF BeginNotify

LEMMA PostDoes ==
    ASSUME RoundInv, NEW l \in Loops, Post(l)
    PROVE  Goes(l, "posted") /\ job'[l].snap = job[l].snap
<1> DEFINE j == [job[l] EXCEPT !.pc = "posted"]
<1>1. j \in Jobs /\ j.pc = "posted" /\ j.at = job[l].at /\ j.snap = job[l].snap
  BY JobRow DEF RoundInv, Jobs, PCs
<1>2. job' = [job EXCEPT ![l] = j] /\ UNCHANGED row /\ job[l].pc # "idle"
  BY DEF Post
<1> HIDE DEF j
<1> QED
  BY <1>1, <1>2, Going

LEMMA MarkNotifiedDoes ==
    ASSUME RoundInv, Delivered, NEW l \in Loops, MarkNotified(l),
           NEW r \in Rounds, r = job[l].at[1]
    PROVE  /\ Done(l) /\ OneRound(r) /\ SameGitHub(r)
           /\ req'[r].token = req[r].token /\ req'[r].ts = job[l].snap.token
<1>1. req \in [Rounds -> Requests] /\ req[r] \in Requests /\ Sent(l) /\ job[l].pc = "posted"
  BY RowOfJob DEF RoundInv, Typed, MarkNotified
<1>2. /\ req'[r] = [req[r] EXCEPT !.notification = "SENT", !.ts = job[l].snap.token]
      /\ OneRound(r)
  BY <1>1 DEF MarkNotified, OneRound
<1>3. /\ SameGitHub(r) /\ req'[r].token = req[r].token
      /\ req'[r].ts = job[l].snap.token
  BY <1>1, <1>2 DEF SameGitHub, Requests
<1> QED
  BY <1>1, <1>2, <1>3, SentIsDone

LEMMA AppliedRow ==
    ASSUME NEW q \in Requests
    PROVE  /\ Applied(q) \in Requests /\ Applied(q).applied
           /\ Applied(q).delivery = "LABEL_APPLIED" /\ (Applied(q).intent <=> q.intent)
           /\ Applied(q).token = q.token /\ Applied(q).ts = q.ts
BY DEF Applied, Requests

LEMMA BeginLabelDoes ==
    ASSUME RoundInv, Delivered, NEW l \in Loops, BeginLabel(l),
           NEW r \in Rounds, r = job[l].at[1]
    PROVE  /\ OneRound(r) /\ SameSlack(r) /\ (req'[r].intent <=> req[r].intent)
           /\ job[l].at[2] = "apply_remediation_label"
           /\ \/ Goes(l, "fail") /\ UNCHANGED req
              \/ Goes(l, "note") /\ UNCHANGED req /\ job'[l].snap = req[r]
              \/ /\ Goes(l, "replay") /\ job'[l].snap = req'[r] /\ ~req[r].applied
                 /\ req'[r].applied /\ req'[r].delivery = "LABEL_APPLIED"
              \/ /\ Goes(l, "add") /\ job'[l].snap = req'[r] /\ ~req[r].applied
                 /\ SameGitHub(r)
<1>1. /\ req \in [Rounds -> Requests] /\ req[r] \in Requests /\ job[l] \in Jobs
      /\ job \in [Loops -> Jobs] /\ job[l].pc = "claimed" /\ state \in CaseState
      /\ job[l].at[2] = "apply_remediation_label" /\ UNCHANGED row
  BY RowOfJob DEF RoundInv, Typed, BeginLabel, Ours
<1>2. ASSUME NEW p \in {"note", "replay", "add"}, NEW q \in Requests,
             job' = [job EXCEPT ![l].pc = p, ![l].snap = q, ![l].case = state]
      PROVE  Goes(l, p) /\ job'[l].snap = q
  <2> DEFINE j == [job[l] EXCEPT !.pc = p, !.snap = q, !.case = state]
  <2>1. j \in Jobs /\ j.pc = p /\ j.at = job[l].at /\ j.snap = q
    BY <1>1 DEF Jobs, PCs
  <2>2. job' = [job EXCEPT ![l] = j] /\ job[l].pc # "idle" /\ p # "idle"
    BY <1>1, <1>2
  <2> HIDE DEF j
  <2> QED
    BY <1>1, <2>1, <2>2, Going
<1>3. CASE Failing(l, TRUE) /\ UNCHANGED req
  BY <1>1, <1>3, FailingGoes DEF OneRound, SameSlack
<1>4. CASE /\ job' = [job EXCEPT ![l].pc = "note", ![l].snap = req[r], ![l].case = state]
           /\ UNCHANGED req
  BY <1>1, <1>2, <1>4 DEF OneRound, SameSlack
<1>5. CASE /\ ~req[r].applied /\ req' = [req EXCEPT ![r] = Applied(@)]
           /\ job' = [job EXCEPT ![l].pc = "replay", ![l].snap = req'[r], ![l].case = state]
  <2>1. req'[r] = Applied(req[r]) /\ OneRound(r)
    BY <1>1, <1>5 DEF OneRound
  <2>2. req'[r] \in Requests
    BY <1>1, <2>1, AppliedRow
  <2>3. Goes(l, "replay") /\ job'[l].snap = req'[r]
    BY <1>2, <1>5, <2>2
  <2> QED
    BY <1>1, <1>5, <2>1, <2>3, AppliedRow DEF SameSlack
<1>6. CASE /\ ~req[r].applied /\ req' = [req EXCEPT ![r].requested = TRUE]
           /\ job' = [job EXCEPT ![l].pc = "add", ![l].snap = req'[r], ![l].case = state]
  <2>1. req'[r] = [req[r] EXCEPT !.requested = TRUE] /\ OneRound(r)
    BY <1>1, <1>6 DEF OneRound
  <2>2. req'[r] \in Requests /\ SameSlack(r) /\ SameGitHub(r)
    BY <1>1, <2>1 DEF Requests, SameSlack, SameGitHub
  <2>3. Goes(l, "add") /\ job'[l].snap = req'[r]
    BY <1>2, <1>6, <2>2
  <2> QED
    BY <1>1, <1>6, <2>1, <2>2, <2>3 DEF SameGitHub
<1> QED
  BY <1>3, <1>4, <1>5, <1>6 DEF BeginLabel

LEMMA AddLabelDoes ==
    ASSUME RoundInv, NEW l \in Loops, AddLabel(l)
    PROVE  Goes(l, "added") /\ job'[l].snap = job[l].snap
<1> DEFINE j == [job[l] EXCEPT !.pc = "added"]
<1>1. j \in Jobs /\ j.pc = "added" /\ j.at = job[l].at /\ j.snap = job[l].snap
  BY JobRow DEF RoundInv, Jobs, PCs
<1>2. job' = [job EXCEPT ![l] = j] /\ UNCHANGED row /\ job[l].pc # "idle"
  BY DEF AddLabel
<1> HIDE DEF j
<1> QED
  BY <1>1, <1>2, Going

LEMMA CommitLabelDoes ==
    ASSUME RoundInv, Delivered, NEW l \in Loops, CommitLabel(l),
           NEW r \in Rounds, r = job[l].at[1]
    PROVE  /\ Goes(l, "replay") /\ OneRound(r) /\ SameSlack(r)
           /\ req'[r].applied /\ req'[r].delivery = "LABEL_APPLIED"
           /\ req'[r].intent <=> req[r].intent
           /\ job'[l].snap.intent <=> job[l].snap.intent
           /\ job'[l].snap.delivery = "LABEL_APPLIED"
<1> DEFINE j == [job[l] EXCEPT !.pc = "replay", !.snap = Applied(job[l].snap)]
<1>1. /\ req \in [Rounds -> Requests] /\ req[r] \in Requests /\ job[l] \in Jobs
      /\ job \in [Loops -> Jobs] /\ job[l].pc # "idle" /\ job[l].snap \in Requests
      /\ UNCHANGED row
  BY RowOfJob DEF RoundInv, Typed, CommitLabel
<1>2. req'[r] = Applied(req[r]) /\ OneRound(r)
  BY <1>1 DEF CommitLabel, OneRound
<1>3. job' = [job EXCEPT ![l] = j]
  BY <1>1 DEF CommitLabel
<1>4. j \in Jobs /\ j.pc = "replay" /\ j.at = job[l].at /\ j.snap = Applied(job[l].snap)
  BY <1>1, AppliedRow DEF Jobs, PCs
<1> HIDE DEF j
<1>5. Goes(l, "replay") /\ job'[l].snap = Applied(job[l].snap)
  BY <1>1, <1>3, <1>4, Going
<1> QED
  BY <1>1, <1>2, <1>5, AppliedRow DEF SameSlack

LEMMA ReplayDoes ==
    ASSUME RoundInv, Delivered, NEW l \in Loops, Replay(l),
           NEW r \in Rounds, r = job[l].at[1]
    PROVE  /\ Goes(l, "note") /\ job'[l].snap = job[l].snap
           /\ OneRound(r) /\ SameSlack(r) /\ (req'[r].intent <=> req[r].intent)
           /\ req'[r].applied <=> req[r].applied
           /\ \/ UNCHANGED <<req, state, update>>
              \/ /\ req'[r].delivery = "CONFIRMED" /\ is_current_request(r)
                 /\ state' = "REMEDIATION_APPROVED" /\ update' = StatusUpdate(r)
<1>1. /\ req \in [Rounds -> Requests] /\ req[r] \in Requests /\ job[l] \in Jobs
      /\ job \in [Loops -> Jobs] /\ job[l].pc # "idle" /\ UNCHANGED row
  BY RowOfJob DEF RoundInv, Typed, Replay
<1>2. ASSUME NEW j \in Jobs, j.pc = "note", j.at = job[l].at, j.snap = job[l].snap,
             job' = [job EXCEPT ![l] = j]
      PROVE  Goes(l, "note") /\ job'[l].snap = job[l].snap
  BY <1>1, <1>2, Going
<1>3. \/ job' = [job EXCEPT ![l].pc = "note"]
      \/ job' = [job EXCEPT ![l].pc = "note", ![l].dirty = TRUE]
  BY DEF Replay
<1>4. Goes(l, "note") /\ job'[l].snap = job[l].snap
  <2>1. CASE job' = [job EXCEPT ![l].pc = "note"]
    <3> DEFINE j == [job[l] EXCEPT !.pc = "note"]
    <3>1. j \in Jobs /\ j.pc = "note" /\ j.at = job[l].at /\ j.snap = job[l].snap
      BY <1>1 DEF Jobs, PCs
    <3>2. job' = [job EXCEPT ![l] = j]
      BY <2>1
    <3> HIDE DEF j
    <3> QED
      BY <1>2, <3>1, <3>2
  <2>2. CASE job' = [job EXCEPT ![l].pc = "note", ![l].dirty = TRUE]
    <3> DEFINE j == [job[l] EXCEPT !.pc = "note", !.dirty = TRUE]
    <3>1. j \in Jobs /\ j.pc = "note" /\ j.at = job[l].at /\ j.snap = job[l].snap
      BY <1>1 DEF Jobs, PCs
    <3>2. job' = [job EXCEPT ![l] = j]
      BY <1>1, <2>2
    <3> HIDE DEF j
    <3> QED
      BY <1>2, <3>1, <3>2
  <2> QED
    BY <1>3, <2>1, <2>2
<1>5. CASE UNCHANGED <<req, state, update>>
  BY <1>4, <1>5 DEF OneRound, SameSlack
<1>6. CASE /\ req' = [req EXCEPT ![r].delivery = "CONFIRMED"]
           /\ confirms(r, job[l].snap, job[l].case)
           /\ state' = "REMEDIATION_APPROVED" /\ update' = StatusUpdate(r)
  <2>1. req'[r] = [req[r] EXCEPT !.delivery = "CONFIRMED"] /\ OneRound(r)
    BY <1>1, <1>6 DEF OneRound
  <2>2. /\ req'[r].delivery = "CONFIRMED" /\ SameSlack(r)
        /\ req'[r].intent <=> req[r].intent
        /\ req'[r].applied <=> req[r].applied
    BY <1>1, <2>1 DEF Requests, SameSlack
  <2> QED
    BY <1>4, <1>6, <2>1, <2>2 DEF confirms
<1> QED
  BY <1>5, <1>6 DEF Replay

\* What a handler's last commits leave alone.
LEMMA FlushedFields ==
    ASSUME NEW l, NEW q \in Requests
    PROVE  /\ Flushed(l, q) \in Requests
           /\ Flushed(l, q).token = q.token /\ Flushed(l, q).ts = q.ts
           /\ Flushed(l, q).applied <=> q.applied
           /\ Flushed(l, q).intent <=> q.intent
           /\ Flushed(l, q).delivery \in {q.delivery, "CONFIRMED"}
BY DEF Flushed, Requests

LEMMA RecordedRow ==
    ASSUME NEW l, NEW q \in Requests
    PROVE  LET p == Recorded(l, q)
           IN  /\ p.token = q.token /\ p.ts = q.ts
               /\ p.applied <=> q.applied
               /\ p.intent <=> q.intent
               /\ p.delivery \in {q.delivery, "CONFIRMED", "LABEL_APPLIED"}
               /\ job[l].snap.delivery # "FAILED" => p.delivery \in {q.delivery, "CONFIRMED"}
<1> DEFINE f == Flushed(l, q)
<1>1. f \in Requests /\ f.token = q.token /\ f.ts = q.ts /\ (f.applied <=> q.applied)
      /\ (f.intent <=> q.intent) /\ f.delivery \in {q.delivery, "CONFIRMED"}
  BY FlushedFields
<1>2. Recorded(l, q) = IF job[l].snap.delivery = "FAILED"
                       THEN [[f EXCEPT !.comment = TRUE] EXCEPT !.delivery = "LABEL_APPLIED"]
                       ELSE [f EXCEPT !.comment = TRUE]
  BY DEF Recorded
<1> HIDE DEF f
<1>3. CASE job[l].snap.delivery = "FAILED"
  BY <1>1, <1>2, <1>3 DEF Requests
<1>4. CASE job[l].snap.delivery # "FAILED"
  BY <1>1, <1>2, <1>4 DEF Requests
<1> QED
  BY <1>3, <1>4

LEMMA CommentedDoes ==
    ASSUME RoundInv, Delivered, NEW l \in Loops, Commented(l), job[l].pc # "idle",
           NEW r \in Rounds, r = job[l].at[1]
    PROVE  /\ Done(l) /\ OneRound(r) /\ SameSlack(r)
           /\ req'[r].intent <=> req[r].intent
           /\ req'[r].applied <=> req[r].applied
           /\ req'[r].delivery \in {req[r].delivery, "CONFIRMED", "LABEL_APPLIED"}
           /\ job[l].snap.delivery # "FAILED" =>
                req'[r].delivery \in {req[r].delivery, "CONFIRMED"}
           /\ update' \in {update, StatusUpdate(r)}
<1>1. req \in [Rounds -> Requests] /\ req[r] \in Requests /\ Sent(l)
  BY RowOfJob DEF RoundInv, Typed, Commented
<1>2. req'[r] = Recorded(l, req[r]) /\ OneRound(r)
  BY <1>1 DEF Commented, OneRound
<1>3. Recorded(l, req[r]) \in Requests
  BY <1>1, FlushedRow DEF RoundInv
<1>4. Done(l)
  BY <1>1, SentIsDone
<1>5. update' \in {update, StatusUpdate(r)}
  BY DEF Commented
<1> DEFINE p == Recorded(l, req[r])
<1>6. /\ p.token = req[r].token /\ p.ts = req[r].ts
      /\ p.applied <=> req[r].applied
      /\ p.delivery \in {req[r].delivery, "CONFIRMED", "LABEL_APPLIED"}
      /\ p.intent <=> req[r].intent
      /\ job[l].snap.delivery # "FAILED" => p.delivery \in {req[r].delivery, "CONFIRMED"}
  BY <1>1, <1>3, RecordedRow
<1>7. req'[r] = p
  BY <1>2
<1> HIDE DEF p
<1> QED
  BY <1>2, <1>4, <1>5, <1>6, <1>7 DEF SameSlack

LEMMA EnsureCommentDoes ==
    ASSUME RoundInv, Delivered, NEW l \in Loops, EnsureComment(l),
           NEW r \in Rounds, r = job[l].at[1]
    PROVE  \/ Commented(l)
           \/ /\ Goes(l, "comment") /\ job'[l].snap = job[l].snap /\ UNCHANGED <<req, update>>
              /\ job[l].snap.intent /\ ~FoundComment(r)
           \/ /\ Goes(l, "comment") /\ job'[l].snap = job[l].snap /\ UNCHANGED update
              /\ OneRound(r) /\ SameSlack(r) /\ req'[r].intent /\ ~job[l].snap.intent
              /\ req'[r].applied <=> req[r].applied
              /\ req'[r].delivery \in {req[r].delivery, "CONFIRMED"}
<1>1. /\ req \in [Rounds -> Requests] /\ req[r] \in Requests /\ job[l] \in Jobs
      /\ job \in [Loops -> Jobs] /\ job[l].pc = "note"
  BY RowOfJob DEF RoundInv, Typed, EnsureComment
<1>2. CASE /\ job[l].snap.intent /\ ~FoundComment(r) /\ UNCHANGED <<req, row, update>>
           /\ job' = [job EXCEPT ![l].pc = "comment"]
  <2> DEFINE j == [job[l] EXCEPT !.pc = "comment"]
  <2>1. j \in Jobs /\ j.pc = "comment" /\ j.at = job[l].at /\ j.snap = job[l].snap
    BY <1>1 DEF Jobs, PCs
  <2>2. job' = [job EXCEPT ![l] = j] /\ UNCHANGED row /\ job[l].pc # "idle"
    BY <1>1, <1>2
  <2> HIDE DEF j
  <2>3. Goes(l, "comment") /\ job'[l].snap = job[l].snap
    BY <2>1, <2>2, Going
  <2> QED
    BY <1>2, <2>3
<1>3. CASE /\ ~job[l].snap.intent /\ UNCHANGED <<row, update>>
           /\ req' = [req EXCEPT ![r] = [Flushed(l, @) EXCEPT !.intent = TRUE]]
           /\ job' = [job EXCEPT ![l].pc = "comment", ![l].dirty = FALSE]
  <2> DEFINE j == [job[l] EXCEPT !.pc = "comment", !.dirty = FALSE]
             p == [Flushed(l, req[r]) EXCEPT !.intent = TRUE]
  <2>1. j \in Jobs /\ j.pc = "comment" /\ j.at = job[l].at /\ j.snap = job[l].snap
    BY <1>1 DEF Jobs, PCs
  <2>2. job' = [job EXCEPT ![l] = j] /\ UNCHANGED row /\ job[l].pc # "idle"
    BY <1>1, <1>3
  <2> HIDE DEF j
  <2>3. Goes(l, "comment") /\ job'[l].snap = job[l].snap
    BY <2>1, <2>2, Going
  <2>4. req'[r] = p /\ OneRound(r)
    BY <1>1, <1>3 DEF OneRound
  <2>5. p \in Requests /\ p.intent
    <3>1. Flushed(l, req[r]) \in Requests
      BY <1>1, FlushedRow DEF RoundInv
    <3> QED
      BY <3>1 DEF Requests
  <2>6. /\ p.token = req[r].token /\ p.ts = req[r].ts
        /\ p.applied <=> req[r].applied
        /\ p.delivery \in {req[r].delivery, "CONFIRMED"}
    <3> DEFINE f == Flushed(l, req[r])
    <3>1. f \in Requests /\ f.token = req[r].token /\ f.ts = req[r].ts
          /\ (f.applied <=> req[r].applied) /\ f.delivery \in {req[r].delivery, "CONFIRMED"}
      BY <1>1, FlushedFields
    <3>2. p = [f EXCEPT !.intent = TRUE]
      OBVIOUS
    <3> HIDE DEF f, p
    <3> QED
      BY <3>1, <3>2 DEF Requests
  <2> HIDE DEF p
  <2> QED
    BY <1>3, <2>3, <2>4, <2>5, <2>6 DEF SameSlack
<1> QED
  BY <1>2, <1>3 DEF EnsureComment

LEMMA CreateCommentDoes ==
    ASSUME RoundInv, NEW l \in Loops, CreateComment(l)
    PROVE  Goes(l, "commented") /\ job'[l].snap = job[l].snap
<1> DEFINE j == [job[l] EXCEPT !.pc = "commented"]
<1>1. j \in Jobs /\ j.pc = "commented" /\ j.at = job[l].at /\ j.snap = job[l].snap
  BY JobRow DEF RoundInv, Jobs, PCs
<1>2. job' = [job EXCEPT ![l] = j] /\ UNCHANGED row /\ job[l].pc # "idle"
  BY DEF CreateComment
<1> HIDE DEF j
<1> QED
  BY <1>1, <1>2, Going

LEMMA BeginRejectionDoes ==
    ASSUME RoundInv, Delivered, NEW l \in Loops, BeginRejection(l),
           NEW r \in Rounds, r = job[l].at[1]
    PROVE  /\ UNCHANGED req /\ job[l].at[2] = "rejection_comment"
           /\ \/ Goes(l, "fail")
              \/ Done(l)
              \/ Goes(l, "note") /\ job'[l].snap = req[r] /\ req[r].decision = "REJECTED"
<1>1. /\ req[r] \in Requests /\ job[l] \in Jobs /\ job \in [Loops -> Jobs]
      /\ job[l].pc = "claimed" /\ job[l].at[2] = "rejection_comment" /\ UNCHANGED req
  BY RowOfJob DEF RoundInv, Typed, BeginRejection, Ours
<1>2. CASE Failing(l, TRUE) /\ UNCHANGED row
  BY <1>1, <1>2, FailingGoes
<1>3. CASE Sent(l)
  BY <1>1, <1>3, SentIsDone
<1>4. CASE /\ req[r].decision = "REJECTED" /\ UNCHANGED row
           /\ job' = [job EXCEPT ![l].pc = "note", ![l].snap = req[r]]
  <2> DEFINE j == [job[l] EXCEPT !.pc = "note", !.snap = req[r]]
  <2>1. j \in Jobs /\ j.pc = "note" /\ j.at = job[l].at /\ j.snap = req[r]
    BY <1>1 DEF Jobs, PCs
  <2>2. job' = [job EXCEPT ![l] = j] /\ UNCHANGED row /\ job[l].pc # "idle"
    BY <1>1, <1>4
  <2> HIDE DEF j
  <2>3. Goes(l, "note") /\ job'[l].snap = req[r]
    BY <2>1, <2>2, Going
  <2> QED
    BY <1>1, <1>4, <2>3
<1> QED
  BY <1>2, <1>3, <1>4 DEF BeginRejection

LEMMA FailDoes ==
    ASSUME RoundInv, Delivered, JobsHaveRows, NEW l \in Loops, Fail(l),
           NEW r \in Rounds, r = job[l].at[1]
    PROVE  /\ Done(l) /\ OneRound(r) /\ SameSlack(r)
           /\ req'[r].intent <=> req[r].intent
           /\ req'[r].applied <=> req[r].applied
           /\ \/ req'[r].delivery = req[r].delivery /\ UNCHANGED <<state, update>>
              \/ /\ req'[r].delivery = "FAILED" /\ ~req[r].applied /\ job[l].at = Label(r)
                 /\ row'[job[l].at].status = "FAILED" /\ update' = StatusUpdate(r)
                 /\ state' \in {state, "APPROVAL_DELIVERY_FAILED"}
<1> DEFINE w == job[l].at
           terminal == job[l].permanent \/ row[w].attempts >= outbox_max_attempts
           undelivered == terminal /\ w[2] = "apply_remediation_label" /\ ~req[r].applied
           n == IF terminal /\ w[2] = "slack_approval_request" THEN "FAILED"
                ELSE req[r].notification
           d == IF undelivered THEN "FAILED" ELSE req[r].delivery
           s == IF terminal THEN "FAILED" ELSE row[w].status
<1>1. /\ req \in [Rounds -> Requests] /\ req[r] \in Requests /\ job[l] \in Jobs
      /\ job[l].pc = "fail" /\ w \in Rows /\ row[w] \in OutboxRows
      /\ row \in [Rows -> OutboxRows] /\ job \in [Loops -> Jobs]
  BY RowOfJob DEF RoundInv, Typed, Fail, Delivered
<1>2. /\ req' = [req EXCEPT ![r].notification = n, ![r].delivery = d]
      /\ row' = [row EXCEPT ![w].claimed_by = "none", ![w].lapsed = FALSE, ![w].status = s]
      /\ job' = [job EXCEPT ![l] = Idle]
      /\ undelivered => update' = StatusUpdate(r) /\ state' \in {state, "APPROVAL_DELIVERY_FAILED"}
      /\ ~undelivered => UNCHANGED <<state, update>>
  BY <1>1 DEF Fail
<1>3. req'[r] = [req[r] EXCEPT !.notification = n, !.delivery = d] /\ OneRound(r)
  BY <1>1, <1>2 DEF OneRound
<1>4. /\ SameSlack(r) /\ (req'[r].intent <=> req[r].intent)
      /\ req'[r].applied <=> req[r].applied
      /\ req'[r].delivery = d
  <2> HIDE DEF n, d
  <2> QED
    BY <1>1, <1>3 DEF SameSlack, Requests
<1>5. s \in {"PENDING", "SENT", "FAILED"}
      /\ (s = "PENDING" => row[w].attempts < outbox_max_attempts)
      /\ (undelivered => s = "FAILED")
  <2>1. row[w].status # "none"
    BY <1>1 DEF JobsHaveRows
  <2>2. row[w].status \in {"PENDING", "SENT", "FAILED"} /\ row[w].attempts \in Nat
        /\ outbox_max_attempts \in Nat
    BY <1>1, <2>1, ConstantsAssumption DEF OutboxRows
  <2>3. CASE terminal
    BY <2>3
  <2>4. CASE ~terminal
    BY <2>2, <2>4
  <2> QED
    BY <2>3, <2>4
<1>6. w[2] = "apply_remediation_label" => w = Label(r)
  BY <1>1 DEF Rows, Label
<1> HIDE DEF s, d
<1>7. Ended(w, s) /\ row'[w].status = s
  BY <1>1, <1>2 DEF Ended, OutboxRows
<1>8. Done(l)
  BY <1>1, <1>2, <1>5, <1>7, IdleType DEF Done, Others
<1>9. CASE undelivered
  BY <1>2, <1>3, <1>4, <1>5, <1>6, <1>7, <1>8, <1>9 DEF d
<1>10. CASE ~undelivered
  BY <1>2, <1>3, <1>4, <1>8, <1>10 DEF d
<1> QED
  BY <1>9, <1>10

LEMMA RetryOutboxDoes ==
    ASSUME RoundInv, Delivered, NEW w \in Rows, RetryOutbox(w), NEW r \in Rounds, r = w[1]
    PROVE  /\ row[w].status = "FAILED" /\ OneRound(r) /\ SameSlack(r)
           /\ row' = [row EXCEPT ![w] = [NoRow EXCEPT !.status = "PENDING"]]
           /\ req'[r].intent <=> req[r].intent
           /\ req'[r].applied <=> req[r].applied
           /\ req'[r].delivery = IF w[2] = "apply_remediation_label" /\ req[r].delivery = "FAILED"
                                 THEN "PENDING" ELSE req[r].delivery
<1> DEFINE d == IF w[2] = "apply_remediation_label" /\ req[r].delivery = "FAILED"
                THEN "PENDING" ELSE req[r].delivery
           n == IF w[2] = "slack_approval_request" /\ req[r].notification = "FAILED"
                THEN "PENDING" ELSE req[r].notification
<1>1. req \in [Rounds -> Requests] /\ req[r] \in Requests
  BY DEF RoundInv, Typed
<1>2. req' = [req EXCEPT ![r].delivery = d, ![r].notification = n]
  BY <1>1 DEF RetryOutbox
<1> HIDE DEF d, n
<1>3. req'[r] = [req[r] EXCEPT !.delivery = d, !.notification = n] /\ OneRound(r)
  BY <1>1, <1>2 DEF OneRound
<1>4. /\ SameSlack(r) /\ (req'[r].intent <=> req[r].intent)
      /\ req'[r].applied <=> req[r].applied
      /\ req'[r].delivery = d
  BY <1>1, <1>3 DEF SameSlack, Requests
<1>5. /\ row[w].status = "FAILED"
      /\ row' = [row EXCEPT ![w] = [NoRow EXCEPT !.status = "PENDING"]]
  BY DEF RetryOutbox
<1> QED
  BY <1>3, <1>4, <1>5 DEF d
-----------------------------------------------------------------------------
(***************************************************************************)
(* A step of a loop preserves OutboxInv.                                    *)
(***************************************************************************)
SameLosses == budget'.crashes = budget.crashes /\ budget'.lapses = budget.lapses

\* The round a loop works for has been decided as its row requires.
LEMMA RoundOfJob ==
    ASSUME RoundInv, Delivered, RowsFollowDecisions, JobsHaveRows, NEW l \in Loops,
           job[l].pc # "idle"
    PROVE  LET r == job[l].at[1]
           IN  /\ r \in Rounds /\ req[r].decision # "NONE"
               /\ job[l].at[2] = "apply_remediation_label" => req[r].decision = "APPROVED"
               /\ job[l].at[2] = "rejection_comment" => req[r].decision = "REJECTED"
<1>1. job[l].at \in Rows /\ row[job[l].at].status # "none"
  BY RowOfJob DEF JobsHaveRows
<1>2. PICK r \in Rounds, k \in Kinds : job[l].at = <<r, k>>
  BY <1>1 DEF Rows
<1>3. job[l].at[1] = r /\ job[l].at[2] = k /\ row[<<r, k>>].status # "none"
  BY <1>1, <1>2
<1>4. /\ k = "slack_approval_request" => req[r].decision # "NONE"
      /\ k = "apply_remediation_label" => req[r].decision = "APPROVED"
      /\ k = "rejection_comment" => req[r].decision = "REJECTED"
  BY <1>3 DEF RowsFollowDecisions, Slack, Label, Rejection
<1> QED
  BY <1>3, <1>4 DEF Kinds

LEMMA TriesKept ==
    ASSUME Delivered, \A w \in Rows : Tries(w), SameLosses, NEW l \in Loops, NEW p,
           (p # "idle" /\ Goes(l, p)) \/ Done(l), job[l].at \in Rows
    PROVE  \A w \in Rows : Tries(w)'
<1>1. Losses' = Losses /\ Losses \in Nat /\ outbox_max_attempts \in Nat
  BY ConstantsAssumption DEF SameLosses, Losses, Delivered, Budgets
<1>2. CASE p # "idle" /\ Goes(l, p)
  <2>1. \A m \in Loops, w \in Rows : At(m, w)' <=> At(m, w)
    BY <1>2 DEF Goes, Others, At
  <2> QED
    BY <1>1, <1>2, <2>1 DEF Tries, Goes
<1>3. CASE Done(l)
  <2>1. PICK s \in {"PENDING", "SENT", "FAILED"} :
          Ended(job[l].at, s) /\ (s = "PENDING" => row[job[l].at].attempts < outbox_max_attempts)
    BY <1>3 DEF Done
  <2>2. ASSUME NEW w \in Rows
        PROVE  Tries(w)'
    <3>1. CASE w = job[l].at
      <4>1. row[w] \in OutboxRows
        BY DEF Delivered
      <4>2. row'[w] = [row[w] EXCEPT !.status = s, !.claimed_by = "none", !.lapsed = FALSE]
        BY <2>1, <3>1 DEF Ended, Delivered
      <4>3. row'[w].status = s /\ row'[w].claimed_by = "none"
            /\ row'[w].attempts = row[w].attempts
        BY <4>1, <4>2 DEF OutboxRows
      <4> QED
        BY <1>1, <2>1, <3>1, <4>3 DEF Tries
    <3>2. CASE w # job[l].at
      <4>1. row'[w] = row[w]
        BY <2>1, <3>2 DEF Ended, Delivered
      <4>2. \A m \in Loops : At(m, w)' <=> At(m, w)
        BY <1>3, <3>2 DEF Done, Others, At
      <4> QED
        BY <1>1, <4>1, <4>2 DEF Tries
    <3> QED
      BY <3>1, <3>2
  <2> QED
    BY <2>2
<1> QED
  BY <1>2, <1>3

LEMMA LoopKeepsOutbox ==
    ASSUME OutboxInv, RoundInv', Delivered', SameDecisions, SameLosses,
           NEW l \in Loops, NEW p, (p # "idle" /\ Goes(l, p)) \/ Done(l),
           NEW r \in Rounds, r = job[l].at[1], OneRound(r),
           req[r].ts # 0 => req'[r].ts # 0,
           \A q \in update' : q \in update \/ (q = r /\ req'[r].ts # 0),
           InKind(job'[l])
    PROVE  OutboxInv'
<1>1. /\ RoundInv /\ Delivered /\ RowsFollowDecisions /\ JobsHaveRows
      /\ \A w \in Rows : Tries(w)
  BY DEF OutboxInv
<1>2. job[l].pc # "idle" /\ job[l].at \in Rows /\ row[job[l].at].status # "none"
  BY <1>1, RowOfJob DEF Goes, Done, JobsHaveRows
<1>3. req[r].decision # "NONE"
  BY <1>1, <1>2, RoundOfJob
<1>4. \A w \in Rows : row'[w].status = "none" <=> row[w].status = "none"
  <2>1. CASE p # "idle" /\ Goes(l, p)
    BY <2>1 DEF Goes
  <2>2. CASE Done(l)
    BY <1>1, <1>2, <2>2 DEF Done, Ended, Delivered, OutboxRows
  <2> QED
    BY <2>1, <2>2
<1>5. RowsFollowDecisions'
  <2>1. ASSUME NEW q \in Rounds
        PROVE  /\ row'[Slack(q)].status # "none" => req'[q].decision # "NONE"
               /\ row'[Label(q)].status # "none" => req'[q].decision = "APPROVED"
               /\ row'[Rejection(q)].status # "none" => req'[q].decision = "REJECTED"
    <3>1. Slack(q) \in Rows /\ Label(q) \in Rows /\ Rejection(q) \in Rows
      BY DEF Slack, Label, Rejection, Rows, Kinds
    <3> QED
      BY <1>1, <1>4, <3>1 DEF RowsFollowDecisions, SameDecisions
  <2>2. ASSUME NEW q \in Rounds, q \in update'
        PROVE  req'[q].decision # "NONE" /\ req'[q].ts # 0
    BY <1>1, <1>3, <2>2 DEF RowsFollowDecisions, SameDecisions, OneRound
  <2> QED
    BY <2>1, <2>2 DEF RowsFollowDecisions, Slack, Label, Rejection
<1>6. JobsHaveRows'
  <2>1. \A m \in Loops : m # l => job'[m] = job[m]
    BY DEF Goes, Done, Others
  <2>2. job'[l].pc = "idle" \/ job'[l].at = job[l].at
    BY DEF Goes, Done
  <2>3. \A m \in Loops : job[m].at \in Rows
    BY <1>1, RowOfJob
  <2> QED
    BY <1>1, <1>2, <1>4, <2>1, <2>2, <2>3 DEF JobsHaveRows, InKind
<1>7. \A w \in Rows : Tries(w)'
  BY <1>1, <1>2, TriesKept
<1> QED
  BY <1>5, <1>6, <1>7 DEF OutboxInv

LEMMA RowsTyped ==
    ASSUME Delivered, NEW l \in Loops, NEW p, Goes(l, p) \/ Done(l), job[l].at \in Rows
    PROVE  row' \in [Rows -> OutboxRows]
<1>1. CASE Goes(l, p)
  BY <1>1 DEF Goes, Delivered
<1>2. CASE Done(l)
  <2>1. PICK s \in {"PENDING", "SENT", "FAILED"} : Ended(job[l].at, s)
    BY <1>2 DEF Done
  <2> DEFINE q == [row[job[l].at] EXCEPT !.status = s, !.claimed_by = "none", !.lapsed = FALSE]
  <2>2. q \in OutboxRows
    BY DEF Delivered, OutboxRows
  <2>3. row' = [row EXCEPT ![job[l].at] = q]
    BY <2>1 DEF Ended
  <2> HIDE DEF q
  <2> QED
    BY <2>2, <2>3 DEF Delivered
<1> QED
  BY <1>1, <1>2

LEMMA Spending ==
    ASSUME Delivered
    PROVE  /\ Spend("faults") => budget' \in Budgets /\ SameLosses
           /\ Spend("operator") => budget' \in Budgets /\ SameLosses
           /\ Spend("human") => budget' \in Budgets /\ SameLosses
           /\ Spend("crashes") => /\ budget' \in Budgets /\ budget.crashes > 0
                                  /\ budget'.crashes = budget.crashes - 1
                                  /\ budget'.lapses = budget.lapses
           /\ Spend("lapses") => /\ budget' \in Budgets /\ budget.lapses > 0
                                 /\ budget'.crashes = budget.crashes
                                 /\ budget'.lapses = budget.lapses - 1
BY ConstantsAssumption DEF Delivered, Budgets, Spend, SameLosses

LEMMA LabelPut ==
    ASSUME Delivered, PutLabel
    PROVE  labelled' \in BOOLEAN /\ event' \in [Events -> EventStatus]
<1>1. labelled' \in BOOLEAN
  BY DEF PutLabel
<1>2. CASE UNCHANGED event
  BY <1>1, <1>2 DEF Delivered
<1>3. CASE \E e \in Events : event' = [event EXCEPT ![e] = "sent"]
  BY <1>1, <1>3 DEF Delivered, EventStatus
<1> QED
  BY <1>1, <1>2, <1>3 DEF PutLabel

\* What is queued by StatusUpdate.
LEMMA UpdateQueued ==
    ASSUME Delivered, NEW r \in Rounds, update' = StatusUpdate(r)
    PROVE  update' \subseteq Rounds /\ \A q \in update' : q \in update \/ (q = r /\ req[r].ts # 0)
BY DEF StatusUpdate, Delivered

LEMMA NotOursOutbox ==
    ASSUME OutboxInv, RoundInv', NEW l \in Loops, NotOurs(l)
    PROVE  OutboxInv'
<1>1. /\ UNCHANGED <<row, req, update, due, posted, labelled, comments, event, seen, budget>>
      /\ job'[l] = Idle /\ \A m \in Loops : m # l => job'[m] = job[m]
      /\ job[l].pc = "claimed" /\ row[job[l].at].claimed_by # worker_id[l]
  BY DEF NotOurs, slack, github, webhooks, OutboxInv, RoundInv, Typed
<1>2. Delivered' /\ RowsFollowDecisions'
  BY <1>1 DEF OutboxInv, Delivered, RowsFollowDecisions, Slack, Label, Rejection
<1>3. JobsHaveRows'
  BY <1>1, IdleType DEF OutboxInv, JobsHaveRows, InKind
<1>4. ASSUME NEW w \in Rows
      PROVE  Tries(w)'
  <2>1. Tries(w) /\ Losses' = Losses
    BY <1>1 DEF OutboxInv, Losses
  <2>2. \A m \in Loops : At(m, w)' => At(m, w)
    BY <1>1, IdleType DEF At
  <2>3. \A m \in Loops : At(m, w) /\ worker_id[m] = row[w].claimed_by => At(m, w)'
    BY <1>1 DEF At
  <2> QED
    BY <1>1, <2>1, <2>2, <2>3 DEF Tries
<1> QED
  BY <1>2, <1>3, <1>4 DEF OutboxInv

LEMMA SlackLoopOutbox ==
    ASSUME OutboxInv, RoundInv', NEW l \in Loops,
           BeginNotify(l) \/ Post(l) \/ MarkNotified(l)
    PROVE  OutboxInv'
<1>1. RoundInv /\ Delivered /\ RowsFollowDecisions /\ JobsHaveRows
  BY DEF OutboxInv
<1> DEFINE r == job[l].at[1]
<1>2. /\ r \in Rounds /\ job[l].at \in Rows /\ job[l].snap \in Requests /\ InKind(job[l])
      /\ \A m \in Loops : job[m] \in Jobs
  BY <1>1, RowOfJob DEF JobsHaveRows
<1> HIDE DEF r
<1>3. Messages(r) \subseteq Tokens /\ 0 \notin Tokens
  BY DEF Messages, Tokens
<1>4. CASE BeginNotify(l)
  <2>1. UNCHANGED <<due, update, posted, labelled, comments, event, seen, budget>>
    BY <1>4 DEF BeginNotify, slack, github, webhooks
  <2>2. SameDecisions /\ SameLosses
    BY <1>1, <1>4, <2>1, BeginNotifyStep DEF OutboxStep, SameLosses
  <2>3. /\ OneRound(r) /\ job[l].at[2] = "slack_approval_request"
        /\ \/ Done(l) /\ UNCHANGED req
           \/ Done(l) /\ req'[r].ts \in Messages(r)
           \/ /\ Goes(l, "post") /\ job'[l].snap = req'[r] /\ req'[r].token \in Tokens
              /\ req'[r].ts = req[r].ts
    BY <1>1, <1>2, <1>4, BeginNotifyDoes DEF r
  <2>4. Delivered'
    BY <1>1, <1>2, <2>1, <2>3, RowsTyped DEF Delivered
  <2>5. InKind(job'[l]) /\ (req[r].ts # 0 => req'[r].ts # 0)
    BY <1>3, <2>3 DEF InKind, Goes, Done
  <2> QED
    BY <1>2, <2>1, <2>2, <2>3, <2>4, <2>5, LoopKeepsOutbox DEF r
<1>5. CASE Post(l)
  <2>1. /\ UNCHANGED <<req, due, update, labelled, comments, event, seen, budget>>
        /\ posted' = [posted EXCEPT ![r][job[l].snap.token] = "AWAITING"]
        /\ job[l].pc = "post"
    BY <1>5 DEF Post, github, webhooks, r
  <2>2. Goes(l, "posted") /\ job'[l].snap = job[l].snap
    BY <1>1, <1>5, PostDoes
  <2>3. job[l].snap.token \in Tokens
    BY <1>2, <2>1 DEF InKind, Requests
  <2>4. posted' \in [Rounds -> [Tokens -> Shown \cup {"absent"}]]
    BY <1>1, <1>2, <2>1, <2>3 DEF Delivered, Shown
  <2>5. Delivered'
    BY <1>1, <1>2, <2>1, <2>2, <2>4, RowsTyped DEF Delivered
  <2>6. InKind(job'[l]) /\ SameDecisions /\ SameLosses /\ OneRound(r)
    BY <1>2, <2>1, <2>2 DEF InKind, Goes, SameDecisions, SameLosses, OneRound
  <2> QED
    BY <1>2, <2>1, <2>2, <2>5, <2>6, LoopKeepsOutbox DEF r
<1>6. CASE MarkNotified(l)
  <2>1. /\ UNCHANGED <<due, update, posted, labelled, comments, event, seen, budget>>
        /\ job[l].pc = "posted"
    BY <1>6 DEF MarkNotified, slack, github, webhooks
  <2>2. SameDecisions /\ SameLosses
    BY <1>1, <1>6, <2>1, MarkNotifiedStep DEF OutboxStep, SameLosses
  <2>3. Done(l) /\ OneRound(r) /\ req'[r].ts = job[l].snap.token
    BY <1>1, <1>2, <1>6, MarkNotifiedDoes DEF r
  <2>4. Delivered'
    BY <1>1, <1>2, <2>1, <2>3, RowsTyped DEF Delivered
  <2>5. InKind(job'[l]) /\ req'[r].ts # 0
    BY <1>2, <2>1, <2>3 DEF InKind, Done
  <2> QED
    BY <1>2, <2>1, <2>2, <2>3, <2>4, <2>5, LoopKeepsOutbox DEF r
<1> QED
  BY <1>4, <1>5, <1>6

LEMMA LabelLoopOutbox ==
    ASSUME OutboxInv, RoundInv', NEW l \in Loops,
           BeginLabel(l) \/ AddLabel(l) \/ CommitLabel(l) \/ Replay(l)
    PROVE  OutboxInv'
<1>1. RoundInv /\ Delivered /\ RowsFollowDecisions /\ JobsHaveRows
  BY DEF OutboxInv
<1> DEFINE r == job[l].at[1]
<1>2. r \in Rounds /\ job[l].at \in Rows /\ InKind(job[l])
  BY <1>1, RowOfJob DEF JobsHaveRows
<1> HIDE DEF r
<1>3. CASE BeginLabel(l)
  <2>1. /\ UNCHANGED <<due, update, posted, labelled, comments, seen, budget>>
        /\ \/ UNCHANGED event
           \/ event' = [e \in Events |-> IF event[e] = "processed" THEN "old" ELSE event[e]]
    BY <1>3 DEF BeginLabel, slack, github
  <2>2. event' \in [Events -> EventStatus]
    BY <1>1, <2>1 DEF Delivered, EventStatus
  <2>3. SameDecisions /\ SameLosses
    BY <1>1, <1>3, <2>1, BeginLabelStep DEF OutboxStep, SameLosses
  <2>4. /\ OneRound(r) /\ req'[r].ts = req[r].ts /\ job[l].at[2] = "apply_remediation_label"
        /\ \E p \in {"fail", "note", "replay", "add"} : Goes(l, p)
    BY <1>1, <1>2, <1>3, BeginLabelDoes DEF r, SameSlack
  <2>5. PICK p \in {"fail", "note", "replay", "add"} : Goes(l, p)
    BY <2>4
  <2>6. Delivered'
    BY <1>1, <1>2, <2>1, <2>2, <2>5, RowsTyped DEF Delivered
  <2>7. InKind(job'[l])
    BY <2>4, <2>5 DEF InKind, Goes
  <2> QED
    BY <1>2, <2>1, <2>3, <2>4, <2>5, <2>6, <2>7, LoopKeepsOutbox DEF r
<1>4. CASE AddLabel(l)
  <2>1. /\ UNCHANGED <<req, due, update, posted, comments, seen, budget>>
        /\ PutLabel /\ job[l].pc = "add"
    BY <1>4 DEF AddLabel, slack
  <2>2. Goes(l, "added")
    BY <1>1, <1>4, AddLabelDoes
  <2>3. Delivered'
    BY <1>1, <1>2, <2>1, <2>2, LabelPut, RowsTyped DEF Delivered
  <2>4. InKind(job'[l]) /\ SameDecisions /\ SameLosses /\ OneRound(r)
    BY <1>2, <2>1, <2>2 DEF InKind, Goes, SameDecisions, SameLosses, OneRound
  <2> QED
    BY <1>2, <2>1, <2>2, <2>3, <2>4, LoopKeepsOutbox DEF r
<1>5. CASE CommitLabel(l)
  <2>1. /\ UNCHANGED <<due, update, posted, labelled, comments, event, seen, budget>>
        /\ job[l].pc = "added"
    BY <1>5 DEF CommitLabel, slack, github, webhooks
  <2>2. SameDecisions /\ SameLosses
    BY <1>1, <1>5, <2>1, CommitLabelStep DEF OutboxStep, SameLosses
  <2>3. Goes(l, "replay") /\ OneRound(r) /\ req'[r].ts = req[r].ts
    BY <1>1, <1>2, <1>5, CommitLabelDoes DEF r, SameSlack
  <2>4. Delivered'
    BY <1>1, <1>2, <2>1, <2>3, RowsTyped DEF Delivered
  <2>5. InKind(job'[l])
    BY <1>2, <2>1, <2>3 DEF InKind, Goes
  <2> QED
    BY <1>2, <2>1, <2>2, <2>3, <2>4, <2>5, LoopKeepsOutbox DEF r
<1>6. CASE Replay(l)
  <2>1. /\ UNCHANGED <<due, posted, labelled, comments, event, seen, budget>>
        /\ job[l].pc = "replay"
    BY <1>6 DEF Replay, slack, github, webhooks
  <2>2. SameDecisions /\ SameLosses
    BY <1>1, <1>6, <2>1, ReplayStep DEF OutboxStep, SameLosses
  <2>3. /\ Goes(l, "note") /\ OneRound(r) /\ req'[r].ts = req[r].ts
        /\ UNCHANGED update \/ update' = StatusUpdate(r)
    BY <1>1, <1>2, <1>6, ReplayDoes DEF r, SameSlack
  <2>4. update' \subseteq Rounds /\ \A q \in update' : q \in update \/ (q = r /\ req[r].ts # 0)
    BY <1>1, <1>2, <2>3, UpdateQueued DEF Delivered
  <2>5. Delivered'
    BY <1>1, <1>2, <2>1, <2>3, <2>4, RowsTyped DEF Delivered
  <2>6. InKind(job'[l])
    BY <1>2, <2>1, <2>3 DEF InKind, Goes
  <2> QED
    BY <1>2, <2>2, <2>3, <2>4, <2>5, <2>6, LoopKeepsOutbox DEF r
<1> QED
  BY <1>3, <1>4, <1>5, <1>6

LEMMA CommentedOutbox ==
    ASSUME OutboxInv, RoundInv', NEW l \in Loops, Commented(l), job[l].pc # "idle",
           UNCHANGED <<state, attempt, due, posted, labelled, comments, event, seen, budget>>
    PROVE  OutboxInv'
<1>1. RoundInv /\ Delivered /\ RowsFollowDecisions /\ JobsHaveRows
  BY DEF OutboxInv
<1> DEFINE r == job[l].at[1]
<1>2. r \in Rounds /\ job[l].at \in Rows
  BY <1>1, RowOfJob
<1> HIDE DEF r
<1>3. SameDecisions /\ SameLosses
  BY <1>1, CommentedStep DEF OutboxStep, SameLosses
<1>4. Done(l) /\ OneRound(r) /\ req'[r].ts = req[r].ts /\ update' \in {update, StatusUpdate(r)}
  BY <1>1, <1>2, CommentedDoes DEF r, SameSlack
<1>5. update' \subseteq Rounds /\ \A q \in update' : q \in update \/ (q = r /\ req[r].ts # 0)
  BY <1>1, <1>2, <1>4, UpdateQueued DEF Delivered
<1>6. Delivered'
  BY <1>1, <1>2, <1>4, <1>5, RowsTyped DEF Delivered
<1>7. InKind(job'[l])
  BY <1>4 DEF InKind, Done
<1> QED
  BY <1>2, <1>3, <1>4, <1>5, <1>6, <1>7, LoopKeepsOutbox DEF r

LEMMA CommentLoopOutbox ==
    ASSUME OutboxInv, RoundInv', NEW l \in Loops,
           EnsureComment(l) \/ CreateComment(l) \/ RecordComment(l) \/ BeginRejection(l)
    PROVE  OutboxInv'
<1>1. RoundInv /\ Delivered /\ RowsFollowDecisions /\ JobsHaveRows
  BY DEF OutboxInv
<1> DEFINE r == job[l].at[1]
<1>2. r \in Rounds /\ job[l].at \in Rows /\ InKind(job[l])
  BY <1>1, RowOfJob DEF JobsHaveRows
<1> HIDE DEF r
<1>3. CASE EnsureComment(l)
  <2>1. /\ UNCHANGED <<state, attempt, due, posted, labelled, comments, event, seen, budget>>
        /\ job[l].pc = "note"
    BY <1>3 DEF EnsureComment, slack, github, webhooks
  <2>2. CASE Commented(l)
    BY <2>1, <2>2, CommentedOutbox
  <2>3. CASE ~Commented(l)
    <3>1. SameDecisions /\ SameLosses
      BY <1>1, <1>3, <2>1, EnsureCommentStep DEF OutboxStep, SameLosses
    <3>2. /\ Goes(l, "comment") /\ OneRound(r) /\ req'[r].ts = req[r].ts /\ UNCHANGED update
      BY <1>1, <1>2, <1>3, <2>3, EnsureCommentDoes DEF r, SameSlack, OneRound
    <3>3. Delivered'
      BY <1>1, <1>2, <2>1, <3>2, RowsTyped DEF Delivered
    <3>4. InKind(job'[l])
      BY <1>2, <2>1, <3>2 DEF InKind, Goes
    <3> QED
      BY <1>2, <3>1, <3>2, <3>3, <3>4, LoopKeepsOutbox DEF r
  <2> QED
    BY <2>2, <2>3
<1>4. CASE CreateComment(l)
  <2>1. /\ UNCHANGED <<req, due, update, posted, labelled, event, seen, budget>>
        /\ comments' = [comments EXCEPT ![r] = @ + 1] /\ job[l].pc = "comment"
    BY <1>4 DEF CreateComment, slack, webhooks, r
  <2>2. Goes(l, "commented")
    BY <1>1, <1>4, CreateCommentDoes
  <2>3. Delivered'
    BY <1>1, <1>2, <2>1, <2>2, RowsTyped DEF Delivered
  <2>4. InKind(job'[l]) /\ SameDecisions /\ SameLosses /\ OneRound(r)
    BY <1>2, <2>1, <2>2 DEF InKind, Goes, SameDecisions, SameLosses, OneRound
  <2> QED
    BY <1>2, <2>1, <2>2, <2>3, <2>4, LoopKeepsOutbox DEF r
<1>5. CASE RecordComment(l)
  BY <1>5, CommentedOutbox DEF RecordComment, slack, github, webhooks
<1>6. CASE BeginRejection(l)
  <2>1. UNCHANGED <<req, due, update, posted, labelled, comments, event, seen, budget>>
    BY <1>6 DEF BeginRejection, slack, github, webhooks
  <2>2. /\ job[l].at[2] = "rejection_comment"
        /\ Done(l) \/ \E p \in {"fail", "note"} : Goes(l, p)
    BY <1>1, <1>2, <1>6, BeginRejectionDoes DEF r
  <2>3. PICK p \in {"fail", "note"} : Done(l) \/ Goes(l, p)
    BY <2>2
  <2>4. Delivered'
    BY <1>1, <1>2, <2>1, <2>3, RowsTyped DEF Delivered
  <2>5. InKind(job'[l]) /\ SameDecisions /\ SameLosses /\ OneRound(r)
    BY <2>1, <2>2, <2>3 DEF InKind, Goes, Done, SameDecisions, SameLosses, OneRound
  <2> QED
    BY <1>2, <2>1, <2>3, <2>4, <2>5, LoopKeepsOutbox DEF r
<1> QED
  BY <1>3, <1>4, <1>5, <1>6

LEMMA FailLoopOutbox ==
    ASSUME OutboxInv, RoundInv', NEW l \in Loops, CallFails(l) \/ Fail(l)
    PROVE  OutboxInv'
<1>1. RoundInv /\ Delivered /\ RowsFollowDecisions /\ JobsHaveRows
  BY DEF OutboxInv
<1> DEFINE r == job[l].at[1]
<1>2. r \in Rounds /\ job[l].at \in Rows
  BY <1>1, RowOfJob
<1> HIDE DEF r
<1>3. CASE CallFails(l)
  <2>1. /\ Goes(l, "fail")
        /\ UNCHANGED <<req, due, update, posted, labelled, comments, event, seen>>
    BY <1>1, <1>3, CallFailsDoes DEF slack, github, webhooks
  <2>2. budget' \in Budgets /\ SameLosses
    BY <1>1, <1>3, Spending DEF CallFails
  <2>3. Delivered'
    BY <1>1, <1>2, <2>1, <2>2, RowsTyped DEF Delivered
  <2>4. InKind(job'[l]) /\ SameDecisions /\ OneRound(r)
    BY <2>1 DEF InKind, Goes, SameDecisions, OneRound
  <2> QED
    BY <1>2, <2>1, <2>2, <2>3, <2>4, LoopKeepsOutbox DEF r
<1>4. CASE Fail(l)
  <2>1. UNCHANGED <<due, posted, labelled, comments, event, seen, budget>>
    BY <1>4 DEF Fail, slack, github, webhooks
  <2>2. SameDecisions /\ SameLosses
    BY <1>1, <1>4, <2>1, FailStep DEF OutboxStep, SameLosses
  <2>3. /\ Done(l) /\ OneRound(r) /\ req'[r].ts = req[r].ts
        /\ UNCHANGED update \/ update' = StatusUpdate(r)
    BY <1>1, <1>2, <1>4, FailDoes DEF r, SameSlack
  <2>4. update' \subseteq Rounds /\ \A q \in update' : q \in update \/ (q = r /\ req[r].ts # 0)
    BY <1>1, <1>2, <2>3, UpdateQueued DEF Delivered
  <2>5. Delivered'
    BY <1>1, <1>2, <2>1, <2>3, <2>4, RowsTyped DEF Delivered
  <2>6. InKind(job'[l])
    BY <2>3 DEF InKind, Done
  <2> QED
    BY <1>2, <2>2, <2>3, <2>4, <2>5, <2>6, LoopKeepsOutbox DEF r
<1> QED
  BY <1>3, <1>4

LEMMA ClaimOutbox ==
    ASSUME OutboxInv, RoundInv', NEW l \in Loops, NEW w \in Rows, Claim(l, w)
    PROVE  OutboxInv'
<1> DEFINE a == row[w].attempts + 1
           n == [row[w] EXCEPT !.attempts = a, !.claimed_by = worker_id[l], !.lapsed = FALSE]
           j == [Idle EXCEPT !.pc = "claimed", !.at = w]
<1>1. /\ RoundInv /\ Delivered /\ RowsFollowDecisions /\ JobsHaveRows
      /\ row \in [Rows -> OutboxRows] /\ row[w] \in OutboxRows /\ job \in [Loops -> Jobs]
  BY DEF OutboxInv, Delivered, RoundInv, Typed
<1>2. /\ UNCHANGED <<req, update, due, posted, labelled, comments, event, seen, budget>>
      /\ row' = [row EXCEPT ![w] = n] /\ job' = [job EXCEPT ![l] = j]
      /\ job[l].pc = "idle" /\ row[w].status = "PENDING" /\ Free(w)
  BY <1>1 DEF Claim, slack, github, webhooks
<1>3. /\ n \in OutboxRows /\ n.status = "PENDING" /\ n.attempts = row[w].attempts + 1
      /\ n.claimed_by = worker_id[l] /\ n.claimed_by # "none" /\ ~n.lapsed
  <2>1. worker_id[l] \in Owners /\ worker_id[l] # "none"
    BY ConstantsAssumption DEF Owners
  <2>2. a \in Nat /\ a = row[w].attempts + 1
    BY <1>1 DEF OutboxRows
  <2> HIDE DEF a
  <2>3. n \in OutboxRows
    BY <1>1, <2>1, <2>2 DEF OutboxRows
  <2>4. n.status = row[w].status /\ n.attempts = a /\ n.claimed_by = worker_id[l] /\ ~n.lapsed
    BY <1>1 DEF OutboxRows
  <2> QED
    BY <1>2, <2>1, <2>2, <2>3, <2>4
<1>4. j.pc = "claimed" /\ j.at = w
  BY DEF Idle
<1> HIDE DEF n, j
<1>5. Delivered'
  BY <1>1, <1>2, <1>3 DEF Delivered
<1>6. /\ row'[w] = n /\ \A v \in Rows : v # w => row'[v] = row[v]
      /\ job'[l] = j /\ \A m \in Loops : m # l => job'[m] = job[m]
  BY <1>1, <1>2
<1>7. RowsFollowDecisions'
  <2>1. \A v \in Rows : row'[v].status = row[v].status
    BY <1>2, <1>3, <1>6
  <2>2. \A r \in Rounds : {Slack(r), Label(r), Rejection(r)} \subseteq Rows
    BY DEF Slack, Label, Rejection, Rows, Kinds
  <2> QED
    BY <1>1, <1>2, <2>1, <2>2 DEF RowsFollowDecisions, Slack, Label, Rejection
<1>8. JobsHaveRows'
  <2>1. \A m \in Loops : job[m].at \in Rows
    BY <1>1, RowOfJob
  <2>2. \A v \in Rows : row'[v].status = row[v].status
    BY <1>2, <1>3, <1>6
  <2> QED
    BY <1>1, <1>2, <1>4, <1>6, <2>1, <2>2 DEF JobsHaveRows, InKind
<1>9. ASSUME NEW v \in Rows
      PROVE  Tries(v)'
  <2>1. /\ Tries(v) /\ Losses' = Losses /\ Losses \in Nat /\ outbox_max_attempts \in Nat
        /\ row[v].attempts \in Nat
    BY <1>1, <1>2, ConstantsAssumption DEF OutboxInv, Losses, Delivered, Budgets, OutboxRows
  <2>2. CASE v = w
    <3>1. At(l, v)'
      BY <1>4, <1>6, <2>2 DEF At
    <3>2. row[v].attempts < outbox_max_attempts + Losses
      BY <1>2, <2>1, <2>2 DEF Tries, Free
    <3> QED
      BY <1>3, <1>6, <2>1, <2>2, <3>1, <3>2 DEF Tries
  <2>3. CASE v # w
    <3>1. \A m \in Loops : At(m, v)' <=> At(m, v)
      BY <1>2, <1>4, <1>6, <2>3 DEF At
    <3> QED
      BY <1>6, <2>1, <2>3, <3>1 DEF Tries
  <2> QED
    BY <2>2, <2>3
<1> QED
  BY <1>5, <1>7, <1>8, <1>9 DEF OutboxInv

LEMMA CrashOutbox ==
    ASSUME OutboxInv, RoundInv', NEW l \in Loops, Crash(l)
    PROVE  OutboxInv'
<1>1. RoundInv /\ Delivered /\ RowsFollowDecisions /\ JobsHaveRows
  BY DEF OutboxInv
<1>2. /\ UNCHANGED <<req, row, update, due, posted, labelled, comments, event, seen>>
      /\ \A m \in Loops : job'[m] = Idle \/ job'[m] = job[m]
      /\ budget' \in Budgets /\ budget.crashes > 0 /\ budget'.crashes = budget.crashes - 1
      /\ budget'.lapses = budget.lapses
  BY <1>1, Spending DEF Crash, slack, github, webhooks
<1>3. Delivered' /\ RowsFollowDecisions'
  BY <1>1, <1>2 DEF Delivered, RowsFollowDecisions, Slack, Label, Rejection
<1>4. JobsHaveRows'
  BY <1>1, <1>2, IdleType DEF JobsHaveRows, InKind
<1>5. ASSUME NEW w \in Rows
      PROVE  Tries(w)'
  <2>1. /\ Tries(w) /\ Losses' = Losses + 1 /\ Losses \in Nat /\ outbox_max_attempts \in Nat
        /\ row[w].attempts \in Nat
    BY <1>1, <1>2, ConstantsAssumption DEF OutboxInv, Losses, Delivered, Budgets, OutboxRows
  <2> QED
    BY <1>2, <2>1 DEF Tries
<1> QED
  BY <1>3, <1>4, <1>5 DEF OutboxInv

LEMMA LeaseLapsesOutbox ==
    ASSUME OutboxInv, RoundInv', NEW w \in Rows, LeaseLapses(w)
    PROVE  OutboxInv'
<1> DEFINE n == [row[w] EXCEPT !.lapsed = TRUE]
<1>1. /\ RoundInv /\ Delivered /\ RowsFollowDecisions /\ JobsHaveRows
      /\ row \in [Rows -> OutboxRows] /\ row[w] \in OutboxRows
  BY DEF OutboxInv, Delivered
<1>2. /\ UNCHANGED <<req, update, due, job, posted, labelled, comments, event, seen>>
      /\ row' = [row EXCEPT ![w] = n] /\ row[w].claimed_by # "none"
      /\ row[w].status = "PENDING"
  BY <1>1 DEF LeaseLapses, slack, github, webhooks
<1>3. \/ Spend("lapses")
      \/ UNCHANGED budget /\ \A l \in Loops : ~At(l, w)
  BY DEF LeaseLapses, At
<1>4. /\ budget' \in Budgets /\ Losses \in Nat /\ outbox_max_attempts \in Nat
      /\ \/ Losses' = Losses + 1
         \/ Losses' = Losses /\ \A l \in Loops : ~At(l, w)
  <2>1. CASE Spend("lapses")
    BY <1>1, <2>1, Spending, ConstantsAssumption DEF Losses, Delivered, Budgets
  <2>2. CASE UNCHANGED budget /\ \A l \in Loops : ~At(l, w)
    BY <1>1, <2>2, ConstantsAssumption DEF Losses, Delivered, Budgets
  <2> QED
    BY <1>3, <2>1, <2>2
<1>5. /\ n \in OutboxRows /\ n.status = row[w].status /\ n.attempts = row[w].attempts
      /\ n.claimed_by = row[w].claimed_by /\ n.lapsed
  BY <1>1 DEF OutboxRows
<1> HIDE DEF n
<1>6. row'[w] = n /\ \A v \in Rows : v # w => row'[v] = row[v]
  BY <1>1, <1>2
<1>7. \A v \in Rows : row'[v].status = row[v].status
  BY <1>5, <1>6
<1>8. Delivered'
  BY <1>1, <1>2, <1>4, <1>5 DEF Delivered
<1>9. RowsFollowDecisions'
  <2>1. \A r \in Rounds : {Slack(r), Label(r), Rejection(r)} \subseteq Rows
    BY DEF Slack, Label, Rejection, Rows, Kinds
  <2> QED
    BY <1>1, <1>2, <1>7, <2>1 DEF RowsFollowDecisions, Slack, Label, Rejection
<1>10. JobsHaveRows'
  <2>1. \A m \in Loops : job[m].at \in Rows
    BY <1>1, RowOfJob
  <2> QED
    BY <1>1, <1>2, <1>7, <2>1 DEF JobsHaveRows
<1>11. ASSUME NEW v \in Rows
       PROVE  Tries(v)'
  <2>1. /\ Tries(v) /\ row[v].attempts \in Nat /\ \A l \in Loops : At(l, v)' <=> At(l, v)
    BY <1>1, <1>2 DEF OutboxInv, OutboxRows, At
  <2>2. CASE Losses' = Losses + 1
    BY <1>4, <1>5, <1>6, <2>1, <2>2 DEF Tries
  <2>3. CASE Losses' = Losses /\ \A l \in Loops : ~At(l, w)
    BY <1>2, <1>4, <1>5, <1>6, <2>1, <2>3 DEF Tries
  <2> QED
    BY <1>4, <2>2, <2>3
<1> QED
  BY <1>8, <1>9, <1>10, <1>11 DEF OutboxInv
-----------------------------------------------------------------------------
(***************************************************************************)
(* The steps of people, triage and webhooks preserve OutboxInv.             *)
(***************************************************************************)
Fresh == [NoRow EXCEPT !.status = "PENDING"]

\* A row is left alone, or it starts over.
RowsRestart == \A w \in Rows : row'[w] = row[w] \/ row'[w] = Fresh

LEMMA FreshRow ==
    /\ Fresh \in OutboxRows /\ Fresh.status = "PENDING" /\ Fresh.attempts = 0
    /\ Fresh.claimed_by = "none"
BY DEF Fresh, NoRow, OutboxRows

LEMMA Restarted ==
    ASSUME Delivered, NEW w \in Rows, row' = [row EXCEPT ![w] = Fresh]
    PROVE  /\ RowsRestart /\ row' \in [Rows -> OutboxRows] /\ row'[w] = Fresh
           /\ \A v \in Rows : v # w => row'[v] = row[v]
BY FreshRow DEF Delivered, RowsRestart

LEMMA NoRestart ==
    ASSUME Delivered, UNCHANGED row
    PROVE  RowsRestart /\ row' \in [Rows -> OutboxRows]
BY DEF Delivered, RowsRestart

LEMMA OtherStepOutbox ==
    ASSUME OutboxInv, RoundInv', Delivered', RowsFollowDecisions', UNCHANGED job, SameLosses,
           RowsRestart
    PROVE  OutboxInv'
<1>1. JobsHaveRows'
  <2>1. \A l \in Loops : job[l].at \in Rows
    BY RowOfJob DEF OutboxInv
  <2> QED
    BY <2>1, FreshRow DEF OutboxInv, JobsHaveRows, RowsRestart
<1>2. ASSUME NEW w \in Rows
      PROVE  Tries(w)'
  <2>1. /\ Tries(w) /\ Losses' = Losses /\ Losses \in Nat
        /\ outbox_max_attempts \in Nat \ {0}
        /\ \A l \in Loops : At(l, w)' <=> At(l, w)
    BY ConstantsAssumption DEF OutboxInv, Delivered, Losses, SameLosses, Budgets, At
  <2>2. CASE row'[w] = row[w]
    BY <2>1, <2>2 DEF Tries
  <2>3. CASE row'[w] = Fresh
    BY <2>1, <2>3, FreshRow DEF Tries
  <2> QED
    BY <2>2, <2>3 DEF RowsRestart
<1> QED
  BY <1>1, <1>2 DEF OutboxInv

LEMMA RowNames ==
    ASSUME NEW r \in Rounds
    PROVE  /\ Slack(r) \in Rows /\ Label(r) \in Rows /\ Rejection(r) \in Rows
           /\ Slack(r) # Label(r) /\ Slack(r) # Rejection(r) /\ Label(r) # Rejection(r)
           /\ \A q \in Rounds : q # r =>
                /\ {Slack(q), Label(q), Rejection(q)} \cap {Slack(r), Label(r), Rejection(r)} = {}
BY DEF Slack, Label, Rejection, Rows, Kinds

\* Nothing new is decided or started.
LEMMA DecisionsFollowed ==
    ASSUME RowsFollowDecisions, SameDecisions,
           \A w \in Rows : row'[w].status = "none" <=> row[w].status = "none",
           \A q \in Rounds : req[q].ts # 0 => req'[q].ts # 0,
           \A q \in update' : q \in update
                              \/ (q \in Rounds /\ req[q].decision # "NONE" /\ req[q].ts # 0)
    PROVE  RowsFollowDecisions'
<1>1. ASSUME NEW r \in Rounds
      PROVE  /\ row'[Slack(r)].status # "none" => req'[r].decision # "NONE"
             /\ row'[Label(r)].status # "none" => req'[r].decision = "APPROVED"
             /\ row'[Rejection(r)].status # "none" => req'[r].decision = "REJECTED"
  BY RowNames DEF RowsFollowDecisions, SameDecisions
<1>2. ASSUME NEW r \in Rounds, r \in update'
      PROVE  req'[r].decision # "NONE" /\ req'[r].ts # 0
  BY <1>2 DEF RowsFollowDecisions, SameDecisions
<1> QED
  BY <1>1, <1>2 DEF RowsFollowDecisions, Slack, Label, Rejection

LEMMA ConfirmDoes ==
    ASSUME RoundInv, NEW e, NEW s, Confirm(e, s)
    PROVE  \/ UNCHANGED <<req, state, update>>
           \/ /\ Newest \in Rounds /\ OneRound(Newest) /\ SameSlack(Newest)
              /\ is_current_request(Newest) /\ req[Newest].applied /\ req'[Newest].applied
              /\ req'[Newest].intent <=> req[Newest].intent
              /\ req'[Newest].delivery = "CONFIRMED" /\ req[Newest].decision = "APPROVED"
              /\ \/ state' = "REMEDIATION_APPROVED" /\ update' = StatusUpdate(Newest)
                 \/ UNCHANGED <<state, update>>
<1> DEFINE r == Newest
<1>1. Newest \in Rounds \cup {0} /\ req \in [Rounds -> Requests]
  BY NewestIs DEF RoundInv, Typed
<1>2. CASE UNCHANGED <<req, state, update>>
  BY <1>2
<1>3. CASE /\ r # 0 /\ confirms(r, req[r], s)
           /\ req' = [req EXCEPT ![r].delivery = "CONFIRMED"]
           /\ \/ state' = "REMEDIATION_APPROVED" /\ update' = StatusUpdate(r)
              \/ UNCHANGED <<state, update>>
  <2>1. /\ r \in Rounds /\ req[r] \in Requests /\ req[r].applied
        /\ req[r].decision = "APPROVED" /\ is_current_request(r)
    BY <1>1, <1>3 DEF confirms
  <2> HIDE DEF r
  <2>2. req'[r] = [req[r] EXCEPT !.delivery = "CONFIRMED"] /\ OneRound(r)
    BY <1>1, <1>3, <2>1 DEF OneRound
  <2>3. /\ SameSlack(r) /\ req'[r].applied /\ (req'[r].intent <=> req[r].intent)
        /\ req'[r].delivery = "CONFIRMED"
    BY <2>1, <2>2 DEF Requests, SameSlack
  <2> QED
    BY <1>3, <2>1, <2>2, <2>3 DEF r
<1> QED
  BY <1>2, <1>3 DEF Confirm

LEMMA EventOutbox ==
    ASSUME OutboxInv, RoundInv', NEW e \in Events,
           WebhookArrives(e) \/ ProcessEvent(e) \/ LoadEvent(e) \/ ConfirmEvent(e)
    PROVE  OutboxInv'
<1>1. RoundInv /\ Delivered /\ RowsFollowDecisions
  BY DEF OutboxInv
<1>2. CASE WebhookArrives(e)
  <2>1. UNCHANGED <<req, row, update, due, job, posted, labelled, comments, seen>>
    BY <1>2 DEF WebhookArrives, slack, github
  <2>2. budget' \in Budgets /\ SameLosses
    BY <1>1, <1>2, Spending DEF WebhookArrives, SameLosses, Delivered
  <2>3. event' \in [Events -> EventStatus]
    BY <1>1, <1>2 DEF WebhookArrives, Delivered, EventStatus
  <2>4. Delivered' /\ RowsFollowDecisions'
    BY <1>1, <2>1, <2>2, <2>3 DEF Delivered, RowsFollowDecisions, Slack, Label, Rejection
  <2> QED
    BY <1>1, <2>1, <2>2, <2>4, NoRestart, OtherStepOutbox
<1>3. CASE LoadEvent(e)
  <2>1. UNCHANGED <<req, row, update, due, job, posted, labelled, comments>>
    BY <1>3 DEF LoadEvent, slack, github
  <2>2. /\ budget' \in Budgets /\ budget.lapses > 0 /\ budget'.lapses = budget.lapses - 1
        /\ budget'.crashes = budget.crashes
    BY <1>1, <1>3, Spending DEF LoadEvent
  <2>3. event' \in [Events -> EventStatus] /\ seen' \in [Events -> CaseState]
    BY <1>1, <1>3 DEF LoadEvent, Delivered, EventStatus, RoundInv, Typed
  <2>4. Delivered' /\ RowsFollowDecisions'
    BY <1>1, <2>1, <2>2, <2>3 DEF Delivered, RowsFollowDecisions, Slack, Label, Rejection
  <2>5. JobsHaveRows'
    BY <2>1 DEF OutboxInv, JobsHaveRows
  <2>6. ASSUME NEW w \in Rows
        PROVE  Tries(w)'
    <3>1. /\ Tries(w) /\ Losses' = Losses + 1 /\ Losses \in Nat /\ outbox_max_attempts \in Nat
          /\ row[w].attempts \in Nat
      BY <1>1, <2>2, ConstantsAssumption DEF OutboxInv, Losses, Delivered, Budgets, OutboxRows
    <3> QED
      BY <2>1, <3>1 DEF Tries
  <2> QED
    BY <2>4, <2>5, <2>6 DEF OutboxInv
<1>4. ASSUME NEW s, Confirm(e, s)
      PROVE  OutboxInv'
  <2>1. /\ UNCHANGED <<row, due, job, posted, labelled, comments, seen, budget>>
        /\ event' = [event EXCEPT ![e] = "processed"]
    BY <1>4 DEF Confirm, slack, github
  <2>2. SameDecisions /\ SameLosses
    BY <1>1, <1>4, <2>1, ConfirmStep DEF OutboxStep, SameLosses
  <2>3. /\ \A q \in Rounds : req'[q].ts = req[q].ts
        /\ \/ UNCHANGED update
           \/ Newest \in Rounds /\ update' = StatusUpdate(Newest)
              /\ req[Newest].decision = "APPROVED"
    BY <1>1, <1>4, ConfirmDoes DEF OneRound, SameSlack
  <2>4. /\ update' \subseteq Rounds
        /\ \A q \in update' : q \in update
                              \/ (q \in Rounds /\ req[q].decision # "NONE" /\ req[q].ts # 0)
    BY <1>1, <2>3, UpdateQueued DEF Delivered
  <2>5. Delivered'
    BY <1>1, <2>1, <2>4 DEF Delivered, EventStatus
  <2>6. RowsFollowDecisions'
    BY <1>1, <2>1, <2>2, <2>3, <2>4, DecisionsFollowed
  <2> QED
    BY <1>1, <2>1, <2>2, <2>5, <2>6, NoRestart, OtherStepOutbox
<1> QED
  BY <1>2, <1>3, <1>4 DEF ProcessEvent, ConfirmEvent

LEMMA DecisionDoes ==
    ASSUME RoundInv, NEW r \in Rounds, NEW t \in Tokens,
           ClickApprove(r, t) \/ ClickReject(r, t) \/ ClickExpired(r, t) \/ ExpireApproval(r)
    PROVE  /\ OneRound(r) /\ SameSlack(r) /\ (req'[r].intent <=> req[r].intent)
           /\ req'[r].applied <=> req[r].applied
           /\ req[r].decision = "PENDING" /\ update' = StatusUpdate(r)
           /\ \/ /\ req'[r].decision = "APPROVED" /\ req'[r].delivery = "PENDING"
                 /\ row' = [row EXCEPT ![Label(r)] = Fresh]
                 /\ state = "AWAITING_REMEDIATION_APPROVAL" /\ UNCHANGED state
              \/ /\ req'[r].decision = "REJECTED" /\ req'[r].delivery = "NOT_REQUESTED"
                 /\ row' = [row EXCEPT ![Rejection(r)] = Fresh]
                 /\ state' = "REMEDIATION_REJECTED"
              \/ /\ req'[r].decision = "EXPIRED" /\ req'[r].delivery = req[r].delivery
                 /\ UNCHANGED <<row, state>>
<1>1. req \in [Rounds -> Requests] /\ req[r] \in Requests
  BY DEF RoundInv, Typed
<1>2. CASE ClickApprove(r, t)
  <2>1. /\ req'[r] = [req[r] EXCEPT !.decision = "APPROVED", !.delivery = "PENDING"]
        /\ OneRound(r)
    BY <1>1, <1>2 DEF ClickApprove, OneRound
  <2>2. /\ SameSlack(r) /\ (req'[r].intent <=> req[r].intent)
        /\ req'[r].applied <=> req[r].applied
        /\ req'[r].decision = "APPROVED" /\ req'[r].delivery = "PENDING"
    BY <1>1, <2>1 DEF SameSlack, Requests
  <2>3. /\ row' = [row EXCEPT ![Label(r)] = Fresh] /\ update' = StatusUpdate(r)
        /\ state = "AWAITING_REMEDIATION_APPROVAL" /\ UNCHANGED state
        /\ req[r].decision = "PENDING"
    BY <1>2 DEF ClickApprove, New, Label, Fresh, Decidable
  <2> QED
    BY <2>1, <2>2, <2>3
<1>3. CASE ClickReject(r, t)
  <2>1. /\ req'[r] = [req[r] EXCEPT !.decision = "REJECTED", !.delivery = "NOT_REQUESTED"]
        /\ OneRound(r)
    BY <1>1, <1>3 DEF ClickReject, OneRound
  <2>2. /\ SameSlack(r) /\ (req'[r].intent <=> req[r].intent)
        /\ req'[r].applied <=> req[r].applied
        /\ req'[r].decision = "REJECTED" /\ req'[r].delivery = "NOT_REQUESTED"
    BY <1>1, <2>1 DEF SameSlack, Requests
  <2>3. /\ row' = [row EXCEPT ![Rejection(r)] = Fresh] /\ update' = StatusUpdate(r)
        /\ state' = "REMEDIATION_REJECTED" /\ req[r].decision = "PENDING"
    BY <1>3 DEF ClickReject, New, Rejection, Fresh, Decidable
  <2> QED
    BY <2>1, <2>2, <2>3
<1>4. CASE ClickExpired(r, t) \/ ExpireApproval(r)
  <2>1. expire_request(r) /\ UNCHANGED <<row, state>>
    BY <1>4 DEF ClickExpired, ExpireApproval
  <2>2. req'[r] = [req[r] EXCEPT !.decision = "EXPIRED"] /\ OneRound(r)
    BY <1>1, <2>1 DEF expire_request, OneRound
  <2>3. /\ SameSlack(r) /\ (req'[r].intent <=> req[r].intent)
        /\ req'[r].applied <=> req[r].applied
        /\ req'[r].decision = "EXPIRED" /\ req'[r].delivery = req[r].delivery
    BY <1>1, <2>2 DEF SameSlack, Requests
  <2> QED
    BY <2>1, <2>2, <2>3 DEF expire_request
<1> QED
  BY <1>2, <1>3, <1>4

LEMMA DecisionOutbox ==
    ASSUME OutboxInv, RoundInv', NEW r \in Rounds, NEW t \in Tokens,
           ClickApprove(r, t) \/ ClickReject(r, t) \/ ClickExpired(r, t) \/ ExpireApproval(r)
    PROVE  OutboxInv'
<1>1. RoundInv /\ Delivered /\ RowsFollowDecisions
  BY DEF OutboxInv
<1>2. UNCHANGED <<due, job, posted, labelled, comments, event, seen>>
  BY DEF ClickApprove, ClickReject, ClickExpired, ExpireApproval, slack, github, webhooks
<1>3. budget' \in Budgets /\ SameLosses
  <2>1. UNCHANGED budget \/ Spend("operator")
    BY DEF ClickApprove, ClickReject, ClickExpired, ExpireApproval
  <2> QED
    BY <1>1, <2>1, Spending DEF SameLosses, Delivered
<1>4. OneRound(r) /\ req'[r].ts = req[r].ts /\ req[r].decision = "PENDING"
      /\ update' = StatusUpdate(r)
      /\ \/ req'[r].decision = "APPROVED" /\ row' = [row EXCEPT ![Label(r)] = Fresh]
         \/ req'[r].decision = "REJECTED" /\ row' = [row EXCEPT ![Rejection(r)] = Fresh]
         \/ req'[r].decision = "EXPIRED" /\ UNCHANGED row
  BY <1>1, DecisionDoes DEF SameSlack
<1>5. RowsRestart /\ row' \in [Rows -> OutboxRows]
  BY <1>1, <1>4, Restarted, NoRestart, RowNames
<1>6. update' \subseteq Rounds /\ \A q \in update' : q \in update \/ (q = r /\ req[r].ts # 0)
  BY <1>1, <1>4, UpdateQueued
<1>7. Delivered'
  BY <1>1, <1>2, <1>3, <1>5, <1>6 DEF Delivered
<1>8. RowsFollowDecisions'
  <2>1. ASSUME NEW q \in Rounds, q # r
        PROVE  /\ row'[Slack(q)].status # "none" => req'[q].decision # "NONE"
               /\ row'[Label(q)].status # "none" => req'[q].decision = "APPROVED"
               /\ row'[Rejection(q)].status # "none" => req'[q].decision = "REJECTED"
    <3>1. \A w \in Rows : w \notin {Label(r), Rejection(r)} => row'[w] = row[w]
      BY <1>1, <1>4 DEF Delivered
    <3>2. /\ {Slack(q), Label(q), Rejection(q)} \cap {Slack(r), Label(r), Rejection(r)} = {}
          /\ {Slack(q), Label(q), Rejection(q)} \subseteq Rows
      BY <2>1, RowNames
    <3>3. /\ row'[Slack(q)] = row[Slack(q)] /\ row'[Label(q)] = row[Label(q)]
          /\ row'[Rejection(q)] = row[Rejection(q)]
      BY <3>1, <3>2
    <3>4. req'[q] = req[q]
      BY <1>4, <2>1 DEF OneRound
    <3> QED
      BY <1>1, <3>3, <3>4 DEF RowsFollowDecisions
  <2>2. /\ row'[Slack(r)].status # "none" => req'[r].decision # "NONE"
        /\ row'[Label(r)].status # "none" => req'[r].decision = "APPROVED"
        /\ row'[Rejection(r)].status # "none" => req'[r].decision = "REJECTED"
    <3>1. row[Label(r)].status = "none" /\ row[Rejection(r)].status = "none"
      BY <1>1, <1>4 DEF RowsFollowDecisions
    <3> QED
      BY <1>1, <1>4, <3>1, RowNames DEF Delivered
  <2>3. ASSUME NEW q \in Rounds, q \in update'
        PROVE  req'[q].decision # "NONE" /\ req'[q].ts # 0
    BY <1>1, <1>4, <1>6, <2>3 DEF RowsFollowDecisions, OneRound
  <2> QED
    BY <2>1, <2>2, <2>3 DEF RowsFollowDecisions, Slack, Label, Rejection
<1> QED
  BY <1>2, <1>3, <1>5, <1>7, <1>8, OtherStepOutbox

LEMMA RetryOutboxOutbox ==
    ASSUME OutboxInv, RoundInv', NEW w \in Rows, RetryOutbox(w)
    PROVE  OutboxInv'
<1>1. RoundInv /\ Delivered /\ RowsFollowDecisions
  BY DEF OutboxInv
<1> DEFINE r == w[1]
<1>2. r \in Rounds /\ UNCHANGED <<due, job, update, posted, labelled, comments, event, seen>>
  BY DEF Rows, RetryOutbox, slack, github, webhooks
<1> HIDE DEF r
<1>3. budget' \in Budgets /\ SameLosses
  BY <1>1, Spending DEF RetryOutbox
<1>4. /\ row[w].status = "FAILED" /\ OneRound(r) /\ req'[r].ts = req[r].ts
      /\ row' = [row EXCEPT ![w] = Fresh]
  BY <1>1, <1>2, RetryOutboxDoes DEF r, SameSlack, Fresh
<1>5. SameDecisions
  BY <1>1, RetryOutboxStep DEF OutboxStep
<1>6. /\ RowsRestart /\ row' \in [Rows -> OutboxRows] /\ row'[w] = Fresh
      /\ \A v \in Rows : v # w => row'[v] = row[v]
  BY <1>1, <1>4, Restarted
<1>7. Delivered'
  BY <1>1, <1>2, <1>3, <1>6 DEF Delivered
<1>8. RowsFollowDecisions'
  <2>1. \A v \in Rows : row'[v].status = "none" <=> row[v].status = "none"
    BY <1>4, <1>6, FreshRow
  <2>2. \A q \in Rounds : req'[q].ts = req[q].ts
    BY <1>4 DEF OneRound
  <2> QED
    BY <1>1, <1>2, <1>5, <2>1, <2>2, DecisionsFollowed
<1> QED
  BY <1>2, <1>3, <1>6, <1>7, <1>8, OtherStepOutbox

LEMMA ShownStatus ==
    ASSUME NEW q \in Requests
    PROVE  message_status(q) \in Shown
BY DEF message_status, Requests, Decisions, Shown

LEMMA DeliverUpdateOutbox ==
    ASSUME OutboxInv, RoundInv', NEW r \in Rounds, DeliverUpdate(r)
    PROVE  OutboxInv'
<1>1. RoundInv /\ Delivered /\ RowsFollowDecisions /\ req[r] \in Requests
  BY DEF OutboxInv, RoundInv, Typed
<1>2. /\ UNCHANGED <<req, row, due, job, labelled, comments, event, seen>>
      /\ update' = update \ {r} /\ r \in update
      /\ \/ posted' = [posted EXCEPT ![r][req[r].ts] = message_status(req[r])] /\ UNCHANGED budget
         \/ Spend("faults") /\ UNCHANGED posted
  BY DEF DeliverUpdate, github, webhooks
<1>3. budget' \in Budgets /\ SameLosses
  BY <1>1, <1>2, Spending DEF SameLosses, Delivered
<1>4. posted' \in [Rounds -> [Tokens -> Shown \cup {"absent"}]]
  <2> DEFINE v == message_status(req[r])
  <2>1. v \in Shown /\ req[r].ts \in Tokens
    BY <1>1, <1>2, ShownStatus DEF RowsFollowDecisions, Requests
  <2> HIDE DEF v
  <2>2. CASE posted' = [posted EXCEPT ![r][req[r].ts] = v]
    BY <1>1, <2>1, <2>2 DEF Delivered
  <2>3. CASE UNCHANGED posted
    BY <1>1, <2>3 DEF Delivered
  <2> QED
    BY <1>2, <2>2, <2>3 DEF v
<1>5. Delivered' /\ RowsFollowDecisions'
  BY <1>1, <1>2, <1>3, <1>4 DEF Delivered, RowsFollowDecisions, Slack, Label, Rejection
<1> QED
  BY <1>1, <1>2, <1>3, <1>5, NoRestart, OtherStepOutbox

\* What a new round makes of the others.
LEMMA FinishTriageDoes ==
    ASSUME RoundInv, FinishTriage
    PROVE  /\ attempt \in Rounds /\ req[attempt].decision = "NONE"
           /\ req'[attempt] = [NoRequest EXCEPT !.decision = "PENDING"]
           /\ \A q \in Rounds : q # attempt =>
                /\ req'[q].ts = req[q].ts /\ req'[q].delivery = req[q].delivery
                /\ req'[q].applied <=> req[q].applied
                /\ req'[q].intent <=> req[q].intent
                /\ IF req[q].decision = "PENDING" THEN req'[q].decision = "SUPERSEDED"
                   ELSE req'[q] = req[q]
           /\ row' = [row EXCEPT ![Slack(attempt)] = Fresh]
<1>1. /\ attempt \in Rounds /\ req[attempt].decision = "NONE"
      /\ req \in [Rounds -> Requests]
  BY DEF RoundInv, Typed, RoundsInOrder, FinishTriage
<1>2. req' = create_approval_request /\ row' = [row EXCEPT ![Slack(attempt)] = Fresh]
  BY DEF FinishTriage, New, Slack, Fresh
<1>3. req'[attempt] = [NoRequest EXCEPT !.decision = "PENDING"]
  BY <1>1, <1>2 DEF create_approval_request
<1>4. ASSUME NEW q \in Rounds, q # attempt
      PROVE  /\ req'[q].ts = req[q].ts /\ req'[q].delivery = req[q].delivery
             /\ req'[q].applied <=> req[q].applied
             /\ req'[q].intent <=> req[q].intent
             /\ IF req[q].decision = "PENDING" THEN req'[q].decision = "SUPERSEDED"
                ELSE req'[q] = req[q]
  <2>1. CASE req[q].decision = "PENDING"
    <3>1. req'[q] = [req[q] EXCEPT !.decision = "SUPERSEDED", !.token = 0]
      BY <1>2, <1>4, <2>1 DEF create_approval_request
    <3>2. req[q] \in Requests
      BY <1>1
    <3> QED
      BY <2>1, <3>1, <3>2 DEF Requests
  <2>2. CASE req[q].decision # "PENDING"
    BY <1>2, <1>4, <2>2 DEF create_approval_request
  <2> QED
    BY <2>1, <2>2
<1> QED
  BY <1>1, <1>2, <1>3, <1>4

LEMMA FinishTriageOutbox ==
    ASSUME OutboxInv, RoundInv', FinishTriage
    PROVE  OutboxInv'
<1>1. RoundInv /\ Delivered /\ RowsFollowDecisions
  BY DEF OutboxInv
<1>2. /\ UNCHANGED <<due, job, posted, labelled, comments, event, seen, budget>>
      /\ update' = update \cup {r \in Rounds : req[r].decision = "PENDING" /\ req[r].ts # 0}
  BY DEF FinishTriage, slack, github, webhooks
<1>3. /\ attempt \in Rounds /\ req[attempt].decision = "NONE"
      /\ req'[attempt].decision = "PENDING"
      /\ \A q \in Rounds : q # attempt =>
           /\ req'[q].ts = req[q].ts
           /\ IF req[q].decision = "PENDING" THEN req'[q].decision = "SUPERSEDED"
              ELSE req'[q].decision = req[q].decision
      /\ row' = [row EXCEPT ![Slack(attempt)] = Fresh]
  BY <1>1, FinishTriageDoes DEF NoRequest
<1>4. /\ RowsRestart /\ row' \in [Rows -> OutboxRows]
      /\ \A w \in Rows : w # Slack(attempt) => row'[w] = row[w]
  BY <1>1, <1>3, Restarted, RowNames
<1>5. Delivered'
  BY <1>1, <1>2, <1>4 DEF Delivered
<1>6. RowsFollowDecisions'
  <2>1. ASSUME NEW q \in Rounds
        PROVE  /\ row'[Slack(q)].status # "none" => req'[q].decision # "NONE"
               /\ row'[Label(q)].status # "none" => req'[q].decision = "APPROVED"
               /\ row'[Rejection(q)].status # "none" => req'[q].decision = "REJECTED"
    <3>1. /\ row'[Label(q)] = row[Label(q)] /\ row'[Rejection(q)] = row[Rejection(q)]
          /\ q # attempt => row'[Slack(q)] = row[Slack(q)]
      BY <1>3, <1>4, RowNames
    <3> QED
      BY <1>1, <1>3, <3>1 DEF RowsFollowDecisions
  <2>2. ASSUME NEW q \in Rounds, q \in update'
        PROVE  req'[q].decision # "NONE" /\ req'[q].ts # 0
    BY <1>1, <1>2, <1>3, <2>2 DEF RowsFollowDecisions
  <2> QED
    BY <2>1, <2>2 DEF RowsFollowDecisions, Slack, Label, Rejection
<1>7. SameLosses
  BY <1>2 DEF SameLosses
<1> QED
  BY <1>2, <1>4, <1>5, <1>6, <1>7, OtherStepOutbox

\* Steps that write no row of the outbox and no round.
LEMMA QuietOutbox ==
    ASSUME OutboxInv, RoundInv',
           \/ LeaveWait \/ RetryTriage \/ StartTriage \/ StartRemediation \/ HumanLabels
           \/ (\E r \in Rounds : TokenExpires(r)) \/ UNCHANGED vars
    PROVE  OutboxInv'
<1>1. RoundInv /\ Delivered /\ RowsFollowDecisions
  BY DEF OutboxInv
<1>2. UNCHANGED <<req, row, update, job, posted, comments, seen>>
  BY DEF LeaveWait, RetryTriage, StartTriage, StartRemediation, HumanLabels, TokenExpires, vars,
         slack, github, webhooks
<1>3. budget' \in Budgets /\ SameLosses
  <2>1. UNCHANGED budget \/ Spend("operator") \/ Spend("human")
    BY DEF LeaveWait, RetryTriage, StartTriage, StartRemediation, HumanLabels, TokenExpires, vars
  <2> QED
    BY <1>1, <2>1, Spending DEF SameLosses, Delivered
<1>4. labelled' \in BOOLEAN /\ event' \in [Events -> EventStatus]
  <2>1. CASE HumanLabels
    <3>1. PutLabel \/ (labelled' = FALSE /\ UNCHANGED event)
      BY <2>1 DEF HumanLabels
    <3> QED
      BY <1>1, <3>1, LabelPut DEF Delivered
  <2>2. CASE ~HumanLabels
    <3>1. UNCHANGED <<labelled, event>>
      BY <2>2 DEF LeaveWait, RetryTriage, StartTriage, StartRemediation, TokenExpires, vars,
                  github, webhooks
    <3> QED
      BY <1>1, <3>1 DEF Delivered
  <2> QED
    BY <2>1, <2>2
<1>5. due' \subseteq Rounds
  <2>1. UNCHANGED due \/ \E r \in Rounds : due' = due \cup {r}
    BY DEF LeaveWait, RetryTriage, StartTriage, StartRemediation, HumanLabels, TokenExpires, vars
  <2> QED
    BY <1>1, <2>1 DEF Delivered
<1>6. Delivered' /\ RowsFollowDecisions'
  BY <1>1, <1>2, <1>3, <1>4, <1>5 DEF Delivered, RowsFollowDecisions, Slack, Label, Rejection
<1> QED
  BY <1>1, <1>2, <1>3, <1>6, NoRestart, OtherStepOutbox

LEMMA OutboxNext ==
    ASSUME OutboxInv, [Next]_vars
    PROVE  OutboxInv'
<1>1. RoundInv'
  BY NextRefines DEF OutboxInv, Refines
<1>2. 1 \in Tokens
  BY ConstantsAssumption DEF Tokens
<1>3. CASE FinishTriage
  BY <1>1, <1>3, FinishTriageOutbox
<1>4. CASE StartTriage \/ StartRemediation \/ UNCHANGED vars
  BY <1>1, <1>4, QuietOutbox
<1>5. CASE People
  <2>1. CASE \/ LeaveWait \/ RetryTriage \/ HumanLabels \/ \E r \in Rounds : TokenExpires(r)
    BY <1>1, <2>1, QuietOutbox
  <2>2. CASE \E w \in Rows : RetryOutbox(w)
    BY <1>1, <2>2, RetryOutboxOutbox
  <2> QED
    BY <1>1, <1>2, <1>5, <2>1, <2>2, DecisionOutbox DEF People
<1>6. ASSUME NEW e \in Events,
             WebhookArrives(e) \/ ProcessEvent(e) \/ LoadEvent(e) \/ ConfirmEvent(e)
      PROVE  OutboxInv'
  BY <1>1, <1>6, EventOutbox
<1>7. ASSUME NEW l \in Loops, Crash(l) \/ CallFails(l) \/ Dispatch(l)
      PROVE  OutboxInv'
  BY <1>1, <1>7, CrashOutbox, FailLoopOutbox, NotOursOutbox, SlackLoopOutbox, LabelLoopOutbox,
     CommentLoopOutbox DEF Dispatch
<1>8. ASSUME NEW l \in Loops, NEW w \in Rows, Claim(l, w)
      PROVE  OutboxInv'
  BY <1>1, <1>8, ClaimOutbox
<1>9. ASSUME NEW w \in Rows, LeaseLapses(w)
      PROVE  OutboxInv'
  BY <1>1, <1>9, LeaseLapsesOutbox
<1>10. ASSUME NEW r \in Rounds, DeliverUpdate(r)
       PROVE  OutboxInv'
  BY <1>1, <1>10, DeliverUpdateOutbox
<1> QED
  BY <1>3, <1>4, <1>5, <1>6, <1>7, <1>8, <1>9, <1>10 DEF Next

LEMMA OutboxInit == Init => OutboxInv
<1> SUFFICES ASSUME Init PROVE OutboxInv
  OBVIOUS
<1>1. RoundInv
  BY InitRounds
<1>2. NoRow \in OutboxRows /\ NoRow.status = "none" /\ NoRow.attempts = 0
  BY DEF NoRow, OutboxRows
<1>3. budget \in Budgets /\ Losses \in Nat
  BY ConstantsAssumption DEF Init, Budgets, Losses
<1>4. Delivered
  BY <1>2, <1>3 DEF Init, Delivered, EventStatus, CaseState, GENERIC_STATES
<1>5. RowsFollowDecisions
  BY <1>2, RowNames DEF Init, RowsFollowDecisions
<1>6. JobsHaveRows
  BY IdleType DEF Init, JobsHaveRows, InKind
<1>7. ASSUME NEW w \in Rows
      PROVE  Tries(w)
  BY <1>2, <1>3, ConstantsAssumption DEF Init, Tries
<1> QED
  BY <1>1, <1>4, <1>5, <1>6, <1>7 DEF OutboxInv

\* Rows, messages and webhooks are of their types in every reachable state; an outbox row
\* is tried outbox_max_attempts times and once more for every claim that a crash or a slow
\* loop lost (claim() counts before the dispatch); and a status update is only queued for
\* a message that is known (_enqueue_status_update()).
THEOREM TypeCorrect == Spec => []TypeOK
<1>1. OutboxInv => TypeOK
  <2> SUFFICES ASSUME OutboxInv PROVE TypeOK
    OBVIOUS
  <2>1. RoundInv /\ Delivered /\ RowsFollowDecisions
    BY DEF OutboxInv
  <2>2. \A w \in Rows : /\ row[w].status \in {"none", "PENDING", "SENT", "FAILED"}
                        /\ row[w].attempts \in 0..(outbox_max_attempts + MaxCrashes + MaxLapses)
    <3>1. ASSUME NEW w \in Rows
          PROVE  row[w].attempts \in 0..(outbox_max_attempts + MaxCrashes + MaxLapses)
      <4>1. row[w].attempts \in Nat /\ row[w].attempts <= outbox_max_attempts + Losses
        BY <2>1 DEF OutboxInv, Tries, Delivered, OutboxRows
      <4>2. outbox_max_attempts \in Nat /\ Losses \in Nat /\ Losses <= MaxCrashes + MaxLapses
            /\ MaxCrashes \in Nat /\ MaxLapses \in Nat
        BY <2>1, ConstantsAssumption DEF Losses, Delivered, Budgets
      <4> QED
        BY <4>1, <4>2
    <3> QED
      BY <2>1, <3>1 DEF Delivered, OutboxRows
  <2>3. \A l \in Loops : job[l].pc \in PCs /\ job[l].at \in Rows /\ job[l].snap \in Requests
    BY <2>1 DEF RoundInv, Typed, Jobs
  <2>4. update \subseteq {r \in Rounds : req[r].ts # 0}
    BY <2>1 DEF RowsFollowDecisions, Delivered
  <2> QED
    BY <2>1, <2>2, <2>3, <2>4 DEF TypeOK, RoundInv, Typed, Delivered, EventStatus
<1>2. Spec => []OutboxInv
  BY OutboxInit, OutboxNext, PTL DEF Spec
<1> QED
  BY <1>1, <1>2, PTL
-----------------------------------------------------------------------------
(***************************************************************************)
(* What holds as long as no lease lapses under a loop that still works.     *)
(***************************************************************************)

\* The row a loop works on is pending, claimed and nobody else's.
Held ==
    /\ \A l \in Loops : job[l].pc # "idle" =>
         /\ row[job[l].at].status = "PENDING"
         /\ row[job[l].at].claimed_by = worker_id[l]
         /\ ~row[job[l].at].lapsed
    /\ \A l, m \in Loops :
         job[l].pc # "idle" /\ job[m].pc # "idle" /\ job[l].at = job[m].at => l = m

\* A delivery failed only if its row was given up; a comment is preceded by its intent.
GitHubRound(r) ==
    /\ req[r].delivery = "FAILED" => row[Label(r)].status = "FAILED"
    /\ comments[r] <= 1
    /\ comments[r] > 0 => req[r].intent
    /\ req[r].decision = "NONE" => ~req[r].intent

\* The handler that puts the label on is the one that records it, what it has loaded says
\* whether there is an intent, and it posts a comment only where there is none.
GitHubJob(l) ==
    LET r == job[l].at[1]
    IN  /\ job[l].pc \in {"add", "added"} => ~req[r].applied
        /\ job[l].pc = "replay" => req[r].applied
        /\ job[l].pc \in {"add", "added", "replay", "note", "comment", "commented"} =>
             job[l].snap.delivery # "FAILED"
        /\ job[l].pc \in {"add", "added", "replay", "note"} =>
             (job[l].snap.intent <=> req[r].intent)
        /\ job[l].pc = "comment" => comments[r] = 0 /\ req[r].intent

GitHubOnce == (\A r \in Rounds : GitHubRound(r)) /\ (\A l \in Loops : GitHubJob(l))

\* A round has one message, and while the round is open the row has its token.
SlackRound(r) ==
    /\ \A s, t \in Messages(r) : s = t
    /\ req[r].decision = "NONE" => Messages(r) = {}
    /\ req[r].decision = "PENDING" => \A t \in Messages(r) : req[r].token = t
    /\ req[r].ts # 0 => req[r].ts \in Messages(r)

\* The loop that posts a message posts the first.
SlackJob(l) ==
    LET r == job[l].at[1]
    IN  /\ job[l].pc = "post" =>
             /\ Messages(r) = {}
             /\ req[r].decision = "PENDING" => req[r].token = job[l].snap.token
        /\ job[l].pc = "posted" => job[l].snap.token \in Messages(r)

SlackOnce == (\A r \in Rounds : SlackRound(r)) /\ (\A l \in Loops : SlackJob(l))

\* The inductive invariant of GrantHasDelivery, WritesOnce and ButtonsWork.
DeliveryInv == OutboxInv /\ Held /\ GitHubOnce /\ GrantHasDelivery /\ SlackOnce

\* Loops go on as they were, or stop.
LoopsStop == \A m \in Loops : job'[m].pc = "idle" \/ job'[m] = job[m]

LEMMA LoopKeepsHeld ==
    ASSUME OutboxInv, Held, NEW l \in Loops, NEW p, (p # "idle" /\ Goes(l, p)) \/ Done(l)
    PROVE  Held'
<1>1. \A m \in Loops : job[m].at \in Rows
  BY RowOfJob DEF OutboxInv
<1>2. CASE p # "idle" /\ Goes(l, p)
  BY <1>2 DEF Goes, Others, Held
<1>3. CASE Done(l)
  <2>1. LoopsStop /\ job'[l].pc = "idle" /\ job[l].pc # "idle"
        /\ \A m \in Loops : m # l => job'[m] = job[m]
    BY <1>3 DEF Done, Others, LoopsStop
  <2>2. \A w \in Rows : w # job[l].at => row'[w] = row[w]
    BY <1>1, <1>3 DEF Done, Ended, OutboxInv, Delivered
  <2>3. \A m \in Loops : m # l /\ job[m].pc # "idle" => job[m].at # job[l].at
    BY <2>1 DEF Held
  <2> QED
    BY <1>1, <2>1, <2>2, <2>3 DEF Held
<1> QED
  BY <1>2, <1>3

\* A step that leaves the rows of the loops at work alone.
LEMMA RowsStayHeld ==
    ASSUME Held, LoopsStop,
           \A m \in Loops : job[m].pc # "idle" => row'[job[m].at] = row[job[m].at]
    PROVE  Held'
BY DEF Held, LoopsStop

\* A row that starts over was not worked on.
LEMMA RestartsAreHeld ==
    ASSUME OutboxInv, Held, UNCHANGED job, NEW w \in Rows, row' = [row EXCEPT ![w] = Fresh],
           row[w].status # "PENDING"
    PROVE  Held'
<1>1. \A m \in Loops : job[m].at \in Rows
  BY RowOfJob DEF OutboxInv
<1>2. \A m \in Loops : job[m].pc # "idle" => job[m].at # w
  BY DEF Held
<1> QED
  BY <1>1, <1>2, RowsStayHeld DEF LoopsStop, OutboxInv, Delivered

LEMMA ClaimHeld ==
    ASSUME OutboxInv, Held, NEW l \in Loops, NEW w \in Rows, Claim(l, w)
    PROVE  Held' /\ job'[l].pc = "claimed" /\ Others(l)
<1> DEFINE a == row[w].attempts + 1
           n == [row[w] EXCEPT !.attempts = a, !.claimed_by = worker_id[l], !.lapsed = FALSE]
           j == [Idle EXCEPT !.pc = "claimed", !.at = w]
<1>1. /\ row \in [Rows -> OutboxRows] /\ row[w] \in OutboxRows /\ job \in [Loops -> Jobs]
      /\ \A m \in Loops : job[m].at \in Rows
  BY RowOfJob DEF OutboxInv, Delivered, RoundInv, Typed
<1>2. /\ row' = [row EXCEPT ![w] = n] /\ job' = [job EXCEPT ![l] = j]
      /\ row[w].status = "PENDING" /\ Free(w)
  BY <1>1 DEF Claim
<1>3. n.status = row[w].status /\ n.claimed_by = worker_id[l] /\ ~n.lapsed
  BY <1>1 DEF OutboxRows
<1>4. j \in Jobs /\ j.pc = "claimed" /\ j.at = w
  BY IdleType DEF Jobs, PCs
<1> HIDE DEF n, j
<1>5. \A m \in Loops : job[m].pc # "idle" => job[m].at # w
  BY <1>2, ConstantsAssumption DEF Held, Free
<1>6. /\ row'[w] = n /\ \A v \in Rows : v # w => row'[v] = row[v]
      /\ job'[l] = j /\ \A m \in Loops : m # l => job'[m] = job[m]
      /\ job' \in [Loops -> Jobs]
  BY <1>1, <1>2, <1>4
<1> QED
  BY <1>1, <1>2, <1>3, <1>4, <1>5, <1>6 DEF Held, Others

LEMMA LeaseLapsesHeld ==
    ASSUME MaxLapses = 0, OutboxInv, Held, NEW w \in Rows, LeaseLapses(w)
    PROVE  Held'
<1>1. budget.lapses = 0
  BY DEF OutboxInv, Delivered, Budgets
<1>2. \A m \in Loops : job[m].pc # "idle" => job[m].at # w
  BY <1>1 DEF LeaseLapses, Spend
<1>3. \A v \in Rows : v # w => row'[v] = row[v]
  BY DEF LeaseLapses, OutboxInv, Delivered
<1>4. \A m \in Loops : job[m].at \in Rows
  BY RowOfJob DEF OutboxInv
<1>5. LoopsStop
  BY DEF LeaseLapses, LoopsStop
<1> QED
  BY <1>2, <1>3, <1>4, <1>5, RowsStayHeld

LEMMA StoppedHeld ==
    ASSUME OutboxInv, Held, NEW l \in Loops, Crash(l) \/ NotOurs(l)
    PROVE  Held' /\ LoopsStop
<1>1. LoopsStop /\ UNCHANGED row
  BY IdleType DEF Crash, NotOurs, LoopsStop, OutboxInv, RoundInv, Typed
<1> QED
  BY <1>1, RowsStayHeld
-----------------------------------------------------------------------------
\* Two loops never work for one round on GitHub, nor in Slack.
LEMMA Apart ==
    ASSUME OutboxInv, Held, NEW l \in Loops, NEW m \in Loops, l # m,
           job[l].pc # "idle", job[m].pc # "idle",
           job[l].at[2] = "slack_approval_request" <=> job[m].at[2] = "slack_approval_request"
    PROVE  job[l].at[1] # job[m].at[1]
<1>1. RoundInv /\ Delivered /\ RowsFollowDecisions /\ JobsHaveRows
  BY DEF OutboxInv
<1>2. job[l].at \in Rows /\ job[m].at \in Rows /\ job[l].at # job[m].at
  BY <1>1, RowOfJob DEF Held
<1>3. job[l].at[2] = job[m].at[2] => job[l].at[1] # job[m].at[1]
  BY <1>2 DEF Rows
<1>4. {job[l].at[2], job[m].at[2]} \subseteq Kinds
  BY <1>2 DEF Rows
<1>5. ASSUME job[l].at[1] = job[m].at[1]
      PROVE  job[l].at[2] = job[m].at[2]
  BY <1>1, <1>4, <1>5, RoundOfJob DEF Kinds
<1> QED
  BY <1>3, <1>5

\* The steps of a handler that need nothing of GitHubOnce.
Aside == {"idle", "claimed", "post", "posted", "fail"}

\* A step that changes nothing a handler at GitHub relies on.
LEMMA GitHubKept ==
    ASSUME OutboxInv, GitHubOnce, UNCHANGED comments,
           \A m \in Loops : job'[m] = job[m] \/ job'[m].pc \in Aside,
           \A q \in Rounds :
             /\ req[q].decision # "NONE" => (req'[q].applied <=> req[q].applied)
             /\ req'[q].intent <=> req[q].intent
             /\ req'[q].decision = "NONE" => req[q].decision = "NONE"
             /\ req'[q].delivery = "FAILED" => row'[Label(q)].status = "FAILED"
    PROVE  GitHubOnce'
<1>1. RoundInv /\ Delivered /\ RowsFollowDecisions /\ JobsHaveRows
  BY DEF OutboxInv
<1>2. \A q \in Rounds : GitHubRound(q)'
  BY DEF GitHubOnce, GitHubRound, Label
<1>3. ASSUME NEW m \in Loops
      PROVE  GitHubJob(m)'
  <2>1. CASE job'[m].pc \in Aside
    BY <2>1 DEF GitHubJob, Aside
  <2>2. CASE job'[m] = job[m] /\ job[m].pc \notin Aside
    <3>1. job[m].at[1] \in Rounds /\ req[job[m].at[1]].decision # "NONE"
      BY <1>1, <2>2, RoundOfJob DEF Aside
    <3> QED
      BY <2>2, <3>1 DEF GitHubOnce, GitHubJob
  <2> QED
    BY <2>1, <2>2
<1> QED
  BY <1>2, <1>3 DEF GitHubOnce

\* A step of a handler at GitHub: what it has to show is about its own round.
LEMMA GitHubLoop ==
    ASSUME OutboxInv, Held, GitHubOnce, SameDecisions,
           NEW l \in Loops, NEW p, (p # "idle" /\ Goes(l, p)) \/ Done(l),
           NEW r \in Rounds, r = job[l].at[1], job[l].at[2] # "slack_approval_request",
           OneRound(r), \A q \in Rounds : q # r => comments'[q] = comments[q],
           req'[r].delivery = "FAILED" => row'[Label(r)].status = "FAILED",
           comments'[r] <= 1, comments'[r] > 0 => req'[r].intent,
           GitHubJob(l)'
    PROVE  GitHubOnce'
<1>1. RoundInv /\ Delivered /\ RowsFollowDecisions /\ JobsHaveRows
  BY DEF OutboxInv
<1>2. /\ job[l].pc # "idle" /\ Others(l) /\ job[l].at \in Rows
      /\ \A w \in Rows : w # job[l].at => row'[w] = row[w]
  BY <1>1, RowOfJob DEF Goes, Done, Ended, Delivered
<1>3. GitHubRound(r)'
  <2>1. req'[r].decision # "NONE"
    BY <1>1, <1>2, RoundOfJob DEF SameDecisions
  <2> QED
    BY <2>1 DEF GitHubRound, Label
<1>4. ASSUME NEW q \in Rounds, q # r
      PROVE  GitHubRound(q)'
  <2>1. Label(q) \in Rows /\ Label(q) # job[l].at
    BY <1>4, RowNames DEF Label
  <2> QED
    BY <1>2, <1>4, <2>1 DEF GitHubOnce, GitHubRound, OneRound, Label
<1>5. ASSUME NEW m \in Loops, m # l
      PROVE  GitHubJob(m)'
  <2>1. job'[m] = job[m]
    BY <1>2, <1>5 DEF Others
  <2>2. CASE job[m].pc \in Aside
    BY <2>1, <2>2 DEF GitHubJob, Aside
  <2>3. CASE job[m].pc \notin Aside
    <3>1. job[m].pc # "idle" /\ job[m].at[1] \in Rounds
          /\ job[m].at[2] # "slack_approval_request"
      BY <1>1, <2>3, JobRow DEF Aside, JobsHaveRows, InKind, RoundInv, Typed, Jobs, PCs
    <3>2. job[m].at[1] # r
      BY <1>2, <1>5, <3>1, Apart
    <3> QED
      BY <2>1, <3>1, <3>2 DEF GitHubOnce, GitHubJob, OneRound
  <2> QED
    BY <2>2, <2>3
<1> QED
  BY <1>3, <1>4, <1>5 DEF GitHubOnce

LEMMA SlackLoopGitHub ==
    ASSUME OutboxInv, Held, GitHubOnce, NEW l \in Loops,
           BeginNotify(l) \/ Post(l) \/ MarkNotified(l)
    PROVE  GitHubOnce' /\ Held'
<1>1. RoundInv /\ Delivered /\ RowsFollowDecisions /\ JobsHaveRows
  BY DEF OutboxInv
<1> DEFINE r == job[l].at[1]
<1>2. r \in Rounds /\ job[l].at \in Rows /\ InKind(job[l])
  BY <1>1, RowOfJob DEF JobsHaveRows
<1> HIDE DEF r
<1>3. /\ OneRound(r) /\ SameGitHub(r) /\ job[l].at[2] = "slack_approval_request"
      /\ UNCHANGED <<state, attempt, labelled, comments>>
      /\ Done(l) \/ Goes(l, "post") \/ Goes(l, "posted")
  <2>1. CASE BeginNotify(l)
    BY <1>1, <1>2, <2>1, BeginNotifyDoes DEF r, BeginNotify, github
  <2>2. CASE Post(l)
    BY <1>1, <1>2, <2>2, PostDoes DEF Post, InKind, OneRound, SameGitHub, github
  <2>3. CASE MarkNotified(l)
    BY <1>1, <1>2, <2>3, MarkNotifiedDoes DEF r, MarkNotified, InKind, github
  <2> QED
    BY <2>1, <2>2, <2>3
<1>4. SameDecisions
  BY <1>1, BeginNotifyStep, PostStep, MarkNotifiedStep DEF OutboxStep
<1>5. Held'
  BY <1>3, LoopKeepsHeld
<1>6. \A m \in Loops : job'[m] = job[m] \/ job'[m].pc \in Aside
  BY <1>3 DEF Goes, Done, Others, Aside
<1>7. \A q \in Rounds : SameGitHub(q)
  BY <1>3 DEF OneRound, SameGitHub
<1>8. \A q \in Rounds : row'[Label(q)] = row[Label(q)]
  <2>1. \A q \in Rounds : Label(q) \in Rows /\ Label(q)[2] = "apply_remediation_label"
    BY RowNames DEF Label
  <2> QED
    BY <1>1, <1>2, <1>3, <2>1 DEF Goes, Done, Ended, Delivered
<1>9. \A q \in Rounds : req'[q].delivery = "FAILED" => row'[Label(q)].status = "FAILED"
  BY <1>7, <1>8 DEF GitHubOnce, GitHubRound, SameGitHub
<1>10. GitHubOnce'
  BY <1>3, <1>4, <1>6, <1>7, <1>9, GitHubKept DEF SameGitHub, SameDecisions
<1> QED
  BY <1>5, <1>10

LEMMA LabelLoopGitHub ==
    ASSUME OutboxInv, Held, GitHubOnce, NEW l \in Loops,
           BeginLabel(l) \/ AddLabel(l) \/ CommitLabel(l) \/ Replay(l)
    PROVE  GitHubOnce' /\ Held'
<1>1. RoundInv /\ Delivered /\ RowsFollowDecisions /\ JobsHaveRows
  BY DEF OutboxInv
<1> DEFINE r == job[l].at[1]
<1>2. r \in Rounds /\ job[l].at \in Rows /\ InKind(job[l]) /\ job[l].pc # "idle"
  BY <1>1, RowOfJob
  DEF JobsHaveRows, BeginLabel, AddLabel, CommitLabel, Replay, Ours
<1>3. /\ job[l].at[2] = "apply_remediation_label" /\ job[l].at = Label(r)
      /\ row[Label(r)].status = "PENDING"
  <2>1. job[l].at[2] = "apply_remediation_label"
    BY <1>2 DEF InKind, BeginLabel, AddLabel, CommitLabel, Replay, Ours
  <2>2. job[l].at = Label(r)
    BY <1>2, <2>1 DEF Rows, Label
  <2> QED
    BY <1>2, <2>1, <2>2 DEF Held
<1>4. req[r].delivery # "FAILED" /\ GitHubRound(r) /\ GitHubJob(l)
  BY <1>2, <1>3 DEF GitHubOnce, GitHubRound
<1>5. SameDecisions /\ UNCHANGED comments
  BY <1>1, BeginLabelStep, AddLabelStep, CommitLabelStep, ReplayStep
  DEF OutboxStep, BeginLabel, AddLabel, CommitLabel, Replay, github
<1>6. req[r] \in Requests /\ \A m \in Loops : job[m] \in Jobs
  BY <1>1, <1>2 DEF RoundInv, Typed
<1>7. ASSUME NEW p, p # "idle", Goes(l, p), OneRound(r), req'[r].delivery # "FAILED",
             req'[r].intent <=> req[r].intent, GitHubJob(l)'
      PROVE  GitHubOnce' /\ Held'
  <2>1. Held'
    BY <1>7, LoopKeepsHeld
  <2>2. comments'[r] <= 1 /\ (comments'[r] > 0 => req'[r].intent)
    BY <1>4, <1>5, <1>7 DEF GitHubRound
  <2> QED
    BY <1>2, <1>3, <1>5, <1>7, <2>1, <2>2, GitHubLoop DEF r
<1>8. ASSUME NEW p, Goes(l, p)
      PROVE  job'[l].pc = p /\ job'[l].at[1] = r
  BY <1>8 DEF Goes, r
<1>9. CASE BeginLabel(l)
  <2>1. /\ OneRound(r) /\ (req'[r].intent <=> req[r].intent)
        /\ \/ Goes(l, "fail") /\ UNCHANGED req
           \/ Goes(l, "note") /\ UNCHANGED req /\ job'[l].snap = req[r]
           \/ /\ Goes(l, "replay") /\ job'[l].snap = req'[r] /\ req'[r].applied
              /\ req'[r].delivery = "LABEL_APPLIED"
           \/ Goes(l, "add") /\ job'[l].snap = req'[r] /\ ~req[r].applied /\ SameGitHub(r)
    BY <1>1, <1>2, <1>9, BeginLabelDoes DEF r
  <2> HIDE DEF r
  <2>2. CASE Goes(l, "fail") /\ UNCHANGED req
    BY <1>4, <1>7, <1>8, <2>1, <2>2 DEF GitHubJob
  <2>3. CASE Goes(l, "note") /\ UNCHANGED req /\ job'[l].snap = req[r]
    BY <1>4, <1>7, <1>8, <2>1, <2>3 DEF GitHubJob
  <2>4. CASE /\ Goes(l, "replay") /\ job'[l].snap = req'[r] /\ req'[r].applied
             /\ req'[r].delivery = "LABEL_APPLIED"
    BY <1>4, <1>7, <1>8, <2>1, <2>4 DEF GitHubJob
  <2>5. CASE /\ Goes(l, "add") /\ job'[l].snap = req'[r] /\ ~req[r].applied
             /\ SameGitHub(r)
    <3>1. req'[r].delivery = req[r].delivery /\ ~req'[r].applied
      BY <2>5 DEF SameGitHub
    <3> QED
      BY <1>4, <1>7, <1>8, <2>1, <2>5, <3>1 DEF GitHubJob
  <2> QED
    BY <2>1, <2>2, <2>3, <2>4, <2>5
<1>10. CASE AddLabel(l)
  <2>1. Goes(l, "added") /\ job'[l].snap = job[l].snap /\ UNCHANGED req /\ job[l].pc = "add"
    BY <1>1, <1>10, AddLabelDoes DEF AddLabel
  <2>2. GitHubJob(l)'
    BY <1>4, <1>8, <2>1 DEF GitHubJob, r
  <2> HIDE DEF r
  <2> QED
    BY <1>4, <1>7, <2>1, <2>2 DEF OneRound
<1>11. CASE CommitLabel(l)
  <2>1. /\ Goes(l, "replay") /\ OneRound(r) /\ job[l].pc = "added"
        /\ req'[r].applied /\ req'[r].delivery = "LABEL_APPLIED"
        /\ req'[r].intent <=> req[r].intent
        /\ job'[l].snap.intent <=> job[l].snap.intent
        /\ job'[l].snap.delivery = "LABEL_APPLIED"
    BY <1>1, <1>2, <1>11, CommitLabelDoes DEF r, CommitLabel
  <2>2. GitHubJob(l)'
    BY <1>4, <1>8, <2>1 DEF GitHubJob, r
  <2> HIDE DEF r
  <2> QED
    BY <1>4, <1>7, <2>1, <2>2
<1>12. CASE Replay(l)
  <2>1. /\ Goes(l, "note") /\ job'[l].snap = job[l].snap /\ OneRound(r)
        /\ req'[r].intent <=> req[r].intent
        /\ UNCHANGED req \/ req'[r].delivery = "CONFIRMED"
        /\ job[l].pc = "replay"
    BY <1>1, <1>2, <1>12, ReplayDoes DEF r, Replay
  <2>2. GitHubJob(l)'
    BY <1>4, <1>8, <2>1 DEF GitHubJob, r
  <2> HIDE DEF r
  <2> QED
    BY <1>4, <1>7, <2>1, <2>2
<1> QED
  BY <1>9, <1>10, <1>11, <1>12

LEMMA CommentedGitHub ==
    ASSUME OutboxInv, Held, GitHubOnce, NEW l \in Loops, Commented(l),
           job[l].pc \in {"note", "commented"}, UNCHANGED <<attempt, state, comments>>
    PROVE  GitHubOnce' /\ Held'
<1>1. RoundInv /\ Delivered /\ RowsFollowDecisions /\ JobsHaveRows
  BY DEF OutboxInv
<1> DEFINE r == job[l].at[1]
<1>2. r \in Rounds /\ job[l].at \in Rows /\ InKind(job[l]) /\ job[l].pc # "idle"
      /\ row[job[l].at].status = "PENDING"
  BY <1>1, RowOfJob DEF JobsHaveRows, Held
<1>3. job[l].at[2] # "slack_approval_request" /\ GitHubJob(l) /\ GitHubRound(r)
      /\ job[l].snap.delivery # "FAILED"
  BY <1>2 DEF InKind, GitHubOnce, GitHubJob
<1>4. /\ Done(l) /\ OneRound(r) /\ (req'[r].intent <=> req[r].intent)
      /\ req'[r].delivery \in {req[r].delivery, "CONFIRMED"}
  BY <1>1, <1>2, <1>3, CommentedDoes
<1>5. SameDecisions
  BY <1>1, CommentedStep DEF OutboxStep
<1>6. req[r].delivery # "FAILED"
  <2>1. job[l].at = Label(r) \/ job[l].at = Rejection(r)
    BY <1>2, <1>3 DEF Rows, Kinds, Label, Rejection
  <2>2. CASE job[l].at = Label(r)
    BY <1>2, <1>3, <2>2 DEF GitHubRound
  <2>3. CASE job[l].at = Rejection(r)
    <3>1. row[Label(r)].status = "none"
      BY <1>1, <1>2, <2>3 DEF RowsFollowDecisions
    <3> QED
      BY <1>3, <3>1 DEF GitHubRound
  <2> QED
    BY <2>1, <2>2, <2>3
<1>7. Held'
  BY <1>4, LoopKeepsHeld
<1>8. GitHubJob(l)'
  BY <1>4 DEF Done, GitHubJob
<1>9. comments'[r] <= 1 /\ (comments'[r] > 0 => req'[r].intent)
  BY <1>3, <1>4 DEF GitHubRound
<1>10. req'[r].delivery # "FAILED"
  BY <1>4, <1>6
<1> HIDE DEF r
<1> QED
  BY <1>2, <1>3, <1>4, <1>5, <1>7, <1>8, <1>9, <1>10, GitHubLoop DEF r

LEMMA CommentLoopGitHub ==
    ASSUME OutboxInv, Held, GitHubOnce, NEW l \in Loops,
           EnsureComment(l) \/ CreateComment(l) \/ RecordComment(l) \/ BeginRejection(l)
    PROVE  GitHubOnce' /\ Held'
<1>1. RoundInv /\ Delivered /\ RowsFollowDecisions /\ JobsHaveRows
  BY DEF OutboxInv
<1> DEFINE r == job[l].at[1]
<1>2. r \in Rounds /\ job[l].at \in Rows /\ InKind(job[l]) /\ job[l].pc # "idle"
      /\ row[job[l].at].status = "PENDING" /\ comments[r] \in Nat
      /\ comments \in [Rounds -> Nat]
  BY <1>1, RowOfJob
  DEF JobsHaveRows, Held, Delivered, EnsureComment, CreateComment, RecordComment, BeginRejection,
      Ours
<1>3. job[l].at[2] # "slack_approval_request" /\ GitHubJob(l) /\ GitHubRound(r)
  BY <1>2 DEF InKind, GitHubOnce, EnsureComment, CreateComment, RecordComment, BeginRejection, Ours
<1>4. SameDecisions
  BY <1>1, EnsureCommentStep, CreateCommentStep, RecordCommentStep, BeginRejectionStep
  DEF OutboxStep
<1>5. req[r].delivery # "FAILED"
  <2>1. job[l].at = Label(r) \/ job[l].at = Rejection(r)
    BY <1>2, <1>3 DEF Rows, Kinds, Label, Rejection
  <2>2. CASE job[l].at = Label(r)
    BY <1>2, <1>3, <2>2 DEF GitHubRound
  <2>3. CASE job[l].at = Rejection(r)
    <3>1. row[Label(r)].status = "none"
      BY <1>1, <1>2, <2>3 DEF RowsFollowDecisions
    <3> QED
      BY <1>3, <3>1 DEF GitHubRound
  <2> QED
    BY <2>1, <2>2, <2>3
<1>6. ASSUME NEW p, (p # "idle" /\ Goes(l, p)) \/ Done(l), OneRound(r),
             req'[r].delivery # "FAILED", \A q \in Rounds : q # r => comments'[q] = comments[q],
             comments'[r] <= 1, comments'[r] > 0 => req'[r].intent, GitHubJob(l)'
      PROVE  GitHubOnce' /\ Held'
  <2>1. Held'
    BY <1>6, LoopKeepsHeld
  <2> HIDE DEF r
  <2> QED
    BY <1>2, <1>3, <1>4, <1>6, <2>1, GitHubLoop DEF r
<1>7. ASSUME NEW p, Goes(l, p)
      PROVE  job'[l].pc = p /\ job'[l].at[1] = r
  BY <1>7 DEF Goes
<1>8. CASE EnsureComment(l)
  <2>1. UNCHANGED <<attempt, state, comments>> /\ job[l].pc = "note"
    BY <1>8 DEF EnsureComment, github
  <2>2. \/ Commented(l)
        \/ /\ Goes(l, "comment") /\ job'[l].snap = job[l].snap /\ UNCHANGED req
           /\ job[l].snap.intent /\ ~FoundComment(r)
        \/ /\ Goes(l, "comment") /\ job'[l].snap = job[l].snap /\ OneRound(r)
           /\ req'[r].intent /\ ~job[l].snap.intent
           /\ req'[r].delivery \in {req[r].delivery, "CONFIRMED"}
    BY <1>1, <1>2, <1>8, EnsureCommentDoes
  <2>3. /\ job[l].snap.delivery # "FAILED" /\ (job[l].snap.intent <=> req[r].intent)
        /\ comments[r] > 0 => req[r].intent
    BY <1>3, <2>1 DEF GitHubJob, GitHubRound
  <2>4. CASE Commented(l)
    BY <2>1, <2>4, CommentedGitHub
  <2> HIDE DEF r
  <2>5. CASE /\ Goes(l, "comment") /\ job'[l].snap = job[l].snap /\ UNCHANGED req
             /\ job[l].snap.intent /\ ~FoundComment(r)
    <3>1. comments[r] = 0 /\ req[r].intent
      BY <1>2, <2>3, <2>5 DEF FoundComment
    <3>2. GitHubJob(l)'
      BY <1>7, <2>1, <2>3, <2>5, <3>1 DEF GitHubJob
    <3> QED
      BY <1>5, <1>6, <2>1, <2>5, <3>1, <3>2 DEF OneRound
  <2>6. CASE /\ Goes(l, "comment") /\ job'[l].snap = job[l].snap /\ OneRound(r)
             /\ req'[r].intent /\ ~job[l].snap.intent
             /\ req'[r].delivery \in {req[r].delivery, "CONFIRMED"}
    <3>1. comments[r] = 0
      BY <1>2, <2>3, <2>6
    <3>2. GitHubJob(l)'
      BY <1>7, <2>1, <2>3, <2>6, <3>1 DEF GitHubJob
    <3> QED
      BY <1>5, <1>6, <2>1, <2>6, <3>1, <3>2
  <2> QED
    BY <2>2, <2>4, <2>5, <2>6
<1>9. CASE CreateComment(l)
  <2>1. /\ Goes(l, "commented") /\ job'[l].snap = job[l].snap /\ UNCHANGED req
        /\ job[l].pc = "comment"
        /\ comments' = [comments EXCEPT ![r] = @ + 1]
    BY <1>1, <1>9, CreateCommentDoes DEF CreateComment
  <2>2. comments[r] = 0 /\ req[r].intent /\ job[l].snap.delivery # "FAILED"
    BY <1>3, <2>1 DEF GitHubJob
  <2> HIDE DEF r
  <2>3. comments'[r] = 1 /\ \A q \in Rounds : q # r => comments'[q] = comments[q]
    BY <1>2, <2>1, <2>2
  <2>4. GitHubJob(l)'
    BY <1>7, <2>1, <2>2 DEF GitHubJob
  <2>5. comments'[r] <= 1 /\ req'[r].intent /\ req'[r].delivery # "FAILED" /\ OneRound(r)
    BY <1>5, <2>1, <2>2, <2>3 DEF OneRound
  <2> QED
    BY <1>6, <2>1, <2>3, <2>4, <2>5
<1>10. CASE RecordComment(l)
  BY <1>10, CommentedGitHub DEF RecordComment, github
<1>11. CASE BeginRejection(l)
  <2>1. /\ UNCHANGED <<req, comments>>
        /\ \/ Goes(l, "fail")
           \/ Done(l)
           \/ Goes(l, "note") /\ job'[l].snap = req[r]
    BY <1>1, <1>2, <1>11, BeginRejectionDoes DEF BeginRejection, github
  <2>2. comments[r] <= 1 /\ (comments[r] > 0 => req[r].intent)
    BY <1>3 DEF GitHubRound
  <2> HIDE DEF r
  <2>3. GitHubJob(l)'
    BY <1>5, <1>7, <2>1 DEF GitHubJob, Done
  <2>4. OneRound(r)
    BY <2>1 DEF OneRound
  <2> QED
    BY <1>5, <1>6, <2>1, <2>2, <2>3, <2>4
<1> QED
  BY <1>8, <1>9, <1>10, <1>11

LEMMA FailLoopGitHub ==
    ASSUME OutboxInv, Held, GitHubOnce, NEW l \in Loops, CallFails(l) \/ Fail(l)
    PROVE  GitHubOnce' /\ Held'
<1>1. RoundInv /\ Delivered /\ RowsFollowDecisions /\ JobsHaveRows
  BY DEF OutboxInv
<1>2. SameDecisions /\ UNCHANGED comments
  BY <1>1, CallFailsStep, FailStep DEF OutboxStep, CallFails, Fail, github
<1>3. CASE CallFails(l)
  <2>1. Goes(l, "fail") /\ UNCHANGED req
    BY <1>1, <1>3, CallFailsDoes
  <2>2. UNCHANGED row /\ \A m \in Loops : job'[m] = job[m] \/ job'[m].pc \in Aside
    BY <2>1 DEF Goes, Others, Aside
  <2>3. GitHubOnce'
    BY <1>2, <2>1, <2>2, GitHubKept DEF GitHubOnce, GitHubRound
  <2> QED
    BY <2>1, <2>3, LoopKeepsHeld
<1>4. CASE Fail(l)
  <2> DEFINE r == job[l].at[1]
  <2>1. r \in Rounds /\ job[l].at \in Rows /\ row[job[l].at].status = "PENDING"
    BY <1>1, <1>4, RowOfJob DEF Held, Fail
  <2>2. /\ Done(l) /\ OneRound(r)
        /\ req'[r].intent <=> req[r].intent
        /\ req'[r].applied <=> req[r].applied
        /\ \/ req'[r].delivery = req[r].delivery
           \/ job[l].at = Label(r) /\ row'[job[l].at].status = "FAILED"
    BY <1>1, <1>4, <2>1, FailDoes
  <2>3. \A m \in Loops : job'[m] = job[m] \/ job'[m].pc \in Aside
    BY <2>2 DEF Done, Others, Aside
  <2>4. \A w \in Rows : w # job[l].at => row'[w] = row[w]
    BY <1>1, <2>1, <2>2 DEF Done, Ended, Delivered
  <2>5. ASSUME NEW q \in Rounds, req'[q].delivery = "FAILED"
        PROVE  row'[Label(q)].status = "FAILED"
    <3>1. Label(q) \in Rows /\ (job[l].at = Label(q) => q = r)
      BY RowNames DEF Label
    <3>2. CASE job[l].at = Label(q)
      BY <2>1, <2>2, <2>5, <3>1, <3>2 DEF GitHubOnce, GitHubRound
    <3>3. CASE job[l].at # Label(q)
      <4>1. req'[q].delivery = req[q].delivery
        BY <2>2, <3>3 DEF OneRound
      <4> QED
        BY <2>4, <2>5, <3>1, <3>3, <4>1 DEF GitHubOnce, GitHubRound
    <3> QED
      BY <3>2, <3>3
  <2>6. \A q \in Rounds : /\ req'[q].intent <=> req[q].intent
                          /\ req'[q].applied <=> req[q].applied
    BY <2>2 DEF OneRound
  <2>7. GitHubOnce'
    BY <1>2, <2>3, <2>5, <2>6, GitHubKept DEF SameDecisions
  <2> QED
    BY <2>2, <2>7, LoopKeepsHeld
<1> QED
  BY <1>3, <1>4

LEMMA LeasesGitHub ==
    ASSUME MaxLapses = 0, OutboxInv, Held, GitHubOnce,
           \/ \E l \in Loops : Crash(l) \/ NotOurs(l)
           \/ \E l \in Loops, w \in Rows : Claim(l, w)
           \/ \E w \in Rows : LeaseLapses(w)
    PROVE  GitHubOnce' /\ Held'
<1>1. UNCHANGED <<req, comments>>
  BY DEF Crash, NotOurs, Claim, LeaseLapses, github
<1>2. \A m \in Loops : job'[m] = job[m] \/ job'[m].pc \in Aside
  <2>1. ASSUME NEW l \in Loops, NEW w \in Rows, Claim(l, w)
        PROVE  \A m \in Loops : job'[m] = job[m] \/ job'[m].pc \in Aside
    BY <2>1, ClaimHeld DEF Others, Aside
  <2>2. ASSUME NEW l \in Loops, Crash(l) \/ NotOurs(l)
        PROVE  \A m \in Loops : job'[m] = job[m] \/ job'[m].pc \in Aside
    BY <2>2, StoppedHeld DEF LoopsStop, Aside
  <2>3. ASSUME NEW w \in Rows, LeaseLapses(w)
        PROVE  UNCHANGED job
    BY <2>3 DEF LeaseLapses
  <2> QED
    BY <2>1, <2>2, <2>3
<1>3. \A v \in Rows : row'[v].status = row[v].status
  <2>1. row \in [Rows -> OutboxRows]
    BY DEF OutboxInv, Delivered
  <2>2. ASSUME NEW l \in Loops, NEW w \in Rows, Claim(l, w)
        PROVE  \A v \in Rows : row'[v].status = row[v].status
    BY <2>1, <2>2 DEF Claim, OutboxRows
  <2>3. ASSUME NEW w \in Rows, LeaseLapses(w)
        PROVE  \A v \in Rows : row'[v].status = row[v].status
    BY <2>1, <2>3 DEF LeaseLapses, OutboxRows
  <2>4. ASSUME NEW l \in Loops, Crash(l) \/ NotOurs(l)
        PROVE  UNCHANGED row
    BY <2>4 DEF Crash, NotOurs
  <2> QED
    BY <2>2, <2>3, <2>4
<1>4. \A q \in Rounds : req'[q].delivery = "FAILED" => row'[Label(q)].status = "FAILED"
  BY <1>1, <1>3, RowNames DEF GitHubOnce, GitHubRound
<1>5. GitHubOnce'
  BY <1>1, <1>2, <1>4, GitHubKept
<1> QED
  BY <1>5, StoppedHeld, ClaimHeld, LeaseLapsesHeld

LEMMA EventGitHub ==
    ASSUME OutboxInv, Held, GitHubOnce, NEW e \in Events,
           WebhookArrives(e) \/ ProcessEvent(e) \/ LoadEvent(e) \/ ConfirmEvent(e)
    PROVE  GitHubOnce' /\ Held'
<1>1. RoundInv
  BY DEF OutboxInv
<1>2. UNCHANGED <<job, row, comments>>
  BY DEF WebhookArrives, ProcessEvent, LoadEvent, ConfirmEvent, Confirm, github
<1>3. \A q \in Rounds :
        /\ req'[q].applied <=> req[q].applied
        /\ req'[q].intent <=> req[q].intent
        /\ req'[q].delivery \in {req[q].delivery, "CONFIRMED"}
        /\ req'[q].decision = req[q].decision
  <2>1. ASSUME NEW s, Confirm(e, s)
        PROVE  /\ SameDecisions
               /\ UNCHANGED req
                  \/ /\ OneRound(Newest) /\ req'[Newest].delivery = "CONFIRMED"
                     /\ req'[Newest].applied <=> req[Newest].applied
                     /\ req'[Newest].intent <=> req[Newest].intent
    BY <1>1, <2>1, ConfirmDoes, ConfirmStep DEF OutboxStep
  <2>2. CASE UNCHANGED req
    BY <2>2
  <2>3. CASE ~UNCHANGED req
    <3>1. /\ SameDecisions /\ OneRound(Newest) /\ req'[Newest].delivery = "CONFIRMED"
          /\ req'[Newest].applied <=> req[Newest].applied
          /\ req'[Newest].intent <=> req[Newest].intent
      BY <2>1, <2>3 DEF WebhookArrives, ProcessEvent, LoadEvent, ConfirmEvent
    <3> QED
      BY <3>1 DEF OneRound, SameDecisions
  <2> QED
    BY <2>2, <2>3
<1>4. GitHubOnce'
  BY <1>2, <1>3, GitHubKept DEF GitHubOnce, GitHubRound
<1> QED
  BY <1>2, <1>4, RowsStayHeld DEF LoopsStop

LEMMA DecisionGitHub ==
    ASSUME OutboxInv, Held, GitHubOnce, NEW r \in Rounds, NEW t \in Tokens,
           ClickApprove(r, t) \/ ClickReject(r, t) \/ ClickExpired(r, t) \/ ExpireApproval(r)
    PROVE  GitHubOnce' /\ Held'
<1>1. RoundInv /\ Delivered /\ RowsFollowDecisions
  BY DEF OutboxInv
<1>2. UNCHANGED <<job, comments>>
  BY DEF ClickApprove, ClickReject, ClickExpired, ExpireApproval, github
<1>3. /\ OneRound(r) /\ (req'[r].intent <=> req[r].intent)
      /\ req'[r].applied <=> req[r].applied
      /\ req[r].decision = "PENDING" /\ req'[r].decision # "NONE"
      /\ req'[r].delivery \in {"PENDING", "NOT_REQUESTED", req[r].delivery}
      /\ \/ row' = [row EXCEPT ![Label(r)] = Fresh]
         \/ row' = [row EXCEPT ![Rejection(r)] = Fresh]
         \/ UNCHANGED row
  BY <1>1, DecisionDoes
<1>4. row[Label(r)].status = "none" /\ row[Rejection(r)].status = "none"
  BY <1>1, <1>3 DEF RowsFollowDecisions
<1>5. Held'
  BY <1>2, <1>3, <1>4, RowNames, RestartsAreHeld, RowsStayHeld DEF LoopsStop
<1>6. ASSUME NEW q \in Rounds, req'[q].delivery = "FAILED"
      PROVE  row'[Label(q)].status = "FAILED"
  <2>1. q # r
    BY <1>3, <1>4, <1>6 DEF GitHubOnce, GitHubRound
  <2>2. Label(q) \in Rows /\ Label(q) \notin {Label(r), Rejection(r)}
    BY <2>1, RowNames
  <2>3. row'[Label(q)] = row[Label(q)]
    BY <1>1, <1>3, <2>2 DEF Delivered
  <2> QED
    BY <1>3, <1>6, <2>1, <2>3 DEF OneRound, GitHubOnce, GitHubRound
<1>7. GitHubOnce'
  BY <1>2, <1>3, <1>6, GitHubKept DEF OneRound
<1> QED
  BY <1>5, <1>7

LEMMA RetryOutboxGitHub ==
    ASSUME OutboxInv, Held, GitHubOnce, NEW w \in Rows, RetryOutbox(w)
    PROVE  GitHubOnce' /\ Held'
<1>1. RoundInv /\ Delivered /\ RowsFollowDecisions
  BY DEF OutboxInv
<1> DEFINE r == w[1]
<1>2. r \in Rounds /\ UNCHANGED <<job, comments>>
  BY DEF Rows, RetryOutbox, github
<1>3. /\ row[w].status = "FAILED" /\ OneRound(r)
      /\ row' = [row EXCEPT ![w] = Fresh]
      /\ req'[r].intent <=> req[r].intent
      /\ req'[r].applied <=> req[r].applied
      /\ req'[r].delivery = IF w[2] = "apply_remediation_label" /\ req[r].delivery = "FAILED"
                            THEN "PENDING" ELSE req[r].delivery
  BY <1>1, <1>2, RetryOutboxDoes DEF Fresh
<1>4. SameDecisions
  BY <1>1, RetryOutboxStep DEF OutboxStep
<1>5. Held'
  BY <1>2, <1>3, RestartsAreHeld
<1>6. ASSUME NEW q \in Rounds, req'[q].delivery = "FAILED"
      PROVE  row'[Label(q)].status = "FAILED"
  <2>1. Label(q) \in Rows /\ (w = Label(q) => q = r /\ w[2] = "apply_remediation_label")
    BY RowNames DEF Label
  <2>2. w # Label(q) /\ req[q].delivery = "FAILED"
    <3>1. CASE q = r
      BY <1>3, <1>6, <2>1, <3>1
    <3>2. CASE q # r
      BY <1>3, <1>6, <2>1, <3>2 DEF OneRound
    <3> QED
      BY <3>1, <3>2
  <2>3. row'[Label(q)] = row[Label(q)]
    BY <1>1, <1>3, <2>1, <2>2 DEF Delivered
  <2> QED
    BY <2>2, <2>3 DEF GitHubOnce, GitHubRound
<1>7. GitHubOnce'
  BY <1>2, <1>3, <1>4, <1>6, GitHubKept DEF OneRound, SameDecisions
<1> QED
  BY <1>5, <1>7

LEMMA FinishTriageGitHub ==
    ASSUME OutboxInv, Held, GitHubOnce, FinishTriage
    PROVE  GitHubOnce' /\ Held'
<1>1. RoundInv /\ Delivered /\ RowsFollowDecisions
  BY DEF OutboxInv
<1>2. UNCHANGED <<job, comments>>
  BY DEF FinishTriage, github
<1>3. /\ attempt \in Rounds /\ req[attempt].decision = "NONE"
      /\ req'[attempt] = [NoRequest EXCEPT !.decision = "PENDING"]
      /\ \A q \in Rounds : q # attempt =>
           /\ req'[q].delivery = req[q].delivery
           /\ req'[q].applied <=> req[q].applied
           /\ req'[q].intent <=> req[q].intent
           /\ req'[q].decision = "NONE" => req[q].decision = "NONE"
      /\ row' = [row EXCEPT ![Slack(attempt)] = Fresh]
  BY <1>1, FinishTriageDoes
<1>4. /\ ~req'[attempt].intent /\ req'[attempt].delivery = "NOT_REQUESTED"
      /\ req'[attempt].decision = "PENDING" /\ ~req[attempt].intent
  BY <1>3 DEF NoRequest, GitHubOnce, GitHubRound
<1>5. Slack(attempt) \in Rows /\ row[Slack(attempt)].status = "none"
  BY <1>1, <1>3, RowNames DEF RowsFollowDecisions
<1>6. Held'
  BY <1>2, <1>3, <1>5, RestartsAreHeld
<1>7. ASSUME NEW q \in Rounds, req'[q].delivery = "FAILED"
      PROVE  row'[Label(q)].status = "FAILED"
  <2>1. q # attempt
    BY <1>4, <1>7
  <2>2. Label(q) \in Rows /\ Label(q) # Slack(attempt)
    BY <1>3, RowNames DEF Label, Slack
  <2>3. row'[Label(q)] = row[Label(q)]
    BY <1>1, <1>3, <2>2 DEF Delivered
  <2> QED
    BY <1>3, <1>7, <2>1, <2>3 DEF GitHubOnce, GitHubRound
<1>8. ASSUME NEW q \in Rounds
      PROVE  /\ req[q].decision # "NONE" => (req'[q].applied <=> req[q].applied)
             /\ req'[q].intent <=> req[q].intent
             /\ req'[q].decision = "NONE" => req[q].decision = "NONE"
  BY <1>3, <1>4
<1>9. GitHubOnce'
  BY <1>2, <1>7, <1>8, GitHubKept
<1> QED
  BY <1>6, <1>9

\* The steps that write no row of the outbox and no round.
Quiet ==
    \/ LeaveWait \/ RetryTriage \/ StartTriage \/ StartRemediation \/ HumanLabels
    \/ (\E r \in Rounds : TokenExpires(r) \/ DeliverUpdate(r)) \/ UNCHANGED vars

LEMMA QuietGitHub ==
    ASSUME OutboxInv, Held, GitHubOnce, Quiet
    PROVE  GitHubOnce' /\ Held'
<1>1. UNCHANGED <<req, row, job, comments>>
  BY DEF Quiet, LeaveWait, RetryTriage, StartTriage, StartRemediation, HumanLabels, TokenExpires,
         DeliverUpdate, vars, github
<1>2. GitHubOnce'
  BY <1>1, GitHubKept DEF GitHubOnce, GitHubRound
<1> QED
  BY <1>1, <1>2, RowsStayHeld DEF LoopsStop

LEMMA GitHubNext ==
    ASSUME MaxLapses = 0, OutboxInv, Held, GitHubOnce, [Next]_vars
    PROVE  GitHubOnce' /\ Held'
<1>1. 1 \in Tokens
  BY ConstantsAssumption DEF Tokens
<1>2. CASE Quiet
  BY <1>2, QuietGitHub
<1>3. CASE FinishTriage
  BY <1>3, FinishTriageGitHub
<1>4. CASE People /\ ~Quiet
  BY <1>1, <1>4, DecisionGitHub, RetryOutboxGitHub DEF People, Quiet
<1>5. CASE \E e \in Events : WebhookArrives(e) \/ ProcessEvent(e) \/ LoadEvent(e) \/ ConfirmEvent(e)
  BY <1>5, EventGitHub
<1>6. CASE \E l \in Loops : Crash(l) \/ CallFails(l) \/ Dispatch(l)
  BY <1>6, LeasesGitHub, FailLoopGitHub, SlackLoopGitHub, LabelLoopGitHub, CommentLoopGitHub
  DEF Dispatch
<1>7. CASE (\E l \in Loops, w \in Rows : Claim(l, w)) \/ (\E w \in Rows : LeaseLapses(w))
  BY <1>7, LeasesGitHub
<1> QED
  BY <1>2, <1>3, <1>4, <1>5, <1>6, <1>7 DEF Next, Quiet
-----------------------------------------------------------------------------
(***************************************************************************)
(* A grant rests on a confirmed label.                                      *)
(***************************************************************************)
ConfirmedStay ==
    \A r \in Rounds : req[r].applied /\ req[r].delivery = "CONFIRMED" =>
                      req'[r].applied /\ req'[r].delivery = "CONFIRMED"

LEMMA SameRounds ==
    ASSUME \A r \in Rounds : req'[r].decision = "NONE" <=> req[r].decision = "NONE"
    PROVE  Newest' = Newest
<1>1. {r \in Rounds : req'[r].decision # "NONE"} = {r \in Rounds : req[r].decision # "NONE"}
  OBVIOUS
<1> QED
  BY <1>1 DEF Newest, Max

LEMMA GrantKept ==
    ASSUME RoundInv, GrantHasDelivery, UNCHANGED attempt, ConfirmedStay, Granted' => Granted,
           \A r \in Rounds : req'[r].decision = "NONE" <=> req[r].decision = "NONE"
    PROVE  GrantHasDelivery'
<1>1. Newest' = Newest /\ attempt \in Rounds
  BY SameRounds DEF RoundInv, Typed
<1> QED
  BY <1>1 DEF GrantHasDelivery, ConfirmedStay

LEMMA NewGrant ==
    ASSUME RoundInv, SameDecisions, UNCHANGED attempt, NEW r \in Rounds, is_current_request(r),
           req'[r].applied, req'[r].delivery = "CONFIRMED"
    PROVE  GrantHasDelivery'
<1>1. Newest' = r /\ attempt' = r
  BY SameVerdicts DEF is_current_request
<1> QED
  BY <1>1 DEF GrantHasDelivery

LEMMA LoopGrants ==
    ASSUME OutboxInv, GitHubOnce, GrantHasDelivery, NEW l \in Loops, Dispatch(l)
    PROVE  GrantHasDelivery'
<1>1. RoundInv /\ Delivered /\ RowsFollowDecisions /\ JobsHaveRows
  BY DEF OutboxInv
<1> DEFINE r == job[l].at[1]
<1>2. r \in Rounds /\ GitHubJob(l)
  BY <1>1, RowOfJob DEF GitHubOnce
<1>3. ASSUME SameDecisions, UNCHANGED <<state, attempt>>, OneRound(r),
             req[r].applied /\ req[r].delivery = "CONFIRMED" =>
               req'[r].applied /\ req'[r].delivery = "CONFIRMED"
      PROVE  GrantHasDelivery'
  <2>1. ConfirmedStay
    BY <1>3 DEF OneRound, ConfirmedStay
  <2>2. Granted' => Granted
    BY <1>3 DEF Granted
  <2> QED
    BY <1>1, <1>3, <2>1, <2>2, GrantKept DEF SameDecisions
<1>4. CASE NotOurs(l) \/ Post(l) \/ AddLabel(l) \/ CreateComment(l) \/ BeginRejection(l)
  <2>1. UNCHANGED <<req, state, attempt>>
    BY <1>4 DEF NotOurs, Post, AddLabel, CreateComment, BeginRejection
  <2> QED
    BY <1>3, <2>1 DEF SameDecisions, OneRound
<1>5. CASE BeginNotify(l) \/ MarkNotified(l)
  <2>1. SameDecisions /\ UNCHANGED <<state, attempt>>
    BY <1>1, <1>5, BeginNotifyStep, MarkNotifiedStep DEF OutboxStep, BeginNotify, MarkNotified
  <2>2. OneRound(r) /\ SameGitHub(r)
    BY <1>1, <1>2, <1>5, BeginNotifyDoes, MarkNotifiedDoes
  <2> QED
    BY <1>3, <2>1, <2>2 DEF SameGitHub
<1>6. CASE BeginLabel(l)
  <2>1. SameDecisions /\ UNCHANGED <<state, attempt>>
    BY <1>1, <1>6, BeginLabelStep DEF OutboxStep, BeginLabel
  <2>2. OneRound(r) /\ (UNCHANGED req \/ ~req[r].applied)
    BY <1>1, <1>2, <1>6, BeginLabelDoes
  <2> QED
    BY <1>3, <2>1, <2>2
<1>7. CASE CommitLabel(l)
  <2>1. SameDecisions /\ UNCHANGED <<state, attempt>> /\ job[l].pc = "added"
    BY <1>1, <1>7, CommitLabelStep DEF OutboxStep, CommitLabel
  <2>2. OneRound(r) /\ ~req[r].applied
    BY <1>1, <1>2, <1>7, <2>1, CommitLabelDoes DEF GitHubJob
  <2> QED
    BY <1>3, <2>1, <2>2
<1>8. CASE Replay(l)
  <2>1. SameDecisions /\ UNCHANGED attempt /\ job[l].pc = "replay"
    BY <1>1, <1>8, ReplayStep DEF OutboxStep, Replay
  <2>2. /\ OneRound(r) /\ req'[r].applied
        /\ \/ UNCHANGED <<req, state>>
           \/ req'[r].delivery = "CONFIRMED" /\ is_current_request(r)
    BY <1>1, <1>2, <1>8, <2>1, ReplayDoes DEF GitHubJob
  <2> HIDE DEF r
  <2> QED
    BY <1>1, <1>2, <1>3, <2>1, <2>2, NewGrant
<1>9. CASE EnsureComment(l) \/ RecordComment(l)
  <2>1. SameDecisions /\ UNCHANGED <<state, attempt>> /\ job[l].pc \in {"note", "commented"}
    BY <1>1, <1>9, EnsureCommentStep, RecordCommentStep
    DEF OutboxStep, EnsureComment, RecordComment
  <2>2. job[l].snap.delivery # "FAILED"
    BY <1>2, <2>1 DEF GitHubJob
  <2>3. CASE Commented(l)
    <3>1. OneRound(r) /\ (req'[r].applied <=> req[r].applied)
          /\ req'[r].delivery \in {req[r].delivery, "CONFIRMED"}
      BY <1>1, <1>2, <2>1, <2>2, <2>3, CommentedDoes
    <3> QED
      BY <1>3, <2>1, <3>1
  <2>4. CASE EnsureComment(l) /\ ~Commented(l)
    <3>1. \/ UNCHANGED req
          \/ /\ OneRound(r) /\ (req'[r].applied <=> req[r].applied)
             /\ req'[r].delivery \in {req[r].delivery, "CONFIRMED"}
      BY <1>1, <1>2, <2>4, EnsureCommentDoes
    <3> QED
      BY <1>3, <2>1, <3>1 DEF OneRound
  <2> QED
    BY <1>9, <2>3, <2>4 DEF RecordComment
<1>10. CASE Fail(l)
  <2>1. /\ SameDecisions /\ UNCHANGED attempt
        /\ UNCHANGED state \/ state' = "APPROVAL_DELIVERY_FAILED"
    BY <1>1, <1>10, FailStep DEF OutboxStep
  <2>2. /\ OneRound(r) /\ (req'[r].applied <=> req[r].applied)
        /\ req'[r].delivery = req[r].delivery \/ ~req[r].applied
    BY <1>1, <1>2, <1>10, FailDoes
  <2>3. ConfirmedStay
    BY <2>2 DEF OneRound, ConfirmedStay
  <2>4. Granted' => Granted
    BY <2>1 DEF Granted
  <2> QED
    BY <1>1, <2>1, <2>3, <2>4, GrantKept DEF SameDecisions
<1> QED
  BY <1>4, <1>5, <1>6, <1>7, <1>8, <1>9, <1>10 DEF Dispatch

LEMMA GrantNext ==
    ASSUME OutboxInv, GitHubOnce, GrantHasDelivery, [Next]_vars
    PROVE  GrantHasDelivery'
<1>1. RoundInv /\ Delivered /\ RowsFollowDecisions /\ JobsHaveRows
  BY DEF OutboxInv
<1>2. ASSUME UNCHANGED <<req, attempt>>, Granted' => Granted
      PROVE  GrantHasDelivery'
  BY <1>1, <1>2, GrantKept DEF ConfirmedStay
<1>3. CASE Quiet
  <2>1. CASE LeaveWait \/ RetryTriage \/ StartTriage
    <3>1. ~Granted'
      BY <2>1 DEF LeaveWait, RetryTriage, StartTriage, Granted
    <3> QED
      BY <3>1 DEF GrantHasDelivery
  <2>2. CASE \/ StartRemediation \/ HumanLabels \/ UNCHANGED vars
             \/ \E r \in Rounds : TokenExpires(r) \/ DeliverUpdate(r)
    <3>1. UNCHANGED <<req, attempt>> /\ (Granted' => Granted)
      BY <2>2 DEF StartRemediation, HumanLabels, TokenExpires, DeliverUpdate, vars, Granted
    <3> QED
      BY <1>2, <3>1
  <2> QED
    BY <1>3, <2>1, <2>2 DEF Quiet
<1>4. CASE FinishTriage
  BY <1>4 DEF FinishTriage, Granted, GrantHasDelivery
<1>5. ASSUME NEW r \in Rounds, NEW t \in Tokens,
             ClickApprove(r, t) \/ ClickReject(r, t) \/ ClickExpired(r, t) \/ ExpireApproval(r)
      PROVE  GrantHasDelivery'
  <2>1. /\ OneRound(r) /\ (req'[r].applied <=> req[r].applied)
        /\ req[r].decision = "PENDING" /\ UNCHANGED attempt
        /\ \/ UNCHANGED state /\ state = "AWAITING_REMEDIATION_APPROVAL"
           \/ state' = "REMEDIATION_REJECTED"
           \/ /\ req'[r].decision = "EXPIRED" /\ req'[r].delivery = req[r].delivery
              /\ UNCHANGED state
    BY <1>1, <1>5, DecisionDoes DEF ClickApprove, ClickReject, ClickExpired, ExpireApproval
  <2>2. CASE state' \in {"AWAITING_REMEDIATION_APPROVAL", "REMEDIATION_REJECTED"}
    BY <2>2 DEF Granted, GrantHasDelivery
  <2>3. CASE /\ req'[r].decision = "EXPIRED" /\ req'[r].delivery = req[r].delivery
             /\ UNCHANGED state
    <3>1. ConfirmedStay
      BY <2>1, <2>3 DEF ConfirmedStay, OneRound
    <3>2. \A q \in Rounds : req'[q].decision = "NONE" <=> req[q].decision = "NONE"
      BY <2>1, <2>3 DEF OneRound
    <3>3. Granted' => Granted
      BY <2>3 DEF Granted
    <3> QED
      BY <1>1, <2>1, <3>1, <3>2, <3>3, GrantKept
  <2> QED
    BY <2>1, <2>2, <2>3
<1>6. ASSUME NEW w \in Rows, RetryOutbox(w)
      PROVE  GrantHasDelivery'
  <2> DEFINE r == w[1]
  <2>1. r \in Rounds /\ UNCHANGED <<state, attempt>> /\ SameDecisions
    BY <1>1, <1>6, RetryOutboxStep DEF Rows, RetryOutbox, OutboxStep
  <2>2. /\ OneRound(r) /\ (req'[r].applied <=> req[r].applied)
        /\ req[r].delivery # "FAILED" => req'[r].delivery = req[r].delivery
    BY <1>1, <1>6, <2>1, RetryOutboxDoes
  <2>3. ConfirmedStay
    BY <2>2 DEF ConfirmedStay, OneRound
  <2>4. Granted' => Granted
    BY <2>1 DEF Granted
  <2> QED
    BY <1>1, <2>1, <2>3, <2>4, GrantKept DEF SameDecisions
<1>7. ASSUME NEW e \in Events,
             WebhookArrives(e) \/ ProcessEvent(e) \/ LoadEvent(e) \/ ConfirmEvent(e)
      PROVE  GrantHasDelivery'
  <2>1. CASE UNCHANGED <<req, state>>
    <3>1. UNCHANGED attempt /\ (Granted' => Granted)
      BY <1>7, <2>1
      DEF WebhookArrives, ProcessEvent, LoadEvent, ConfirmEvent, Confirm, Granted
    <3> QED
      BY <1>2, <2>1, <3>1
  <2>2. CASE ~UNCHANGED <<req, state>>
    <3>1. PICK s : Confirm(e, s)
      BY <1>7, <2>2 DEF WebhookArrives, ProcessEvent, LoadEvent, ConfirmEvent
    <3>2. SameDecisions /\ UNCHANGED attempt
      BY <1>1, <3>1, ConfirmStep DEF OutboxStep
    <3>3. /\ Newest \in Rounds /\ is_current_request(Newest) /\ req'[Newest].applied
          /\ req'[Newest].delivery = "CONFIRMED"
      BY <1>1, <2>2, <3>1, ConfirmDoes
    <3> QED
      BY <1>1, <3>2, <3>3, NewGrant
  <2> QED
    BY <2>1, <2>2
<1>8. CASE \/ \E l \in Loops : Crash(l) \/ CallFails(l)
           \/ \E l \in Loops, w \in Rows : Claim(l, w)
           \/ \E w \in Rows : LeaseLapses(w)
  <2>1. UNCHANGED <<req, state, attempt>>
    BY <1>8 DEF Crash, CallFails, Claim, LeaseLapses
  <2> QED
    BY <1>2, <2>1 DEF Granted
<1>9. 1 \in Tokens
  BY ConstantsAssumption DEF Tokens
<1>10. CASE People /\ ~Quiet
  BY <1>5, <1>6, <1>9, <1>10 DEF People, Quiet
<1> QED
  BY <1>3, <1>4, <1>7, <1>8, <1>10, LoopGrants DEF Next, Quiet
-----------------------------------------------------------------------------
(***************************************************************************)
(* A round has one message, and its buttons work.                           *)
(***************************************************************************)

\* A step that posts nothing and gives no open round another token.
LEMMA SlackKept ==
    ASSUME OutboxInv, SlackOnce,
           \A m \in Loops : job'[m] = job[m] \/ job'[m].pc \notin {"post", "posted"},
           \A q \in Rounds :
             /\ Messages(q)' = Messages(q)
             /\ req'[q].ts \in Messages(q) \cup {0, req[q].ts}
             /\ req'[q].decision = "NONE" => req[q].decision = "NONE"
             /\ req'[q].decision = "PENDING" =>
                  \/ req[q].decision = "NONE"
                  \/ req[q].decision = "PENDING" /\ req'[q].token = req[q].token
    PROVE  SlackOnce'
<1>1. RoundInv /\ Delivered /\ RowsFollowDecisions /\ JobsHaveRows
  BY DEF OutboxInv
<1>2. ASSUME NEW q \in Rounds
      PROVE  SlackRound(q)'
  <2>1. SlackRound(q) /\ Messages(q)' = Messages(q)
    BY DEF SlackOnce
  <2> QED
    BY <2>1 DEF SlackRound
<1>3. ASSUME NEW m \in Loops
      PROVE  SlackJob(m)'
  <2>1. CASE job'[m].pc \notin {"post", "posted"}
    BY <2>1 DEF SlackJob
  <2>2. CASE job'[m] = job[m] /\ job[m].pc \in {"post", "posted"}
    <3>1. PICK q \in Rounds : q = job[m].at[1] /\ req[q].decision # "NONE"
      BY <1>1, <2>2, RoundOfJob
    <3>2. SlackJob(m) /\ Messages(q)' = Messages(q) /\ job'[m].at[1] = q
      BY <2>2, <3>1 DEF SlackOnce
    <3> QED
      BY <2>2, <3>1, <3>2 DEF SlackJob
  <2> QED
    BY <2>1, <2>2
<1> QED
  BY <1>2, <1>3 DEF SlackOnce

\* A step that posts a round's message, or makes the token for it.
LEMMA SlackLoop ==
    ASSUME OutboxInv, Held, SlackOnce, NEW l \in Loops, NEW p, Goes(l, p),
           NEW r \in Rounds, r = job[l].at[1], job[l].at[2] = "slack_approval_request",
           OneRound(r), \A q \in Rounds : q # r => Messages(q)' = Messages(q),
           SlackRound(r)', SlackJob(l)'
    PROVE  SlackOnce'
<1>1. RoundInv /\ Delivered /\ RowsFollowDecisions /\ JobsHaveRows
  BY DEF OutboxInv
<1>2. ASSUME NEW q \in Rounds, q # r
      PROVE  SlackRound(q)'
  <2>1. SlackRound(q) /\ Messages(q)' = Messages(q) /\ req'[q] = req[q]
    BY <1>2 DEF SlackOnce, OneRound
  <2> QED
    BY <2>1 DEF SlackRound
<1>3. ASSUME NEW m \in Loops, m # l
      PROVE  SlackJob(m)'
  <2>1. job'[m] = job[m]
    BY <1>3 DEF Goes, Others
  <2>2. CASE job[m].pc \notin {"post", "posted"}
    BY <2>1, <2>2 DEF SlackJob
  <2>3. CASE job[m].pc \in {"post", "posted"}
    <3>1. PICK q \in Rounds : q = job[m].at[1] /\ job[m].at[2] = "slack_approval_request"
      BY <1>1, <2>3, RowOfJob DEF JobsHaveRows, InKind
    <3>2. q # r
      BY <1>3, <2>3, <3>1, Apart DEF Goes
    <3>3. SlackJob(m) /\ Messages(q)' = Messages(q) /\ req'[q] = req[q]
      BY <3>1, <3>2 DEF SlackOnce, OneRound
    <3> QED
      BY <2>1, <3>1, <3>3 DEF SlackJob
  <2> QED
    BY <2>2, <2>3
<1> QED
  BY <1>2, <1>3 DEF SlackOnce

LEMMA SlackLoopSlack ==
    ASSUME OutboxInv, Held, SlackOnce, NEW l \in Loops,
           BeginNotify(l) \/ Post(l) \/ MarkNotified(l)
    PROVE  SlackOnce'
<1>1. RoundInv /\ Delivered /\ RowsFollowDecisions /\ JobsHaveRows
  BY DEF OutboxInv
<1>2. PICK r \in Rounds :
        /\ r = job[l].at[1] /\ InKind(job[l]) /\ SlackJob(l) /\ SlackRound(r)
        /\ job[l].snap \in Requests /\ req[r] \in Requests
  BY <1>1, RowOfJob DEF JobsHaveRows, SlackOnce
<1>3. SameDecisions
  BY <1>1, BeginNotifyStep, PostStep, MarkNotifiedStep DEF OutboxStep
<1>4. 0 \notin Tokens
  BY DEF Tokens
<1>5. ASSUME Done(l), UNCHANGED posted, OneRound(r), req'[r].token = req[r].token,
             req'[r].ts \in Messages(r) \cup {req[r].ts}
      PROVE  SlackOnce'
  <2>1. \A m \in Loops : job'[m] = job[m] \/ job'[m].pc \notin {"post", "posted"}
    BY <1>5 DEF Done, Others
  <2>2. \A q \in Rounds : Messages(q)' = Messages(q)
    BY <1>5 DEF Messages
  <2>3. ASSUME NEW q \in Rounds
        PROVE  /\ req'[q].ts \in Messages(q) \cup {0, req[q].ts}
               /\ req'[q].decision = "NONE" => req[q].decision = "NONE"
               /\ req'[q].decision = "PENDING" =>
                    \/ req[q].decision = "NONE"
                    \/ req[q].decision = "PENDING" /\ req'[q].token = req[q].token
    BY <1>3, <1>5 DEF OneRound, SameDecisions
  <2> QED
    BY <2>1, <2>2, <2>3, SlackKept
<1>6. CASE BeginNotify(l)
  <2>1. UNCHANGED posted /\ \A q \in Rounds : Messages(q)' = Messages(q)
    BY <1>6 DEF BeginNotify, slack, Messages
  <2>2. /\ OneRound(r) /\ job[l].at[2] = "slack_approval_request"
        /\ \/ Done(l) /\ UNCHANGED req
           \/ Done(l) /\ req'[r].token = req[r].token /\ req'[r].ts \in Messages(r)
           \/ /\ Goes(l, "post") /\ job'[l].snap = req'[r]
              /\ req'[r].ts = req[r].ts /\ req[r].decision = "PENDING"
              /\ req[r].token = 0 \/ Messages(r) = {}
    BY <1>1, <1>2, <1>6, BeginNotifyDoes
  <2>3. CASE Done(l)
    BY <1>5, <2>1, <2>2, <2>3 DEF Done, Goes
  <2>4. CASE /\ Goes(l, "post") /\ job'[l].snap = req'[r]
             /\ req'[r].ts = req[r].ts /\ req[r].decision = "PENDING"
             /\ req[r].token = 0 \/ Messages(r) = {}
    <3>1. Messages(r) = {} /\ Messages(r)' = {}
      <4>1. Messages(r) = {}
        BY <1>2, <1>4, <2>4 DEF SlackRound, Messages
      <4> QED
        BY <2>1, <4>1
    <3>2. req[r].ts = 0 /\ req'[r].decision = "PENDING"
      BY <1>2, <1>3, <2>4, <3>1 DEF SlackRound, SameDecisions
    <3>3. job'[l].pc = "post" /\ job'[l].at[1] = r
      BY <1>2, <2>4 DEF Goes
    <3>4. SlackJob(l)'
      BY <2>4, <3>1, <3>3 DEF SlackJob
    <3>5. SlackRound(r)'
      BY <2>4, <3>1, <3>2 DEF SlackRound
    <3> QED
      BY <1>2, <2>1, <2>2, <2>4, <3>4, <3>5, SlackLoop
  <2> QED
    BY <2>2, <2>3, <2>4
<1>7. CASE Post(l)
  <2>1. /\ Goes(l, "posted") /\ job'[l].snap = job[l].snap /\ UNCHANGED req
        /\ job[l].pc = "post"
        /\ posted' = [posted EXCEPT ![r][job[l].snap.token] = "AWAITING"]
    BY <1>1, <1>2, <1>7, PostDoes DEF Post
  <2>2. PICK t \in Tokens :
        /\ t = job[l].snap.token /\ Messages(r) = {}
        /\ req[r].decision = "PENDING" => req[r].token = t
        /\ job[l].at[2] = "slack_approval_request"
    BY <1>2, <2>1 DEF SlackJob, InKind, Requests
  <2>3. /\ posted'[r] = [posted[r] EXCEPT ![t] = "AWAITING"]
        /\ \A q \in Rounds : q # r => posted'[q] = posted[q]
        /\ posted[r] \in [Tokens -> Shown \cup {"absent"}]
    BY <1>1, <1>2, <2>1, <2>2 DEF Delivered
  <2>4. /\ \A q \in Rounds : q # r => Messages(q)' = Messages(q)
        /\ Messages(r)' = {t}
    <3>1. \A q \in Rounds : q # r => Messages(q)' = Messages(q)
      BY <2>3 DEF Messages
    <3>2. \A s \in Tokens : posted[r][s] = "absent"
      BY <2>2 DEF Messages
    <3>3. \A s \in Tokens : posted'[r][s] = IF s = t THEN "AWAITING" ELSE "absent"
      BY <2>2, <2>3, <3>2
    <3>4. {s \in Tokens : posted'[r][s] # "absent"} = {t}
      BY <2>2, <3>3
    <3> QED
      BY <3>1, <3>4 DEF Messages
  <2>5. req[r].decision # "NONE" /\ req[r].ts = 0
    <3>1. req[r].decision # "NONE"
      BY <1>1, <2>1, <1>2, RoundOfJob
    <3> QED
      BY <1>2, <2>2, <3>1 DEF SlackRound
  <2>6. SlackRound(r)'
    BY <2>1, <2>2, <2>4, <2>5 DEF SlackRound
  <2>7. SlackJob(l)'
    <3>1. job'[l].pc = "posted" /\ job'[l].at[1] = r /\ job'[l].snap.token = t
      BY <1>2, <2>1, <2>2 DEF Goes
    <3> QED
      BY <2>4, <3>1 DEF SlackJob
  <2> QED
    BY <1>2, <2>1, <2>2, <2>4, <2>6, <2>7, SlackLoop DEF OneRound
<1>8. CASE MarkNotified(l)
  <2>1. /\ Done(l) /\ OneRound(r) /\ req'[r].token = req[r].token
        /\ req'[r].ts = job[l].snap.token /\ job[l].pc = "posted" /\ UNCHANGED posted
    BY <1>1, <1>2, <1>8, MarkNotifiedDoes DEF MarkNotified, slack
  <2>2. job[l].snap.token \in Messages(r)
    BY <1>2, <2>1 DEF SlackJob
  <2> QED
    BY <1>5, <2>1, <2>2
<1> QED
  BY <1>6, <1>7, <1>8

\* A step that writes neither a message nor the token or the message's place in a row.
LEMMA SlackUntouched ==
    ASSUME OutboxInv, SlackOnce, UNCHANGED posted, SameDecisions,
           \A m \in Loops : job'[m] = job[m] \/ job'[m].pc \notin {"post", "posted"},
           \A q \in Rounds : SameSlack(q)
    PROVE  SlackOnce'
<1>1. \A q \in Rounds : Messages(q)' = Messages(q)
  BY DEF Messages
<1> QED
  BY <1>1, SlackKept DEF SameSlack, SameDecisions

LEMMA LoopSlack ==
    ASSUME OutboxInv, Held, SlackOnce, NEW l \in Loops, Crash(l) \/ CallFails(l) \/ Dispatch(l)
    PROVE  SlackOnce'
<1>1. RoundInv /\ Delivered /\ RowsFollowDecisions /\ JobsHaveRows
  BY DEF OutboxInv
<1> DEFINE r == job[l].at[1]
<1>2. r \in Rounds
  BY <1>1, RowOfJob
<1>3. CASE BeginNotify(l) \/ Post(l) \/ MarkNotified(l)
  BY <1>3, SlackLoopSlack
<1>4. CASE Crash(l) \/ NotOurs(l)
  <2>1. LoopsStop /\ UNCHANGED <<req, posted>>
    BY <1>4, StoppedHeld DEF Crash, NotOurs, slack
  <2>2. \A q \in Rounds : SameSlack(q)
    BY <2>1 DEF SameSlack
  <2> QED
    BY <2>1, <2>2, SlackUntouched DEF LoopsStop, SameDecisions
<1>5. ASSUME NEW p, p \notin {"post", "posted"}, Goes(l, p) \/ Done(l), SameDecisions,
             UNCHANGED posted, OneRound(r), SameSlack(r)
      PROVE  SlackOnce'
  <2>1. \A m \in Loops : job'[m] = job[m] \/ job'[m].pc \notin {"post", "posted"}
    BY <1>5 DEF Goes, Done, Others
  <2> HIDE DEF r
  <2>2. \A q \in Rounds : SameSlack(q)
    BY <1>5 DEF OneRound, SameSlack
  <2> QED
    BY <1>5, <2>1, <2>2, SlackUntouched
<1>6. CASE CallFails(l)
  <2>1. Goes(l, "fail") /\ UNCHANGED <<req, posted>>
    BY <1>1, <1>6, CallFailsDoes DEF slack
  <2> QED
    BY <1>5, <2>1 DEF OneRound, SameSlack, SameDecisions
<1>7. CASE BeginLabel(l) \/ CommitLabel(l) \/ Replay(l) \/ Fail(l)
  <2>1. SameDecisions /\ UNCHANGED posted
    BY <1>1, <1>7, BeginLabelStep, CommitLabelStep, ReplayStep, FailStep
    DEF OutboxStep, BeginLabel, CommitLabel, Replay, Fail, slack
  <2>2. OneRound(r) /\ SameSlack(r)
    BY <1>1, <1>2, <1>7, BeginLabelDoes, CommitLabelDoes, ReplayDoes, FailDoes
  <2>3. Goes(l, "fail") \/ Goes(l, "note") \/ Goes(l, "replay") \/ Goes(l, "add") \/ Done(l)
    BY <1>1, <1>2, <1>7, BeginLabelDoes, CommitLabelDoes, ReplayDoes, FailDoes
  <2> QED
    BY <1>5, <2>1, <2>2, <2>3
<1>8. CASE AddLabel(l) \/ CreateComment(l) \/ BeginRejection(l)
  <2>1. UNCHANGED <<req, posted>>
    BY <1>8 DEF AddLabel, CreateComment, BeginRejection, slack
  <2>2. Goes(l, "added") \/ Goes(l, "commented") \/ Goes(l, "fail") \/ Done(l) \/ Goes(l, "note")
    BY <1>1, <1>2, <1>8, AddLabelDoes, CreateCommentDoes, BeginRejectionDoes
  <2> QED
    BY <1>5, <2>1, <2>2 DEF OneRound, SameSlack, SameDecisions
<1>9. CASE EnsureComment(l) \/ RecordComment(l)
  <2>1. SameDecisions /\ UNCHANGED posted /\ job[l].pc # "idle"
    BY <1>1, <1>9, EnsureCommentStep, RecordCommentStep
    DEF OutboxStep, EnsureComment, RecordComment, slack
  <2>2. CASE Commented(l)
    BY <1>1, <1>2, <1>5, <2>1, <2>2, CommentedDoes
  <2>3. CASE EnsureComment(l) /\ ~Commented(l)
    <3>1. Goes(l, "comment") /\ OneRound(r) /\ SameSlack(r)
      BY <1>1, <1>2, <2>3, EnsureCommentDoes DEF OneRound, SameSlack
    <3> QED
      BY <1>5, <2>1, <3>1
  <2> QED
    BY <1>9, <2>2, <2>3 DEF RecordComment
<1> QED
  BY <1>3, <1>4, <1>6, <1>7, <1>8, <1>9 DEF Dispatch

LEMMA EventSlack ==
    ASSUME OutboxInv, SlackOnce, NEW e \in Events,
           WebhookArrives(e) \/ ProcessEvent(e) \/ LoadEvent(e) \/ ConfirmEvent(e)
    PROVE  SlackOnce'
<1>1. RoundInv
  BY DEF OutboxInv
<1>2. UNCHANGED <<job, posted>>
  BY DEF WebhookArrives, ProcessEvent, LoadEvent, ConfirmEvent, Confirm, slack
<1>3. SameDecisions /\ \A q \in Rounds : SameSlack(q)
  <2>1. CASE UNCHANGED req
    BY <2>1 DEF SameDecisions, SameSlack
  <2>2. CASE ~UNCHANGED req
    <3>1. PICK s : Confirm(e, s)
      BY <2>2 DEF WebhookArrives, ProcessEvent, LoadEvent, ConfirmEvent
    <3>2. SameDecisions /\ OneRound(Newest) /\ SameSlack(Newest)
      BY <1>1, <2>2, <3>1, ConfirmDoes, ConfirmStep DEF OutboxStep
    <3> QED
      BY <3>2 DEF OneRound, SameSlack
  <2> QED
    BY <2>1, <2>2
<1> QED
  BY <1>2, <1>3, SlackUntouched

LEMMA PeopleSlack ==
    ASSUME OutboxInv, SlackOnce,
           \/ \E r \in Rounds, t \in Tokens : \/ ClickApprove(r, t) \/ ClickReject(r, t)
                                              \/ ClickExpired(r, t) \/ ExpireApproval(r)
           \/ \E w \in Rows : RetryOutbox(w)
    PROVE  SlackOnce'
<1>1. RoundInv /\ Delivered
  BY DEF OutboxInv
<1>2. UNCHANGED <<job, posted>> /\ \A q \in Rounds : Messages(q)' = Messages(q)
  BY DEF ClickApprove, ClickReject, ClickExpired, ExpireApproval, RetryOutbox, slack, Messages
<1>3. ASSUME NEW w \in Rows, RetryOutbox(w)
      PROVE  SlackOnce'
  <2> DEFINE r == w[1]
  <2>1. r \in Rounds /\ SameDecisions
    BY <1>1, <1>3, RetryOutboxStep DEF Rows, OutboxStep
  <2>2. OneRound(r) /\ SameSlack(r)
    BY <1>1, <1>3, <2>1, RetryOutboxDoes
  <2>3. \A q \in Rounds : SameSlack(q)
    BY <2>2 DEF OneRound, SameSlack
  <2> QED
    BY <1>2, <2>1, <2>3, SlackUntouched
<1>4. ASSUME NEW r \in Rounds, NEW t \in Tokens,
             ClickApprove(r, t) \/ ClickReject(r, t) \/ ClickExpired(r, t) \/ ExpireApproval(r)
      PROVE  SlackOnce'
  <2>1. /\ OneRound(r) /\ SameSlack(r)
        /\ req'[r].decision \in {"APPROVED", "REJECTED", "EXPIRED"}
    BY <1>1, <1>4, DecisionDoes
  <2>2. ASSUME NEW q \in Rounds
        PROVE  /\ req'[q].ts = req[q].ts
               /\ req'[q].decision = "NONE" => req[q].decision = "NONE"
               /\ req'[q].decision = "PENDING" =>
                    req[q].decision = "PENDING" /\ req'[q].token = req[q].token
    BY <2>1 DEF OneRound, SameSlack
  <2> QED
    BY <1>2, <2>2, SlackKept
<1> QED
  BY <1>3, <1>4

LEMMA FinishTriageSlack ==
    ASSUME OutboxInv, SlackOnce, FinishTriage
    PROVE  SlackOnce'
<1>1. RoundInv
  BY DEF OutboxInv
<1>2. UNCHANGED <<job, posted>> /\ \A q \in Rounds : Messages(q)' = Messages(q)
  BY DEF FinishTriage, slack, Messages
<1>3. /\ attempt \in Rounds /\ req[attempt].decision = "NONE"
      /\ req'[attempt] = [NoRequest EXCEPT !.decision = "PENDING"]
      /\ \A q \in Rounds : q # attempt =>
           /\ req'[q].ts = req[q].ts
           /\ IF req[q].decision = "PENDING" THEN req'[q].decision = "SUPERSEDED"
              ELSE req'[q] = req[q]
  BY <1>1, FinishTriageDoes
<1>4. req'[attempt].ts = 0 /\ req'[attempt].decision = "PENDING"
  BY <1>3 DEF NoRequest
<1>5. ASSUME NEW q \in Rounds
      PROVE  /\ req'[q].ts \in {0, req[q].ts}
             /\ req'[q].decision = "NONE" => req[q].decision = "NONE"
             /\ req'[q].decision = "PENDING" => req[q].decision = "NONE"
  BY <1>3, <1>4
<1> QED
  BY <1>2, <1>5, SlackKept

LEMMA QuietSlack ==
    ASSUME OutboxInv, SlackOnce,
           \/ Quiet \/ (\E l \in Loops, w \in Rows : Claim(l, w)) \/ (\E w \in Rows : LeaseLapses(w))
    PROVE  SlackOnce'
<1>1. RoundInv /\ Delivered /\ RowsFollowDecisions
  BY DEF OutboxInv
<1>2. UNCHANGED req
  BY DEF Quiet, LeaveWait, RetryTriage, StartTriage, StartRemediation, HumanLabels, TokenExpires,
         DeliverUpdate, vars, Claim, LeaseLapses
<1>3. \A m \in Loops : job'[m] = job[m] \/ job'[m].pc \notin {"post", "posted"}
  <2>1. ASSUME NEW l \in Loops, NEW w \in Rows, Claim(l, w)
        PROVE  \A m \in Loops : job'[m] = job[m] \/ job'[m].pc \notin {"post", "posted"}
    <3> DEFINE j == [Idle EXCEPT !.pc = "claimed", !.at = w]
    <3>1. j.pc = "claimed" /\ job' = [job EXCEPT ![l] = j] /\ job \in [Loops -> Jobs]
      BY <1>1, <2>1 DEF Idle, Claim, RoundInv, Typed
    <3> HIDE DEF j
    <3> QED
      BY <3>1
  <2>2. CASE Quiet \/ \E w \in Rows : LeaseLapses(w)
    BY <2>2 DEF Quiet, LeaveWait, RetryTriage, StartTriage, StartRemediation, HumanLabels,
                TokenExpires, DeliverUpdate, vars, LeaseLapses
  <2> QED
    BY <2>1, <2>2
<1>4. \A q \in Rounds : Messages(q)' = Messages(q)
  <2>1. CASE UNCHANGED posted
    BY <2>1 DEF Messages
  <2>2. ASSUME NEW r \in Rounds, DeliverUpdate(r), ~UNCHANGED posted
        PROVE  \A q \in Rounds : Messages(q)' = Messages(q)
    <3> DEFINE v == message_status(req[r])
               t == req[r].ts
    <3>1. r \in update /\ posted' = [posted EXCEPT ![r][t] = v]
      BY <2>2 DEF DeliverUpdate
    <3>2. t \in Messages(r) /\ v \in Shown
      BY <1>1, <3>1, ShownStatus DEF RowsFollowDecisions, SlackOnce, SlackRound, RoundInv, Typed
    <3>3. v # "absent"
      BY <3>2 DEF Shown
    <3> HIDE DEF v, t
    <3>4. posted \in [Rounds -> [Tokens -> Shown \cup {"absent"}]]
      BY <1>1 DEF Delivered
    <3>5. \A q \in Rounds, s \in Tokens : posted'[q][s] = "absent" <=> posted[q][s] = "absent"
      BY <3>1, <3>2, <3>3, <3>4 DEF Messages
    <3> QED
      BY <3>5 DEF Messages
  <2>3. UNCHANGED posted \/ \E r \in Rounds : DeliverUpdate(r)
    BY DEF Quiet, LeaveWait, RetryTriage, StartTriage, StartRemediation, HumanLabels,
           TokenExpires, vars, Claim, LeaseLapses, slack
  <2> QED
    BY <2>1, <2>2, <2>3
<1> QED
  BY <1>2, <1>3, <1>4, SlackKept

LEMMA SlackNext ==
    ASSUME OutboxInv, Held, SlackOnce, [Next]_vars
    PROVE  SlackOnce'
<1>1. 1 \in Tokens
  BY ConstantsAssumption DEF Tokens
<1>2. CASE Quiet \/ (\E l \in Loops, w \in Rows : Claim(l, w)) \/ (\E w \in Rows : LeaseLapses(w))
  BY <1>2, QuietSlack
<1>3. CASE FinishTriage
  BY <1>3, FinishTriageSlack
<1>4. CASE People /\ ~Quiet
  BY <1>1, <1>4, PeopleSlack DEF People, Quiet
<1>5. CASE \E e \in Events : WebhookArrives(e) \/ ProcessEvent(e) \/ LoadEvent(e) \/ ConfirmEvent(e)
  BY <1>5, EventSlack
<1>6. CASE \E l \in Loops : Crash(l) \/ CallFails(l) \/ Dispatch(l)
  BY <1>6, LoopSlack
<1> QED
  BY <1>2, <1>3, <1>4, <1>5, <1>6 DEF Next, Quiet
-----------------------------------------------------------------------------
LEMMA DeliveryInit == Init => DeliveryInv
<1> SUFFICES ASSUME Init PROVE DeliveryInv
  OBVIOUS
<1>1. \A l \in Loops : job[l].pc = "idle"
  BY IdleType DEF Init
<1>2. \A r \in Rounds : req[r] = NoRequest /\ Messages(r) = {} /\ comments[r] = 0
  BY DEF Init, Messages
<1>3. Held
  BY <1>1 DEF Held
<1>4. GitHubOnce
  BY <1>1, <1>2 DEF GitHubOnce, GitHubRound, GitHubJob, NoRequest
<1>5. SlackOnce
  BY <1>1, <1>2 DEF SlackOnce, SlackRound, SlackJob, NoRequest
<1>6. GrantHasDelivery
  BY DEF Init, GrantHasDelivery, Granted
<1> QED
  BY <1>3, <1>4, <1>5, <1>6, OutboxInit DEF DeliveryInv

LEMMA DeliveryNext ==
    ASSUME MaxLapses = 0, DeliveryInv, [Next]_vars
    PROVE  DeliveryInv'
BY OutboxNext, GitHubNext, GrantNext, SlackNext DEF DeliveryInv

LEMMA DeliveryHolds ==
    ASSUME MaxLapses = 0
    PROVE  Spec => []DeliveryInv
<1>1. DeliveryInv /\ [Next]_vars => DeliveryInv'
  BY DeliveryNext
<1> QED
  BY <1>1, DeliveryInit, PTL DEF Spec

\* As long as no lease lapses under a loop that still works and no event stalls between
\* loading and locking its case, a case is granted remediation only for the round of its
\* newest triage attempt, after the worker recorded its own label (_github_apply_label())
\* and a webhook or the replay confirmed it (confirm_label_webhook(),
\* replay_label_webhooks_after_delivery()); and no later commit of a handler, no failure
\* and no retry by the operator takes that back.
THEOREM GrantsAreDelivered ==
    ASSUME MaxLapses = 0
    PROVE  Spec => []GrantHasDelivery
<1>1. DeliveryInv => GrantHasDelivery
  BY DEF DeliveryInv
<1> QED
  BY <1>1, DeliveryHolds, PTL

\* Under the same assumption a round gets at most one message in Slack and one comment on
\* the issue, wherever a worker dies or an answer is lost in _slack_approval_request() and
\* _ensure_comment(), however often the row is retried and by whom.
THEOREM EveryWriteOnce ==
    ASSUME MaxLapses = 0
    PROVE  Spec => []WritesOnce
<1>1. DeliveryInv => WritesOnce
  <2> SUFFICES ASSUME DeliveryInv, NEW r \in Rounds
               PROVE  comments[r] <= 1 /\ Cardinality(Messages(r)) <= 1
    BY DEF WritesOnce
  <2>1. comments[r] <= 1 /\ \A s, t \in Messages(r) : s = t
    BY DEF DeliveryInv, GitHubOnce, GitHubRound, SlackOnce, SlackRound
  <2>2. CASE Messages(r) = {}
    BY <2>1, <2>2, FS_EmptySet
  <2>3. ASSUME NEW t \in Messages(r)
        PROVE  Cardinality(Messages(r)) = 1
    <3>1. Messages(r) = {t}
      BY <2>1, <2>3
    <3> QED
      BY <3>1, FS_Singleton
  <2> QED
    BY <2>1, <2>2, <2>3
<1> QED
  BY <1>1, DeliveryHolds, PTL

\* Under the same assumption the buttons of an open round work: every message it has in
\* Slack carries the token whose hash the row holds, so a click finds the round
\* (process_slack_action(); _slack_approval_request() makes a token only when no message is out).
THEOREM ButtonsAlwaysWork ==
    ASSUME MaxLapses = 0
    PROVE  Spec => []ButtonsWork
<1>1. DeliveryInv => ButtonsWork
  BY DEF DeliveryInv, SlackOnce, SlackRound, ButtonsWork
<1> QED
  BY <1>1, DeliveryHolds, PTL
=============================================================================
