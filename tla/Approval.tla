------------------------------- MODULE Approval -------------------------------
(***************************************************************************)
(* The approval of one case: rounds and decisions (approvals.py), the       *)
(* outbox that tells Slack and GitHub about them (worker/outbox.py), the    *)
(* signed label webhook that confirms one (worker/processor.py) and the     *)
(* operator's actions (api/operator.py).                                    *)
(*                                                                          *)
(* A transaction that holds the row locks is one action, its calls to       *)
(* Slack and GitHub included.  An outbox handler commits before it writes   *)
(* to the outside; that commit gives the locks up, so each of its           *)
(* transactions is an action, each write to the outside is another, and     *)
(* between them it goes on with the rows as its session loaded them         *)
(* (expire_on_commit=False).                                                *)
(***************************************************************************)
EXTENDS Lifecycle, Naturals, FiniteSets, FiniteSetsExt

CONSTANTS Loops,        \* the worker's loops
          worker_id,    \* the process each loop belongs to
          MaxRounds,    \* bound: triage attempts, and so rounds
          MaxTokens,    \* bound: tokens generated for a round
          MaxEvents,    \* bound: labeled webhooks GitHub sends
          outbox_max_attempts,
          MayRefuse,    \* can Slack and GitHub refuse a call for good?
          MaxCrashes,   \* bound: worker processes that die
          MaxFaults,    \* bound: failed or unanswered calls, lost webhooks
          MaxLapses,    \* bound: leases that lapse, and events that stall, under a running job
          MaxOperator,  \* bound: operator actions and failures of the case
          MaxHuman      \* bound: label changes made by people

Rounds == 1..MaxRounds
Tokens == 1..MaxTokens
Events == 1..MaxEvents

ASSUME ConstantsAssumption ==
    /\ IsFiniteSet(Loops) /\ Loops # {}
    /\ DOMAIN worker_id = Loops /\ \A l \in Loops : worker_id[l] # "none"
    /\ MayRefuse \in BOOLEAN
    /\ {MaxRounds, MaxTokens, outbox_max_attempts} \subseteq Nat \ {0}
    /\ {MaxEvents, MaxCrashes, MaxFaults, MaxLapses, MaxOperator, MaxHuman} \subseteq Nat

VARIABLES
    state,     \* Case.state
    attempt,   \* the number of the newest triage attempt
    req,       \* the approval_requests row of each attempt
    due,       \* the rounds whose token_expires_at has passed
    row,       \* the notification_outbox rows: one per round and kind
    update,    \* the rounds with a status-update row in the outbox
    job,       \* what each loop's dispatcher is doing
    posted,    \* Slack: the messages of each round, by token, and what they show
    labelled,  \* GitHub: is the remediation label on the issue?
    comments,  \* GitHub: how many comments each round has
    event,     \* the labeled webhooks: where each one is
    seen,      \* Case.state as the event's job loaded it
    budget     \* what is left of the bounds

vars == <<state, attempt, req, due, row, update, job, posted, labelled,
          comments, event, seen, budget>>

\* The outbox kinds with steps of their own: the approval request in Slack, the
\* label with its audit comment, the comment on a rejection.
Kinds == {"slack_approval_request", "apply_remediation_label", "rejection_comment"}
Rows == Rounds \X Kinds

Decisions == {"PENDING", "APPROVED", "REJECTED", "EXPIRED", "SUPERSEDED"}
Shown == {"AWAITING", "PENDING_GITHUB", "LABEL_APPLIED", "DELIVERY_FAILED",
          "REJECTED", "EXPIRED", "SUPERSEDED"}

Requests ==
    [decision : Decisions \cup {"NONE"},           \* NONE: no row yet
     notification : {"PENDING", "SENDING", "SENT", "FAILED"},
     token : Tokens \cup {0},                      \* action_token_hash, live or retired
     ts : Tokens \cup {0},                         \* slack_message_ts
     delivery : {"NOT_REQUESTED", "PENDING", "LABEL_APPLIED", "CONFIRMED", "FAILED"},
     requested : BOOLEAN, applied : BOOLEAN,       \* label_requested_at, label_applied_at
     intent : BOOLEAN, comment : BOOLEAN]          \* comment_requested_at, github_comment_id

NoRequest ==
    [decision |-> "NONE", notification |-> "PENDING", token |-> 0, ts |-> 0,
     delivery |-> "NOT_REQUESTED", requested |-> FALSE, applied |-> FALSE,
     intent |-> FALSE, comment |-> FALSE]

NoRow == [status |-> "none", attempts |-> 0, claimed_by |-> "none", lapsed |-> FALSE]

PCs == {"idle", "claimed", "post", "posted", "add", "added", "replay", "note",
        "comment", "commented", "fail"}

\* snap and case are the rows in the handler's session; dirty, that the session holds
\* an uncommitted confirmation; permanent, that the failure is not to be retried.
Idle == [pc |-> "idle", at |-> <<1, "slack_approval_request">>, snap |-> NoRequest,
         case |-> "RECEIVED", dirty |-> FALSE, permanent |-> FALSE]

TypeOK ==
    /\ state \in CaseState
    /\ attempt \in Rounds
    /\ req \in [Rounds -> Requests]
    /\ due \subseteq Rounds
    /\ \A w \in Rows : /\ row[w].status \in {"none", "PENDING", "SENT", "FAILED"}
                       /\ row[w].attempts \in 0..(outbox_max_attempts + MaxCrashes + MaxLapses)
    /\ update \subseteq {r \in Rounds : req[r].ts # 0}
    /\ \A l \in Loops : /\ job[l].pc \in PCs /\ job[l].at \in Rows
                        /\ job[l].snap \in Requests
    /\ posted \in [Rounds -> [Tokens -> Shown \cup {"absent"}]]
    /\ labelled \in BOOLEAN
    /\ comments \in [Rounds -> Nat]
    /\ event \in [Events -> {"none", "sent", "received", "loaded", "processed", "old",
                            "lost"}]
    /\ seen \in [Events -> CaseState]

Init ==
    /\ state = "TRIAGING"
    /\ attempt = 1
    /\ req = [r \in Rounds |-> NoRequest]
    /\ due = {}
    /\ row = [w \in Rows |-> NoRow]
    /\ update = {}
    /\ job = [l \in Loops |-> Idle]
    /\ posted = [r \in Rounds |-> [t \in Tokens |-> "absent"]]
    /\ labelled = FALSE
    /\ comments = [r \in Rounds |-> 0]
    /\ event = [e \in Events |-> "none"]
    /\ seen = [e \in Events |-> "RECEIVED"]
    /\ budget = [crashes |-> MaxCrashes, faults |-> MaxFaults, lapses |-> MaxLapses,
                 operator |-> MaxOperator, human |-> MaxHuman]
-----------------------------------------------------------------------------
\* Helpers

slack == <<posted>>
github == <<labelled, comments>>
webhooks == <<event, seen>>

Spend(b) == budget[b] > 0 /\ budget' = [budget EXCEPT ![b] = @ - 1]

\* open_request_for_case(): the newest round, 0 when there is none.
Newest == Max({0} \cup {r \in Rounds : req[r].decision # "NONE"})

\* is_current_request(): the newest round, of the newest triage attempt.
is_current_request(r) == r = Newest /\ r = attempt

New(k, r) == [row EXCEPT ![<<r, k>>] = [NoRow EXCEPT !.status = "PENDING"]]

\* Mutant: an update is queued for a message that is not known yet.
StatusUpdate_Always(r) == update \cup {r}

\* _enqueue_status_update(): only a round whose message is known gets an update.
StatusUpdate(r) == IF req[r].ts = 0 THEN update ELSE update \cup {r}

\* message_status()
message_status(q) ==
    CASE q.decision \in {"REJECTED", "EXPIRED", "SUPERSEDED"} -> q.decision
      [] q.decision = "APPROVED" /\ q.delivery = "CONFIRMED" -> "LABEL_APPLIED"
      [] q.decision = "APPROVED" /\ q.delivery = "FAILED" -> "DELIVERY_FAILED"
      [] q.decision = "APPROVED" /\ q.delivery \notin {"CONFIRMED", "FAILED"} -> "PENDING_GITHUB"
      [] OTHER -> "AWAITING"
-----------------------------------------------------------------------------
\* Triage: the worker's _finish_triage() and the ways back to it

\* Mutant: the rounds of earlier attempts stay open.
create_approval_request_KeepsOld ==
    [req EXCEPT ![attempt] = [NoRequest EXCEPT !.decision = "PENDING"]]

\* create_approval_request(): the earlier undecided rounds are superseded, and lose
\* their tokens, in the transaction that inserts the new one.
create_approval_request ==
    [r \in Rounds |->
        IF r = attempt THEN [NoRequest EXCEPT !.decision = "PENDING"]
        ELSE IF req[r].decision = "PENDING"
        THEN [req[r] EXCEPT !.decision = "SUPERSEDED", !.token = 0]
        ELSE req[r]]

\* _finish_triage(): the result, its round and the Slack row are one commit.
FinishTriage ==
    /\ state = "TRIAGING"
    /\ state' = "AWAITING_REMEDIATION_APPROVAL"
    /\ req' = create_approval_request
    /\ row' = New("slack_approval_request", attempt)
    /\ update' = update \cup
         {r \in Rounds : req[r].decision = "PENDING" /\ req[r].ts # 0}
    /\ UNCHANGED <<attempt, due, job, slack, github, webhooks, budget>>

\* The case leaves its wait: the operator cancels it, or a worker fails it (an event
\* of the case has used up its attempts).
LeaveWait ==
    /\ state \in {"AWAITING_REMEDIATION_APPROVAL", "APPROVAL_DELIVERY_FAILED"}
    /\ state' \in {"CANCELLED", "FAILED"}
    /\ Spend("operator")
    /\ UNCHANGED <<attempt, req, due, row, update, job, slack, github, webhooks>>

\* The operator's retry of a failed case, below the attempt cap.
RetryTriage ==
    /\ state = "FAILED"
    /\ attempt < MaxRounds
    /\ state' = "RECEIVED"
    /\ UNCHANGED <<attempt, req, due, row, update, job, slack, github, webhooks, budget>>

\* The next attempt's row is inserted: from here on the old round is not current.
StartTriage ==
    /\ state = "RECEIVED"
    /\ state' = "TRIAGING"
    /\ attempt' = attempt + 1
    /\ UNCHANGED <<req, due, row, update, job, slack, github, webhooks, budget>>

\* The remediation pipeline takes an approved case on.
StartRemediation ==
    /\ state = "REMEDIATION_APPROVED"
    /\ state' = "PROBE_VALIDATING_BASE"
    /\ UNCHANGED <<attempt, req, due, row, update, job, slack, github, webhooks, budget>>
-----------------------------------------------------------------------------
\* Slack: process_slack_action(), under the locks of the round and the case

\* token_expires_at passes.
TokenExpires(r) ==
    /\ req[r].decision = "PENDING"
    /\ r \notin due
    /\ Spend("operator")
    /\ due' = due \cup {r}
    /\ UNCHANGED <<state, attempt, req, row, update, job, slack, github, webhooks>>

\* A click on message t of round r finds the row by the token's live or retired hash.
Resolves(r, t) == posted[r][t] # "absent" /\ req[r].token = t

\* The checks a decision has to pass: still open, not expired, current, case waiting.
Decidable(r) ==
    /\ req[r].decision = "PENDING"
    /\ r \notin due
    /\ is_current_request(r)
    /\ state = "AWAITING_REMEDIATION_APPROVAL"

ClickApprove(r, t) ==
    /\ Resolves(r, t)
    /\ Decidable(r)
    /\ req' = [req EXCEPT ![r].decision = "APPROVED", ![r].delivery = "PENDING"]
    /\ row' = New("apply_remediation_label", r)
    /\ update' = StatusUpdate(r)
    /\ UNCHANGED <<state, attempt, due, job, slack, github, webhooks, budget>>

ClickReject(r, t) ==
    /\ Resolves(r, t)
    /\ Decidable(r)
    /\ req' = [req EXCEPT ![r].decision = "REJECTED", ![r].delivery = "NOT_REQUESTED"]
    /\ state' = "REMEDIATION_REJECTED"
    /\ row' = New("rejection_comment", r)
    /\ update' = StatusUpdate(r)
    /\ UNCHANGED <<attempt, due, job, slack, github, webhooks, budget>>

\* expire_request(): only an open round, whose buttons stop working.
expire_request(r) ==
    /\ req[r].decision = "PENDING"
    /\ req' = [req EXCEPT ![r].decision = "EXPIRED"]
    /\ update' = StatusUpdate(r)

\* A click on an open round whose time is up closes it.
ClickExpired(r, t) ==
    /\ Resolves(r, t)
    /\ r \in due
    /\ expire_request(r)
    /\ UNCHANGED <<state, attempt, due, row, job, slack, github, webhooks, budget>>

\* The operator's expire_approval().
ExpireApproval(r) ==
    /\ expire_request(r)
    /\ Spend("operator")
    /\ UNCHANGED <<state, attempt, due, row, job, slack, github, webhooks>>
-----------------------------------------------------------------------------
\* GitHub: the label and its signed webhook

\* The label is put on the issue; GitHub announces it when it was not there.
PutLabel ==
    /\ labelled' = TRUE
    /\ IF labelled THEN UNCHANGED event
       ELSE \E e \in Events : /\ event[e] = "none"
                              /\ \A d \in Events : d < e => event[d] # "none"
                              /\ event' = [event EXCEPT ![e] = "sent"]

\* Somebody else adds or removes the label.
HumanLabels ==
    /\ Spend("human")
    /\ \/ ~labelled /\ PutLabel
       \/ labelled /\ labelled' = FALSE /\ UNCHANGED event
    /\ UNCHANGED <<state, attempt, req, due, row, update, job, slack, comments, seen>>

\* The webhook arrives and is stored, or it is lost: GitHub does not send it again.
WebhookArrives(e) ==
    /\ event[e] = "sent"
    /\ \/ event' = [event EXCEPT ![e] = "received"] /\ UNCHANGED budget
       \/ event' = [event EXCEPT ![e] = "lost"] /\ Spend("faults")
    /\ UNCHANGED <<state, attempt, req, due, row, update, job, slack, github, seen>>

\* Mutant: any approved round is confirmed, whether or not its label went out.
confirms_Early(r, q, s) ==
    /\ r # 0
    /\ q.decision = "APPROVED"
    /\ is_current_request(r)
    /\ s \in {"AWAITING_REMEDIATION_APPROVAL", "APPROVAL_DELIVERY_FAILED"}

\* confirm_label_webhook(): does a labeled webhook confirm round r, with the round's
\* row q and the case's state s as the session has them?
confirms(r, q, s) ==
    /\ r # 0
    /\ q.decision = "APPROVED"
    /\ is_current_request(r)
    /\ s \in {"AWAITING_REMEDIATION_APPROVAL", "APPROVAL_DELIVERY_FAILED"}
    /\ q.applied /\ q.delivery = "LABEL_APPLIED"

\* The event's transaction, with the case in the state s that was loaded before the
\* lock.  The case moves if it is still in that state; the row is CONFIRMED and the
\* event PROCESSED either way.
Confirm(e, s) ==
    LET r == Newest
    IN  /\ event' = [event EXCEPT ![e] = "processed"]
        /\ IF r # 0 /\ confirms(r, req[r], s)
           THEN /\ req' = [req EXCEPT ![r].delivery = "CONFIRMED"]
                /\ IF state = s
                   THEN state' = "REMEDIATION_APPROVED" /\ update' = StatusUpdate(r)
                   ELSE UNCHANGED <<state, update>>
           ELSE UNCHANGED <<req, state, update>>
        /\ UNCHANGED <<attempt, due, row, job, slack, github, seen, budget>>

\* process_event() for a labeled webhook.
ProcessEvent(e) == event[e] = "received" /\ Confirm(e, state)

\* A job that is held up between loading the case and locking it.
LoadEvent(e) ==
    /\ event[e] = "received"
    /\ Spend("lapses")
    /\ event' = [event EXCEPT ![e] = "loaded"]
    /\ seen' = [seen EXCEPT ![e] = state]
    /\ UNCHANGED <<state, attempt, req, due, row, update, job, slack, github>>

ConfirmEvent(e) == event[e] = "loaded" /\ Confirm(e, seen[e])
-----------------------------------------------------------------------------
\* The outbox: claiming, failing, finishing

Free(w) == row[w].claimed_by = "none" \/ row[w].lapsed

\* claim(): a pending row that nobody holds a running lease on.
Claim(l, w) ==
    /\ job[l].pc = "idle"
    /\ row[w].status = "PENDING"
    /\ Free(w)
    /\ row' = [row EXCEPT ![w].attempts = @ + 1, ![w].claimed_by = worker_id[l],
                          ![w].lapsed = FALSE]
    /\ job' = [job EXCEPT ![l] = [Idle EXCEPT !.pc = "claimed", !.at = w]]
    /\ UNCHANGED <<state, attempt, req, due, update, slack, github, webhooks, budget>>

\* lease_expires_at passes: nobody works on the row any more, or its loop is slow.
LeaseLapses(w) ==
    /\ row[w].status = "PENDING"
    /\ row[w].claimed_by # "none" /\ ~row[w].lapsed
    /\ row' = [row EXCEPT ![w].lapsed = TRUE]
    /\ IF \E l \in Loops : job[l].pc # "idle" /\ job[l].at = w
       THEN Spend("lapses") ELSE UNCHANGED budget
    /\ UNCHANGED <<state, attempt, req, due, update, job, slack, github, webhooks>>

\* A worker process dies with all its loops.
Crash(l) ==
    /\ job[l].pc # "idle"
    /\ Spend("crashes")
    /\ job' = [m \in Loops |-> IF worker_id[m] = worker_id[l] THEN Idle ELSE job[m]]
    /\ UNCHANGED <<state, attempt, req, due, row, update, slack, github, webhooks>>

\* dispatch() finds the row claimed by another process and leaves it.
NotOurs(l) ==
    /\ job[l].pc = "claimed"
    /\ row[job[l].at].claimed_by # worker_id[l]
    /\ job' = [job EXCEPT ![l] = Idle]
    /\ UNCHANGED <<state, attempt, req, due, row, update, slack, github, webhooks, budget>>

Ours(l, k) ==
    /\ job[l].pc = "claimed"
    /\ job[l].at[2] = k
    /\ row[job[l].at].claimed_by = worker_id[l]

Failing(l, permanent) ==
    job' = [job EXCEPT ![l] = [Idle EXCEPT !.pc = "fail", !.at = job[l].at,
                                           !.permanent = permanent]]

\* How a call can fail: for good when Slack or GitHub refuses it, else to be tried
\* again; a lost answer is never a refusal.
Failures(l) ==
    {permanent \in BOOLEAN :
        permanent => MayRefuse /\ job[l].pc \notin {"posted", "added", "commented"}}

\* A call fails without effect, or its answer is lost after it took effect: the
\* exception discards what the handler has not committed.
CallFails(l) ==
    /\ \/ Ours(l, job[l].at[2])
       \/ job[l].pc \in {"post", "add", "note", "comment"}
       \/ job[l].pc \in {"posted", "added", "commented"}
    /\ Spend("faults")
    /\ \E permanent \in Failures(l) : Failing(l, permanent)
    /\ UNCHANGED <<state, attempt, req, due, row, update, slack, github, webhooks>>

\* _fail() and _on_terminal_failure(): retry later, or give the row up.
Fail(l) ==
    LET w == job[l].at
        r == w[1]
        terminal == job[l].permanent \/ row[w].attempts >= outbox_max_attempts
        undelivered == /\ terminal /\ w[2] = "apply_remediation_label"
                       /\ ~req[r].applied
    IN  /\ job[l].pc = "fail"
        /\ row' = [row EXCEPT ![w].claimed_by = "none", ![w].lapsed = FALSE,
                              ![w].status = IF terminal THEN "FAILED" ELSE @]
        /\ req' = [req EXCEPT
             ![r].notification = IF terminal /\ w[2] = "slack_approval_request"
                                 THEN "FAILED" ELSE @,
             ![r].delivery = IF undelivered THEN "FAILED" ELSE @]
        /\ state' = IF undelivered /\ state = "AWAITING_REMEDIATION_APPROVAL"
                    THEN "APPROVAL_DELIVERY_FAILED" ELSE state
        /\ update' = IF undelivered THEN StatusUpdate(r) ELSE update
        /\ job' = [job EXCEPT ![l] = Idle]
        /\ UNCHANGED <<attempt, due, slack, github, webhooks, budget>>

\* The end of dispatch(): the row is SENT and the loop free.
Sent(l) ==
    /\ row' = [row EXCEPT ![job[l].at] = [@ EXCEPT !.status = "SENT",
                                          !.claimed_by = "none", !.lapsed = FALSE]]
    /\ job' = [job EXCEPT ![l] = Idle]

\* The operator's retry_outbox(): a failed row starts over.
RetryOutbox(w) ==
    LET r == w[1]
    IN  /\ row[w].status = "FAILED"
        /\ Spend("operator")
        /\ row' = [row EXCEPT ![w] = [NoRow EXCEPT !.status = "PENDING"]]
        /\ req' = [req EXCEPT
             ![r].delivery = IF w[2] = "apply_remediation_label" /\ @ = "FAILED"
                             THEN "PENDING" ELSE @,
             ![r].notification = IF w[2] = "slack_approval_request" /\ @ = "FAILED"
                                 THEN "PENDING" ELSE @]
        /\ UNCHANGED <<state, attempt, due, update, job, slack, github, webhooks>>
-----------------------------------------------------------------------------
\* The outbox: the approval request in Slack

Obsolete(r) ==
    \/ req[r].notification = "SENT"
    \/ req[r].decision # "PENDING"
    \/ state # "AWAITING_REMEDIATION_APPROVAL"

Messages(r) == {t \in Tokens : posted[r][t] # "absent"}

\* Mutant: the committed token is not taken as a sign of an earlier post.
Reconciles_Never(r) == FALSE

\* A committed token says that a message may be out: find_message() looks for it.
Reconciles(r) == req[r].token # 0 /\ Messages(r) # {}

\* _slack_approval_request() up to its commit: skip, reconcile, or a new token.
BeginNotify(l) ==
    LET r == job[l].at[1]
        t == req[r].token + 1
    IN  /\ Ours(l, "slack_approval_request")
        /\ \/ Obsolete(r) /\ Sent(l) /\ UNCHANGED req
           \/ /\ ~Obsolete(r) /\ Reconciles(r)
              /\ \E m \in Messages(r) :
                   req' = [req EXCEPT ![r].notification = "SENT", ![r].ts = m]
              /\ Sent(l)
           \/ /\ ~Obsolete(r) /\ ~Reconciles(r)
              /\ t \in Tokens
              /\ req' = [req EXCEPT ![r].notification = "SENDING", ![r].token = t]
              /\ job' = [job EXCEPT ![l].pc = "post", ![l].snap = req'[r]]
              /\ UNCHANGED row
        /\ UNCHANGED <<state, attempt, due, update, slack, github, webhooks, budget>>

\* chat.postMessage
Post(l) ==
    /\ job[l].pc = "post"
    /\ posted' = [posted EXCEPT ![job[l].at[1]][job[l].snap.token] = "AWAITING"]
    /\ job' = [job EXCEPT ![l].pc = "posted"]
    /\ UNCHANGED <<state, attempt, req, due, row, update, github, webhooks, budget>>

\* _mark_notified() and the commit.
MarkNotified(l) ==
    /\ job[l].pc = "posted"
    /\ req' = [req EXCEPT ![job[l].at[1]].notification = "SENT",
                          ![job[l].at[1]].ts = job[l].snap.token]
    /\ Sent(l)
    /\ UNCHANGED <<state, attempt, due, update, slack, github, webhooks, budget>>

\* _slack_status_update(): the message is rendered from the row under its lock; or
\* the row fails for good.
DeliverUpdate(r) ==
    /\ r \in update
    /\ update' = update \ {r}
    /\ \/ /\ posted' = [posted EXCEPT ![r][req[r].ts] = message_status(req[r])]
          /\ UNCHANGED budget
       \/ Spend("faults") /\ UNCHANGED posted
    /\ UNCHANGED <<state, attempt, req, due, row, job, github, webhooks>>
-----------------------------------------------------------------------------
\* The outbox: the label and the audit comment

\* What _github_apply_label() requires of the round and the case.
Labelable(r) ==
    /\ req[r].decision = "APPROVED"
    /\ is_current_request(r)
    /\ \/ state \in {"AWAITING_REMEDIATION_APPROVAL", "APPROVAL_DELIVERY_FAILED"}
       \/ state = "REMEDIATION_APPROVED" /\ req[r].applied

\* Our label is on the issue: label_applied_at and LABEL_APPLIED are committed.
Applied(q) == [q EXCEPT !.applied = TRUE, !.delivery = "LABEL_APPLIED"]

\* _github_apply_label() up to its first commit.
BeginLabel(l) ==
    LET r == job[l].at[1]
        Goto(pc, q) == job' = [job EXCEPT ![l].pc = pc, ![l].snap = q, ![l].case = state]
    IN  /\ Ours(l, "apply_remediation_label")
        /\ \/ ~Labelable(r) /\ Failing(l, TRUE) /\ UNCHANGED <<req, event>>
           \/ /\ Labelable(r) /\ req[r].applied
              /\ Goto("note", req[r])
              /\ UNCHANGED <<req, event>>
           \/ /\ Labelable(r) /\ ~req[r].applied
              /\ req[r].requested /\ labelled          \* an earlier POST landed
              /\ req' = [req EXCEPT ![r] = Applied(@)]
              /\ Goto("replay", req'[r])
              /\ UNCHANGED event
           \/ /\ Labelable(r) /\ ~req[r].applied
              /\ ~(req[r].requested /\ labelled)
              /\ req' = [req EXCEPT ![r].requested = TRUE]
              /\ Goto("add", req'[r])
              \* what was processed so far lies before label_requested_at
              /\ event' = [e \in Events |-> IF event[e] = "processed" THEN "old" ELSE event[e]]
        /\ UNCHANGED <<state, attempt, due, row, update, slack, github, seen, budget>>

\* add_label()
AddLabel(l) ==
    /\ job[l].pc = "add"
    /\ PutLabel
    /\ job' = [job EXCEPT ![l].pc = "added"]
    /\ UNCHANGED <<state, attempt, req, due, row, update, slack, comments, seen, budget>>

CommitLabel(l) ==
    LET r == job[l].at[1]
    IN  /\ job[l].pc = "added"
        /\ req' = [req EXCEPT ![r] = Applied(@)]
        /\ job' = [job EXCEPT ![l].pc = "replay", ![l].snap = Applied(@)]
        /\ UNCHANGED <<state, attempt, due, row, update, slack, github, webhooks, budget>>

\* Mutant: a webhook that came while the label was on its way is not looked at again.
Missed_None == {}

\* The labeled deliveries processed since label_requested_at.
Missed == {e \in Events : event[e] = "processed"}

\* replay_label_webhooks_after_delivery(): the confirmation is run again, on the rows
\* the session loaded before the label went out.  A case that has moved meanwhile is
\* left alone, but the session keeps the CONFIRMED it has already written.
Replay(l) ==
    LET r == job[l].at[1]
    IN  /\ job[l].pc = "replay"
        /\ \/ /\ Missed = {} \/ ~confirms(r, job[l].snap, job[l].case)
              /\ job' = [job EXCEPT ![l].pc = "note"]
              /\ UNCHANGED <<state, req, update>>
           \/ /\ Missed # {} /\ confirms(r, job[l].snap, job[l].case)
              /\ IF state = job[l].case
                 THEN /\ state' = "REMEDIATION_APPROVED"
                      /\ req' = [req EXCEPT ![r].delivery = "CONFIRMED"]
                      /\ update' = StatusUpdate(r)
                      /\ job' = [job EXCEPT ![l].pc = "note"]
                 ELSE /\ job' = [job EXCEPT ![l].pc = "note", ![l].dirty = TRUE]
                      /\ UNCHANGED <<state, req, update>>
        /\ UNCHANGED <<attempt, due, row, slack, github, webhooks, budget>>

\* What a commit writes of the delivery status.
Flushed(l, q) == IF job[l].dirty THEN [q EXCEPT !.delivery = "CONFIRMED"] ELSE q

Recorded(l, q) ==
    LET p == [Flushed(l, q) EXCEPT !.comment = TRUE]
    IN  IF job[l].snap.delivery = "FAILED" THEN [p EXCEPT !.delivery = "LABEL_APPLIED"] ELSE p

\* The comment is on record: the last commit of the handler.
Commented(l) ==
    LET r == job[l].at[1]
    IN  /\ req' = [req EXCEPT ![r] = Recorded(l, @)]
        /\ update' = IF job[l].at[2] = "apply_remediation_label" THEN StatusUpdate(r) ELSE update
        /\ Sent(l)

\* Mutant: an intent that is on record is not looked up at GitHub.
FoundComment_Never(r) == FALSE

\* find_comment(): the round's marker is on the issue.
FoundComment(r) == comments[r] > 0

\* _ensure_comment() up to the POST: an intent of an earlier attempt makes it search,
\* a first attempt commits the intent.
EnsureComment(l) ==
    LET r == job[l].at[1]
        q == job[l].snap
    IN  /\ job[l].pc = "note"
        /\ \/ q.comment /\ Commented(l)
           \/ ~q.comment /\ q.intent /\ FoundComment(r) /\ Commented(l)
           \/ /\ ~q.comment /\ q.intent /\ ~FoundComment(r)
              /\ job' = [job EXCEPT ![l].pc = "comment"]
              /\ UNCHANGED <<req, row, update>>
           \/ /\ ~q.comment /\ ~q.intent
              /\ req' = [req EXCEPT ![r] = [Flushed(l, @) EXCEPT !.intent = TRUE]]
              /\ job' = [job EXCEPT ![l].pc = "comment", ![l].dirty = FALSE]
              /\ UNCHANGED <<row, update>>
        /\ UNCHANGED <<state, attempt, due, slack, github, webhooks, budget>>

\* create_comment()
CreateComment(l) ==
    /\ job[l].pc = "comment"
    /\ comments' = [comments EXCEPT ![job[l].at[1]] = @ + 1]
    /\ job' = [job EXCEPT ![l].pc = "commented"]
    /\ UNCHANGED <<state, attempt, req, due, row, update, slack, labelled, webhooks, budget>>

RecordComment(l) ==
    /\ job[l].pc = "commented"
    /\ Commented(l)
    /\ UNCHANGED <<state, attempt, due, slack, github, webhooks, budget>>

\* _github_rejection_comment() up to _ensure_comment().
BeginRejection(l) ==
    LET r == job[l].at[1]
    IN  /\ Ours(l, "rejection_comment")
        /\ \/ req[r].decision # "REJECTED" /\ Failing(l, TRUE) /\ UNCHANGED row
           \/ req[r].decision = "REJECTED" /\ req[r].comment /\ Sent(l)
           \/ /\ req[r].decision = "REJECTED" /\ ~req[r].comment
              /\ job' = [job EXCEPT ![l].pc = "note", ![l].snap = req[r]]
              /\ UNCHANGED row
        /\ UNCHANGED <<state, attempt, req, due, update, slack, github, webhooks, budget>>
-----------------------------------------------------------------------------
Dispatch(l) ==
    \/ NotOurs(l) \/ BeginNotify(l) \/ Post(l) \/ MarkNotified(l)
    \/ BeginLabel(l) \/ AddLabel(l) \/ CommitLabel(l) \/ Replay(l)
    \/ EnsureComment(l) \/ CreateComment(l) \/ RecordComment(l)
    \/ BeginRejection(l) \/ Fail(l)

People ==
    \/ \E r \in Rounds, t \in Tokens : ClickApprove(r, t) \/ ClickReject(r, t)
                                       \/ ClickExpired(r, t)
    \/ \E r \in Rounds : TokenExpires(r) \/ ExpireApproval(r)
    \/ \E w \in Rows : RetryOutbox(w)
    \/ HumanLabels \/ LeaveWait \/ RetryTriage

Next ==
    \/ FinishTriage \/ StartTriage \/ StartRemediation
    \/ People
    \/ \E e \in Events : WebhookArrives(e) \/ ProcessEvent(e) \/ LoadEvent(e)
                          \/ ConfirmEvent(e)
    \/ \E l \in Loops : Crash(l) \/ CallFails(l) \/ Dispatch(l)
    \/ \E l \in Loops, w \in Rows : Claim(l, w)
    \/ \E w \in Rows : LeaseLapses(w)
    \/ \E r \in Rounds : DeliverUpdate(r)

Spec == Init /\ [][Next]_vars

\* The workers run: rows and events are claimed and worked off, lapsed leases noticed.
\* Nobody is obliged to click.
Fairness ==
    /\ WF_vars(FinishTriage) /\ WF_vars(StartTriage) /\ WF_vars(StartRemediation)
    /\ \A l \in Loops : WF_vars(Dispatch(l)) /\ WF_vars(\E w \in Rows : Claim(l, w))
    /\ \A w \in Rows : WF_vars(LeaseLapses(w) /\ budget' = budget)
    /\ \A e \in Events : /\ WF_vars(WebhookArrives(e) /\ budget' = budget)
                         /\ WF_vars(ProcessEvent(e)) /\ WF_vars(ConfirmEvent(e))
    /\ \A r \in Rounds : WF_vars(DeliverUpdate(r) /\ budget' = budget)

FairSpec == Spec /\ Fairness
-----------------------------------------------------------------------------
\* Properties

\* Remediation has been granted to the case.
Granted == state \in {"REMEDIATION_APPROVED", "PROBE_VALIDATING_BASE"}

\* The approval subsystem does what Decision.tla promises: every round is decided
\* once, a new round closes the ones before it, and whatever the order of clicks,
\* expiries, webhooks, replays, crashes and retries, remediation is granted only
\* while the newest round stands approved (process_slack_action(),
\* create_approval_request(), confirm_label_webhook()).
Abstract == INSTANCE Decision WITH
    newest <- Newest,
    verdict <- [r \in Rounds |-> req[r].decision],
    granted <- IF Granted THEN {Newest} ELSE {}

KeepsItsPromise == Abstract!Spec

\* A case that was granted remediation has a round for its newest triage attempt
\* whose label the worker itself put on the issue and GitHub confirmed; no webhook
\* that ran ahead of the worker, no label of somebody else and no stale session
\* gets a case there.
GrantHasDelivery ==
    Granted => /\ Newest = attempt
               /\ req[Newest].applied /\ req[Newest].delivery = "CONFIRMED"

\* Slack and GitHub get one message and one comment per round, although the worker
\* may die, or an answer may be lost, at any point of _slack_approval_request() and
\* _ensure_comment(), and the row is then retried by another loop or the operator.
WritesOnce ==
    \A r \in Rounds : comments[r] <= 1 /\ Cardinality(Messages(r)) <= 1

\* The only way for a click to find a round is the message whose token the row holds:
\* while a round can still be decided, no message it has in Slack is dead.
ButtonsWork ==
    \A r \in Rounds : \A t \in Messages(r) :
        req[r].decision = "PENDING" => req[r].token = t

\* An approval is not lost between Slack, the outbox, GitHub and the webhook: the case
\* is granted remediation, or it is visibly failed or cancelled, unless GitHub's only
\* webhook is lost or people change the label themselves.  The webhook may come before
\* the worker has recorded its label (replay_label_webhooks_after_delivery()).
ApprovalTakesEffect ==
    (state = "AWAITING_REMEDIATION_APPROVAL" /\ req[attempt].decision = "APPROVED")
        ~> \/ state # "AWAITING_REMEDIATION_APPROVAL"
           \/ \E e \in Events : event[e] = "lost"
           \/ budget.human < MaxHuman
-----------------------------------------------------------------------------
\* What the documentation says and the code does not keep

\* The threat model says that GitHub failures move the case to
\* APPROVAL_DELIVERY_FAILED "with the approval intact": the round the case stands in
\* is approved, and its delivery is what failed.
FailedDeliveryIsApproved ==
    state = "APPROVAL_DELIVERY_FAILED" => req[Newest].decision = "APPROVED"

\* approvals.py says that the outbox row stays authoritative "so the audit comment is
\* still posted": an approval whose label went out gets its comment.
AuditCommentPosted ==
    \A r \in Rounds : req[r].applied ~> comments[r] > 0
=============================================================================
