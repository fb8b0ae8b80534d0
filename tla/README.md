# Superset Devin remediator: TLA+ verification

This directory models the remediator's control: how a delivery becomes a case,
the worker loops that drive its paid Devin sessions, the approval that lets it
go on, the remediation pipeline with its independent probes, the operator who
interferes, and the leases that bound how much runs at once. TLC checks small
instances; TLAPS proves the properties that do not depend on the bounds.
Source paths are relative to `src/remediator/`.

## The system

A GitHub issue becomes a *case* (a PostgreSQL row). Several worker processes,
each with several asyncio loops, claim cases under a lease (`claimed_by`,
`lease_expires_at`), evaluate a rubric, run a bounded *triage* session at Devin,
ask for a human approval over Slack and a GitHub label, run a *remediation*
session, validate its pull request with a probe and wait for CI. All shared state is
in the database. Every step may crash, every HTTP call may fail or lose its
answer, and an operator may cancel, retry or reconcile a case at any moment.

| Component | State | Operations | What makes it correct |
|---|---|---|---|
| Life cycle (`lifecycle.py`) | `cases.state` | `transition()`: a compare-and-set on state and claim | only legal edges, no late overwrite |
| Session runner (`worker/devin_runner.py`) | `attempts` rows | create, attach, reconcile by tag, poll, settle, time out, terminate, reconcile a blocked session | one POST per operation key, one live attempt, nothing closed before its session stopped |
| Worker (`worker/__init__.py`) | case and event leases | claim, heartbeat, release, fail, abandon, reap | every case moves on; stale holders do no harm |
| Processor (`worker/processor.py`) | none | dispatch by state, rubric, finish triage | approvals rest on validated output |
| Operator API (`api/operator.py`) | none | cancel, retry, reconcile session, retry CI, probe or outbox, expire approval | no session lost or doubled |
| Capacity (`capacity.py`) | `capacity_leases`, `waiting_for`, `waiting_since` | acquire, renew, release, expire, reconcile | limits hold, keys are exclusive, waiters are served |
| Remediation pipeline (`worker/remediation.py`) | probe snapshots and executions, PR evidence, CI snapshots | dispatch, base probe, session, output, PR, head probe, CI | the verified head is the approved one |
| Approvals (`approvals.py`) | `approval_requests`, `approval_events` | request, Slack click, label confirmation, expiry, replay | one decision, on the result that was shown |
| Outbox (`worker/outbox.py`) | `notification_outbox` | claim, dispatch, back off, give up | at least once, in order, bounded |
| Webhook intake (`api/webhooks.py`) | `webhook_events` | verify, deduplicate, create the case | a redelivery changes nothing |
| Probes and verifier (`probes/`, `verifier/`) | one run slot | run, busy, time out | a busy or lost run is never a verdict |

The rest (clients, prompts, signatures, configuration, dashboard, metrics) is
I/O or presentation; `PROJECT.json` lists each part with its reason.

What is hard here: two loops on one case after a lease lapsed; a create whose
answer is lost; a cancel, a deadline and the session's own end at once; a crash
between any two commits; values read before an HTTP call and used after it;
several parties that release one slot; a queue kept in two nullable columns; a
webhook that overtakes the write it answers; a pull request whose head moves; a
probe that runs on after its client is gone.
`PROJECT.json` lists the hazards at their lines.

## Modules

**`Lifecycle.tla`** has the states, the transition table and the phases of
`lifecycle.py`, as constants. The other modules extend it.

**`TriageRunner.tla`** is one case in triage. Its variables are the case row
(`state`, `claim`, `leased`), the attempt rows (`att`), Devin's sessions
(`remote`, `posts`) and what each actor holds in memory (`job`: its step, the
case state and the attempt status *as last read*, the last session snapshot).
An action is one transaction, or one HTTP call with the commit that records its
outcome, so that everything else may come between two of them. `Commit` is a
transaction with a `transition()`: all of it if the compare-and-set succeeds,
otherwise the job ends the way `InvalidTransition` ends it.

- Several actions are one because the code holds a lock over them: allocating
  the ordinal locks the case row until the earlier sessions are settled
  (`Create`); a crash in the middle may still have made some of the DELETEs
  (`Crash`). `reconcile_session()` holds `FOR UPDATE` until its first commit.
- Devin is external. `Snapshot` is what `status.classify()` tells apart; a request
  in flight may land after its sender gave up. An API error on the POST is
  definitive, as `docs/architecture.md` has it; a transport error says nothing.
- A session that reports FINISHED or FAILED may only be idle
  (`remote_terminal = False`: `waiting_for_user` with an output, a live status with
  an error or billing detail). With `MayResume`, any stopped session may go on
  (`Resumed`) and answers anything from then on, while `_settle()` has closed its
  attempt without a DELETE.
- A duplicate insert stops the process, as the `IntegrityError` does; its claim is
  left to lapse.
- An operator vouches for an unresolved create only when there is no session.
- A slot is granted or denied here; `Capacity` says when. Outbox rows, ACU
  reports, failure texts and metrics are left out. `Claim` stands for both ways
  a loop gets a case (event or case); the event's own row is `WebhookIntake`'s.

**`Capacity.tla`** is several cases and the leases they compete for: probe
slots, resource keys, triage and remediation slots, the queue of
`waiting_since`, the heartbeat and the reaper. `acquire()` holds a per-kind
advisory lock until the commit, so it is one action with its caller's commit. A
lease's `expires_at` is reduced to "live" or "lapsed". `Lapsing` names which
leases may outlive their grace: those of an event's job (its heartbeat has no
case id), of a case without a job, of a termination under retry (nothing renews
it). A case moves here in larger steps than in `TriageRunner` (one `Evaluate`,
one `Create`, a finished remediation goes straight to the head probe), because
no lease changes in between. A session that is blocked for a human or times out
releases like one that failed or was cancelled, so these ends are folded. An
attempt row that has finished stays with its case until the job that ends it is
done, because `reconcile_finished()` and `_bind_lease()` still see it. The
lost-create lookup is part of `Create`. The path without a probe (no
keys are taken) and a resumption without an approved context are left out, and the
heartbeat's owner test is subsumed by the heartbeat being optional. A
remediation lease is one row scoped to the repository, as the code writes it
(`docs/concurrency.md:11` draws two).

**`Decision.tla`** is what the approval subsystem promises and nothing else:
rounds, one after the other; an open round is decided once; a new round closes
the open ones; remediation is granted once, in the name of the newest round,
while it stands approved.

**`Approval.tla`** is the approval of one case in the code: the
`approval_requests` row of each triage attempt, the outbox rows and the loops
that dispatch them, the messages in Slack, the label and the comments on GitHub
and the label webhooks on their way. It implements `Decision`
(`KeepsItsPromise`, with `newest` the newest row, `verdict` its decisions and
`granted` the round a case past its approval stands in).

- A transaction that holds the row locks is one action, with the calls it makes.
  The handlers commit *before* they write to the outside, which gives the locks
  up, so each of their transactions and each write is an action. Between them a
  handler goes on with the rows as its session loaded them
  (`expire_on_commit=False`); `job` keeps that copy.
- A click carries a token; `Resolves` is the hash lookup, so a click on an old
  message of a closed round finds nothing. Who may click, and the repeated
  delivery of one Slack action, are decided before the state is looked at.
- `event` follows a label webhook from GitHub through its row to the job that
  confirms it, with the case state that job had loaded.
- A call may be refused for good, fail, or succeed without its answer.
  Status updates are idempotent and have one action; ephemeral replies,
  remediation updates and the not-feasible comment are left out.

**`RemediationPipeline.tla`** is one approved case from `REMEDIATION_APPROVED` to
CI: dispatch and probe policy, the BASE probe, the session, its output, the pull
request, the HEAD probe, CI, and the operator's retries and cancels. A step that
ends in `transition()` is one action at its compare-and-set. One that waits for the
verifier, GitHub, a capacity lease or Devin, and commits what the compare-and-set
does not protect (a probe execution, an attempt, a CI snapshot) or uses what it read
before it waited, is a begin and an end, and `job` keeps the rows it loaded.

- The session starts in four steps, as in the code: `LoadContext` remembers a BASE
  run, `SettlePrevious` ends the sessions of blocked attempts, `Insert` creates the
  attempt and links that run to it, `Attach` binds the session. None but the last
  checks claim or state, so a loop that lost its claim inserts, re-links and POSTs
  too. The create and poll protocol itself is `TriageRunner`'s.
- `Ask` gives the worker any verdict, or INFRASTRUCTURE when there was no run or its
  answer was lost (`probes/remote.py:161`, `verifier/__init__.py:296`): nothing here
  relies on the verifier answering twice alike.
- `fail_case` may be refused: the states of the pipeline have no edge to
  TERMINATION_PENDING.
- Validators (`validate_remediation_output`, `_validate_pull_request`) keep their
  order and their outcomes, and what they look at is a choice. Commits are numbers,
  `pr` is the head GitHub has now and `head` the one the session named.
  `evaluate_checks` is an operator; `Green` is its reference.

**`Verifier.tla`** is what those answers come from: `RemoteProbeRunner`, the front with its
idempotency store (`bind`, `get`, `inflight`, `finish`, `abort`, eviction) and
the executor with its one slot, its time limits, its cleanup and its sweep of
the probe user's processes. A handler goes on when its client is gone. A process
is the script (`main`), a descendant with the run's marker or one that
`escaped` both group and marker. Busy answers (409) are kept apart from every
other.

- *Timing.* `Ask` waits until no handler of the same id is still binding: a
  re-ask after a worker's death comes at least one case lease later (300 s by
  default), and binding takes one `git log` with a 15 s limit. Without this, see
  "Seen while modelling".
- The ten rounds of the kill sweeps are taken as enough. The front's in-process
  execution has the same slot and sweep and is not modelled apart.

**`WebhookIntake.tla`** is the deliveries of one issue and the loops that compete
for them and for the case: the endpoint's unique delivery id, the event's claim
and lease, the unlocked read in `process_event()`, the insert that may lose, the
fence of `transition()`, and every way a job ends (`_iterate`). Triage is one
step; `PARKED` stands for every state it may leave the case in. An event job
renews the event's lease and not the case's; `CaseLeaseLapses` says so.

**`MC*.tla`** give the constants of the runs.

**`TriageRunnerProofs`, `CapacityProofs`, `ApprovalProofs`,
`RemediationPipelineProofs`, `VerifierProofs`, `WebhookIntakeProofs`** extend the
module they are named after and prove theorems about it;
**`ApprovalDeliveryProofs`** goes on from `ApprovalProofs`. **`SetBounds.tla`** has
the lemmas on numbers and cardinalities that several of them use.

Definitions named `X_...` and commented "Mutant" are plausible mistakes in X;
each property of a passing run is violated when its mutant replaces X.

## Runs

Deadlock is not checked: a closed case really stops.

| Run | Bounds | Result |
|---|---|---|
| `triage_safety` | 2 loops, operator, 2 attempts, 1 fault, sessions may be resumed | attempts, retained sessions, blocked cases and creates stay consistent |
| `triage_stall` | 1 attempt, 2 faults, a loop may outlive its lease | `OneCreatePerKey`, `FreshCreates`, `ApprovalRestsOnOutput`, `OnlyLegalMoves` do not need the lease |
| `triage_liveness` | 1 attempt, 2 faults, fair | a case that wants, runs or ends a session settles |
| `capacity_safety` | 3 cases, 2 repositories, a shared key, limit 2, 1 per repository, 1 fault | limits, key exclusion, a queue without duplicates |
| `capacity_leases` | 2 cases from triage through remediation, limit 1, a shared key, every kind of lapse, endless retries, 1 fault, fair | a waiting triage is admitted; the leases of a closed case come back for good |
| `approval_rounds` | 2 loops of a process, 2 rounds, 2 tokens, 1 webhook, refusals, 1 crash, 2 operator actions | `Approval` implements `Decision`; a grant has a label the worker put on and GitHub confirmed; one message and one comment per round; no dead buttons |
| `approval_delivery` | 1 round, 2 webhooks, 1 failed call, 1 lapse, 1 label change by a person, fair | an approval takes effect |
| `approval_wedge` | 1 round, 1 webhook, 1 crash, fair | *violation*: see below |
| `pipeline` | 2 loops, 1 required check, 2 attempts, 2 heads, 2 snapshots, 3 runs, 1 lapse, 2 operator actions | without the claim too: `CI_PASSED` is earned, one verified PR, a recorded verdict at head stands |
| `pipeline_rest` | 1 loop that renews in time, 2 checks, none required, 2 attempts, 2 snapshots, 1 head, 2 faults, 1 crash, 2 operator actions, fair | with lost answers and retried probes every session is authorised and a recorded verdict at head stands; a case in the pipeline comes to rest |
| `verifier` | 1 case, 3 handlers, 1 retry, 2 faults, fair | genuine verdicts, nothing outlives its run, one id runs once, busy is no verdict, every probe settles |
| `intake` | 2 deliveries, 2 loops, 2 attempts per event, 2 faults, fair | evaluated once, settled stays settled, no issue lost, deliveries settle |

Two loops are enough for a holder and a successor, two attempts for a session
and its replacement (the theorems hold for any number), three cases for a
holder, an older and a newer waiter. One loop is enough where no lease lapses: a loop
that died is its own successor. A fault is a crash, an error or a lost
answer at any step; the second lets the recovery from the first fail too. Two
rounds are an old and a new one, two tokens a first and a repeated
notification, two heads a push under way, two snapshots and attempts a
re-dispatch. `MaxRuns` is needed because BASE runs have no bound of their own: a
`fail_case()` that is refused leaves the case where it is, to be probed again; `pipeline`'s three
runs are one per snapshot and one at head, and `pipeline_rest`'s nine are never reached. Three handlers are an orphan, its successor and one that finds the
slot taken; a single case is enough because its own orphans compete with it.

With `MayStall`, the properties that rest on the lease (`OneActiveAttempt`,
`OneRetainedSession`, `BlockedCaseHasCause`, `ClosedAttemptWasStopped`,
`NoCreateBehindOpenAttempt`) fail; they are claimed for loops that renew in
time. `ApprovalRestsOnOutput` is claimed for sessions whose reported end is final
(`MayResume = FALSE`): one that is resumed between two reads may withdraw the
output a slower job is about to present. `SessionsWithinLimit` and `ExclusiveKeys` are claimed while no lease lapses,
`GrantHasDelivery`, `WritesOnce` and `ButtonsWork` while no outbox lease lapses
under its loop, `SpendIsAuthorised` while no lease lapses under a running job. The
pipeline's other invariants and `EvaluatedOnce` do not need the lease. `NoIssueLost` promises
that a case leaves `RECEIVED`; it may then be stranded (`triage_stranded`).

*Fairness.* In `TriageRunner` every loop keeps taking steps (the loop of
`Worker._run_loop` survives every error), a lease or backoff runs out, a request
in flight arrives or is lost, and deadlines pass; a session need not end, and an
operator need not act. In `Capacity` every case's next step is taken: cases
are claimed by `waiting_since`, and a session ends because the runner enforces a
deadline; and a lease that nobody renews runs out. In `Approval`, rows and
events are claimed and worked off, and nobody is obliged to click; in
`RemediationPipeline` a loop with the case goes on, a free case is claimed and
the time for CI passes, and nothing is asked of GitHub; in `Verifier` handlers
go on, every subprocess is killed at its deadline, HTTP timeouts fire and the
worker asks again; in `WebhookIntake` loops poll and leases nobody renews run
out. Faults are finitely many.

### What the code does not keep

`approval_wedge`: `_github_apply_label()` commits `label_applied_at` and then
replays the webhooks that came too early. A worker that dies in between leaves a
row whose retry finds the label recorded and skips the replay. If GitHub's only
webhook was among those, the case waits for ever, although
`replay_label_webhooks_after_delivery()` says it "cannot wedge".
`approval_delivery` shows that the replay suffices without the crash.

Other statements of the documentation, each quoted above the property, that TLC
refutes under the configuration named (not repeated among the runs):

| Configuration | Property | What happens |
|---|---|---|
| `triage_unobserved` | `NoSessionLeftUnobserved` | the DELETE of an orphaned session is tried once |
| `triage_ingest_race` | `IngestedCaseRunsNoSession` | a reconciliation's lock ends with its first commit, a new session starts before it ingests |
| `triage_timed_out` | `TimedOutMeansLate` | a failed tag lookup forgets the cancel, which ends as TIMED_OUT |
| `triage_resumed` | `ClosedAttemptEndedItsSession` | an attempt is closed on a session that is only idle, without the DELETE that `remote_terminal = False` asks for (`devin/status.py:58`) |
| `triage_stranded` | `EvaluatedCaseMovesOn` | nothing claims ELIGIBILITY_EVALUATED after a crash |
| `capacity_fifo` | `PlaceKeptUntilAdmitted` | a remediation gives up its place in the queue at every retry |
| `capacity_keys` | `ConflictsQueue` | two remediations wait for each other's key |
| `capacity_event` | `SessionsWithinLimit` | no heartbeat extends an event job's slot, so the limit is exceeded |
| `approval_stale_row` | `FailedDeliveryIsApproved` | the label row of an old round fails for good and takes the case that awaits a new round to APPROVAL_DELIVERY_FAILED (`docs/threat-model.md:121`) |
| `approval_delivery` | `AuditCommentPosted` | a comment that failed is refused once remediation has started |
| `pipeline` | `FilesOfVerifiedHead` | files are listed by pull request, not by SHA, and may be a later head's (`docs/threat-model.md:110`) |
| `pipeline` | `CiStatusAgrees` | a stale poll overwrites `ci_status` (`docs/architecture.md:615`) |
| `pipeline_lapsed` | `SpendIsAuthorised` | a loop that lost its claim links the BASE run it had loaded to its own attempt after another attempt was paid for on it (`worker/devin_runner.py:599`; "authorises spending", `worker/remediation.py:752`) |
| `pipeline_rest` | `BaseVerdictStands` | a BASE mismatch is committed before its transition; after a crash the probe is asked again under a new id |

Seen while modelling:

- A HEAD run that said no and whose answer is lost on the way is recorded as
  INFRASTRUCTURE, and `retry-probe` asks again under a new id, which runs the probe
  a second time. "Cannot be retried" holds of recorded verdicts
  (`HeadVerdictStands`), not of runs.
- An attempt that a loop inserted after it lost its claim stays active when that
  loop dies before it attaches. In the pipeline's states `fail_case()` is then
  refused (there is no edge to TERMINATION_PENDING), so the case is tried again
  until the stray is gone; as the newest attempt it also takes the place of the
  delivered one, whose verified pull request is failed for want of a head.
- `_attach()` marks an attempt it could not bind CANCELLED whatever its row says by
  then, even if another loop has re-attached it.
- `fail_case()` does not look at BLOCKED attempts, so a FAILED case may retain a
  running session; a replacement refused because of a retained output leaves
  FAILED, from which the output cannot be reconciled.
- Nothing renews the slot of a termination under retry, so it lapses although
  `docs/concurrency.md:70` keeps it; `waiting_for` survives failing and retrying,
  so a case blocked for a human keeps a place in a queue.
- `process_slack_action()` locks the request before the case, everyone else the
  case first: the database may have to break a deadlock. A click before
  `slack_message_ts` is recorded gets no status update. A label a person put on
  before the worker's intent gives no webhook, and the case waits.
- An unexpected worker error at the HEAD probe or in CI leaves no
  `failure_stage`, so `retry-probe` and `retry-ci` refuse the case.
  `docs/architecture.md:422` blocks `no_change_needed` for a human; with a probe
  the code fails it.
- Two requests with one id that overlap while the front binds them both run: the
  second `start()` replaces the future the first waiter is on. A duplicate that
  waits on a run refused as busy gets a 500, recorded as INFRASTRUCTURE. The
  timing assumption of `Verifier` keeps both apart from the worker's re-asks.
- After a transient database error an event is PROCESSING without a lease, so it
  no longer protects its case, and two jobs may drive it; the fence stops the
  second, whose clean-up may cancel the first one's unsent attempt. An event
  given up after EVENT_MAX_ATTEMPTS fails its case without a fence, whoever
  drives it.

## Proofs

Every theorem holds for all values of the constants that satisfy the module's
named assumption (`ConstantsAssumption`, `VerifierAssumption`): types, finiteness
and names that differ from the "nobody" value; nothing about bounds. Where a
theorem needs more, it says so in its own ASSUME.

| Module | Theorem | Property | Also assumed |
|---|---|---|---|
| `TriageRunnerProofs` | `TypeCorrect`, `CreateOnce`, `CreatesAreFresh`, `MovesAreLegal` | `TypeOK`, `OneCreatePerKey`, `FreshCreates`, `OnlyLegalMoves` | |
| `TriageRunnerProofs` | `ApprovalNeedsOutput` | `ApprovalRestsOnOutput` | `MayResume = FALSE` |
| `TriageRunnerProofs` | `OneAttemptRuns`, `OneSessionRetained`, `BlockedCasesHaveCause`, `ClosedAttemptsWereStopped`, `CreatesComeAlone` | `OneActiveAttempt`, `OneRetainedSession`, `BlockedCaseHasCause`, `ClosedAttemptWasStopped`, `NoCreateBehindOpenAttempt` | `MayStall = FALSE` |
| `CapacityProofs` | `TypeCorrect` | `TypeOK` | |
| `CapacityProofs` | `WithinLimit`, `KeysAreExclusive` | `SessionsWithinLimit`, `ExclusiveKeys` | `Lapsing = {}` |
| `ApprovalProofs` | `ImplementsDecision` | `KeepsItsPromise` | |
| `ApprovalDeliveryProofs` | `TypeCorrect` | `TypeOK` | |
| `ApprovalDeliveryProofs` | `GrantsAreDelivered`, `EveryWriteOnce`, `ButtonsAlwaysWork` | `GrantHasDelivery`, `WritesOnce`, `ButtonsWork` | `MaxLapses = 0` |
| `RemediationPipelineProofs` | `TypeCorrect`, `AtMostOneVerifiedPR`, `EveryPassEarned`, `HeadVerdictIsFinal` | `TypeOK`, `OneVerifiedPR`, `PassedIsEarned`, `HeadVerdictStands` | |
| `RemediationPipelineProofs` | `EverySessionAuthorised` | `SpendIsAuthorised` | `MaxLapses = 0` |
| `VerifierProofs` | `TypeCorrect`, `NothingIsLeftBehind`, `OneRunPerRequest`, `VerdictsGenuine`, `BusyNeverRecorded` | `TypeOK`, `NothingOutlivesItsRun`, `RunsOnce`, `VerdictsAreGenuine`, `BusyIsNoVerdict` | |
| `WebhookIntakeProofs` | `TypeCorrect`, `EvaluatedAtMostOnce`, `SettledForGood` | `TypeOK`, `EvaluatedOnce`, `SettledStaysSettled` | |

`MayStall = FALSE` says that a loop renews its lease as long as it works on the
case; it may still crash at any step, and the lease then lapses. With a stall two
loops drive one case and TLC refutes the five properties; `triage_safety` checks
them under the same assumption. Without `Lapsing = {}` the two theorems of
`Capacity` that assume it are false (`capacity_event`), and the run that checks them
assumes it too. So does
`approval_rounds` for the three theorems that assume `MaxLapses = 0`, that is, that
no outbox lease lapses under a loop that still works and no event stalls between
loading and locking its case. With one lapse TLC refutes each: a second loop makes
another token while the first is about to post, so an open round has a dead
message or two messages; and a slow `_github_apply_label()` writes LABEL_APPLIED
over a delivery that the other loop's label got CONFIRMED. `MaxLapses = 0` says the
same of the pipeline's jobs (`pipeline_rest` assumes it, `pipeline_lapsed`
refutes the property without it). Crashes, failed and lost
answers and retries, without bound, are all included.

*`TriageRunner`, stalls included.* `OneCreatePerKey` is not inductive: a loop
about to POST could be on a used key. The inductive invariant adds
`FreshCreates`: a key without a row is unused, and from the insert to the POST a
loop works on a row that nobody else creates for and nobody has POSTed for.
Three actions carry the argument (`Insert` relies on the unique index, `Prepare`
on its own row, `Send` uses the key up). Every other action is shown *quiet*: it
removes no row, starts no create, changes no post count and moves the case
legally. One lemma then covers them all.

`ApprovalRestsOnOutput`, stalls included too, needs `OutputInv`. Of any session it
says that a job's snapshot of an end stays true in this sense (`SnapshotsHold`): the
session is as it was seen, deleted or resumed, so it has stopped once. While nobody
resumes sessions it says more: two jobs that read the same ended session agree. Hence
nobody withdraws the output another one stored, and a job that is to
finish the triage finds it there. All steps but the reads, the settling commit and
the one that asks for approval are *calm*: they store no output, take none back and
read no session.

*`TriageRunner`, without stalls.* `LeaseInv` has four parts. `HolderWorks`: a loop
at work holds the unexpired lease, so there is one. `TableOK`: one attempt is open,
that is, active or blocked; a blocked one has a session or an unresolved create;
one that was closed with a session id has a session that stopped or was deleted, for
which `SnapshotsHold` is needed at the commit that closes it; and a HUMAN_BLOCKED case
has its blocked attempt. `JobOK` says what the loop may rely on where it stands:
from the insert on, the attempt it drives is the only open one, and it is not yet,
or already, attached. `OperatorOK` covers the one job that needs no lease,
`reconcile_session()`: its first commit requires the retained session, of which
there is one, and takes the case out of HUMAN_BLOCKED. A step of the loop at work
(`Good`) re-establishes the table and its own job; a step of the operator, Devin or
the clock (`Beside`) opens no attempt, forgets no session id and blocks nothing. The
five properties are then read off `TableOK`, the last one off `JobOK` at the POST.

*`Capacity`.* Counting leases does not work: `_bind_lease()` forces a slot without
counting, so `in_use()` may exceed its limit. `SlotInv` counts the cases that
*reserve* a slot (a session runs on it, or it is kept for one to be created)
and adds, per case, what ties job, state, attempt and lease together: a running
session has its slot and the slot carries its attempt, a slot is held in its own
phase, and a slot is forced only for an attempt that is over. Then only
`acquire()` makes the count grow, and it has compared. `KeyInv` adds that a key
has one holder and that a remediation past `_acquire_resource_keys()` holds all of
its keys until its session ends. `TypeOK` is inductive as it stands, whatever
lapses: a case is appended only where it is not, and removing the place `p` moves
the places behind it up by one, so no case comes to stand twice.

*`Approval`.* The refinement of `Decision` needs `RoundInv`: rounds come in
order (none beyond the newest attempt, none for the attempt in triage, only the
newest open), so "the current request" of the code is the newest round of the
abstraction; and a handler past the checks of `_github_apply_label()` works for
an approved round, so its stale copy cannot grant another one. Every outbox step
leaves the decisions alone and maps to a stutter or to a grant.

What reaches Slack and GitHub has two invariants more. `OutboxInv`, lapses
included, says that a round has only the outbox rows its decision calls for, that a
loop works on a row that exists and is of its handler's kind, and how often a row
was tried: `claim()` counts before the dispatch, so a row can pass
`outbox_max_attempts` by one for every claim that a crash or a lapse lost and no
more. That is the bound in `TypeOK`. `DeliveryInv` adds `Held` (the row a loop
works on is pending, claimed and nobody else's), from which it follows that no two
loops work for one round at GitHub, nor in Slack. Then what a handler loaded
before its commits is still true after them: `GitHubOnce` (a label is not on record
while it is being put on, the loaded intent is the row's, a comment is posted only
where there is none, a delivery failed only if its row was given up) and
`SlackOnce` (a message is posted only where there is none, with the token the open
round has). Each step is described once by what it does to its row, its round and
its job (`...Does`); one frame lemma per part covers the steps that do not touch it.

*`RemediationPipeline`, lapsed claims included.* `PipeInv` says which attempt may
own a session and in which states one runs (`Sessions`), in which states no pull
request is verified yet and in which one is, and that no attempt after a verified one
has a head (`Deliveries`), what is on record where a step may be run again
(`Stages`), that each attempt's defect was reproduced and that the probe has not been
heard at head, or has had its last word, depending on where the case stands or may be
put back to (`Probes`), and what a job at work still knows (`Desks`). The hard part is
what loops commit without the claim. Their executions are BASE runs, which change
nothing at head; their attempts are never attached, so they get no output, no head and
no pull request; their re-linked run keeps its snapshot and verdict, so the earlier
attempt's defect was still reproduced. `Unnoticed` states what such a loop may do to
the attempts, and the frame lemmas carry the desk of the loop that has the claim over
it.

`EverySessionAuthorised` adds `Punctual`: a loop at work has an unlapsed claim, hence
there is one, and a run that it has loaded still has no owner when it inserts.

*`Verifier`.* `VerifierInv` follows the three parties: the slot and the processes
(`Slots`, `Tasks`), the futures and stored results of the front (`Futures`,
`Results`, `Runs`), and the worker's listener and rows (`Listeners`, `Recorded`).
`RunsOnce` needs that at most one handler works on an id and that an id that ran
has a result or an admitted run in flight; `VerdictsAreGenuine` that every result
is bound to the parameters it was computed from.

*`WebhookIntake`, stalls included.* `EvaluatedOnce` needs that a case that is still
RECEIVED has not been evaluated; the compare-and-set does the rest. The types
need that a waiting delivery was never claimed, else its attempts could pass
the cap.

Only model-checked:

- the liveness properties (`SessionsSettle`, `TriageAdmitted`, `LeasesComeBack`,
  `ApprovalTakesEffect`, `ComesToRest`, `EveryProbeSettles`, `NoIssueLost`,
  `DeliveriesSettle`): fairness and `ENABLED` are out of the prover's reach;
- what the code does not keep: those runs end in a counterexample, and there is
  nothing to prove.

Every invariant and every action property of a passing run is stated by a theorem.

## Not modelled

Pure decisions (`rubric.py`, `probe_policy.py`, the validators' predicates, the
status table of `classify`) are choices in the models: none keeps state, and
each is a list of patterns that unit tests enumerate. The clients, prompts,
blocks, signatures, configuration, readiness, dashboard, metrics, manifests,
git, sandboxing and the egress proxy are I/O, cryptography or presentation.
`scripts/` drives the system from outside.

The components share the case row and are modelled one at a time: each module
lets the others' writes happen as its environment (the operator's moves, the end
of triage, the start of remediation). A single specification of all of them is
beyond TLC at useful bounds.

## Plan

What is left is to relate the liveness properties to each other: `NoIssueLost`
hands a case to `SessionsSettle`, which hands it to `ApprovalTakesEffect` and
`ComesToRest`; only the composition of the models could state that as one property.
