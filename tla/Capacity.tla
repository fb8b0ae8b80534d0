------------------------------- MODULE Capacity -------------------------------
(***************************************************************************)
(* The capacity leases of remediator/capacity.py and the jobs that take,    *)
(* renew, release and lose them: process_event() and process_case()         *)
(* (worker/processor.py), the remediation pipeline (worker/remediation.py), *)
(* DevinRunner.run() and the worker's heartbeat and reaper.                 *)
(*                                                                          *)
(* acquire() runs under a per-kind advisory lock that is held until the     *)
(* caller commits, so it is one action with what is committed with it.  A   *)
(* lease's expires_at is abstracted to whether it has passed.  What a       *)
(* session does, and races on one case, are in TriageRunner.tla.            *)
(***************************************************************************)
EXTENDS Lifecycle, Naturals, Sequences, FiniteSets, SequencesExt

CONSTANTS Cases,
          ResourceKey,     \* the resource keys
          resource_keys,   \* the manifest's keys of each case, in its order
          Repository,      \* the repository of each case
          Limit,           \* the limit of each kind
          PerRepository,   \* max_concurrent_remediation_per_repository
          Entry,           \* the state the cases start in
          Approvals,       \* is a triaged case approved for remediation?
          Lapsing,         \* which unrenewed leases may outlive their grace
          MaxFaults        \* bound: crashes, errors, failed calls

Kinds == {"TRIAGE", "REMEDIATION", "PROBE"}

ASSUME ConstantsAssumption ==
    /\ IsFiniteSet(Cases)
    /\ resource_keys \in [Cases -> Seq(ResourceKey)]
    /\ DOMAIN Repository = Cases
    /\ Limit \in [Kinds -> Nat \ {0}]
    /\ PerRepository \in Nat \ {0}
    /\ Entry \in {"RECEIVED", "PROBE_VALIDATING_BASE"}
    /\ Approvals \in BOOLEAN
    /\ Lapsing \subseteq {"event", "idle", "terminating"}
    /\ MaxFaults \in Nat
    /\ ResourceKey \cap Kinds = {}

VARIABLES
    state,    \* Case.state
    run,      \* who works on the case: an event's job, a case job, nobody
    pc,       \* what that job does next
    att,      \* the latest attempt: its row's status and whether finished_at is set
    lease,    \* the unreleased capacity_leases rows of each case
    bound,    \* does the session slot's row carry that attempt's id?
    waits,    \* Case.waiting_for, by what older_waiting() can tell apart
    queue,    \* the cases with a waiting_since, oldest first
    faults

vars == <<state, run, pc, att, lease, bound, waits, queue, faults>>

Names == Kinds \cup ResourceKey

\* The attempts in an active status: RUNNING, or TERMINATION_PENDING, each without and
\* with the finished_at of a session that has handed in its result.
Unfinished == {"active", "pending"}
Finished == {"finished", "ended"}
Terminating == {"pending", "ended"}

PCs == {"idle", "evaluate", "dispatch", "probe", "probing", "keys", "run", "create",
        "session", "timeout", "terminate", "settled", "freed", "finish"}

TypeOK ==
    /\ state \in [Cases -> CaseState]
    /\ run \in [Cases -> {"event", "case", "none"}]
    /\ pc \in [Cases -> PCs]
    /\ att \in [Cases -> {"none"} \cup Unfinished \cup Finished]
    /\ lease \in [Cases -> [Names -> {"none", "live", "lapsed"}]]
    /\ bound \in [Cases -> BOOLEAN]
    /\ waits \in [Cases -> Kinds \cup {"none", "scope"}]
    /\ queue \in Seq(Cases) /\ IsInjective(queue)
    /\ faults \in 0..MaxFaults

Init ==
    /\ state = [c \in Cases |-> Entry]
    /\ run = [c \in Cases |-> "none"]
    /\ pc = [c \in Cases |-> "idle"]
    /\ att = [c \in Cases |-> "none"]
    /\ lease = [c \in Cases |-> [n \in Names |-> "none"]]
    /\ bound = [c \in Cases |-> FALSE]
    /\ waits = [c \in Cases |-> "none"]
    /\ queue = <<>>
    /\ faults = 0
-----------------------------------------------------------------------------
\* Helpers

leases == <<lease, bound>>
waiting == <<waits, queue>>

Fault == faults < MaxFaults /\ faults' = faults + 1

Goto(c, step) == pc' = [pc EXCEPT ![c] = step] /\ UNCHANGED run

\* The job ends and _release_case() gives the case back.
Leave(c) == pc' = [pc EXCEPT ![c] = "idle"] /\ run' = [run EXCEPT ![c] = "none"]

Move(c, to) == state' = [state EXCEPT ![c] = to]

\* The attempt is parked as TERMINATION_PENDING; finished_at stays as it is.
Park(c) == att' = [att EXCEPT ![c] = IF @ \in Finished THEN "ended" ELSE "pending"]

\* The kind of session a case in state s runs: phase_for_state().
KindOf(s) == IF s \in REMEDIATION_PHASE_STATES THEN "REMEDIATION" ELSE "TRIAGE"

Phase(c) ==
    IF KindOf(state[c]) = "TRIAGE"
    THEN [intent |-> "TRIAGE_CREATE_INTENT", running |-> "TRIAGING",
          pending |-> "TERMINATION_PENDING", failed |-> "FAILED",
          cancelled |-> "CANCELLED", done |-> "AWAITING_REMEDIATION_APPROVAL"]
    ELSE [intent |-> "REMEDIATION_CREATE_INTENT", running |-> "REMEDIATING",
          pending |-> "REMEDIATION_TERMINATION_PENDING", failed |-> "REMEDIATION_FAILED",
          cancelled |-> "REMEDIATION_CANCELLED", done |-> "PROBE_VALIDATING_HEAD"]
-----------------------------------------------------------------------------
\* CapacityManager

\* expire_stale(): what has expired in table t is released.
expire_stale(t) ==
    [c \in Cases |-> [n \in Names |-> IF t[c][n] = "lapsed" THEN "none" ELSE t[c][n]]]

\* reconcile_finished(): the slot of an attempt that is over is free.
Reconciled ==
    [c \in Cases |->
        IF bound[c] /\ att[c] \notin Unfinished
        THEN [lease[c] EXCEPT !["TRIAGE"] = "none", !["REMEDIATION"] = "none"]
        ELSE lease[c]]

StillBound == [c \in Cases |-> bound[c] /\ att[c] \in Unfinished]

\* Mutant: only the leases that an attempt is attached to are counted.
in_use_Attached(t, n) == {c \in Cases : t[c][n] = "live" /\ att[c] # "none"}

\* in_use(): the cases with an active lease of that name in table t.
in_use(t, n) == {c \in Cases : t[c][n] = "live"}

Position(c) == CHOOSE i \in DOMAIN queue : queue[i] = c

\* Mutant: a free slot goes to whoever asks first.
older_waiting_NoQueue(k, c) == {}

\* older_waiting(): the live cases parked on the limit of kind k before c was.
older_waiting(k, c) ==
    {d \in Cases \ {c} : /\ waits[d] = k
                         /\ Contains(queue, d)
                         /\ state[d] \notin TERMINAL_STATES
                         /\ Contains(queue, c) => Position(d) < Position(c)}

\* Why acquire() denies c a lease of kind k: the limit, or the older waiters that
\* the free slots are kept for, or the repository's limit.
LimitDenies(t, k, c) ==
    LET total == Cardinality(in_use(t, k))
    IN  \/ total >= Limit[k]
        \/ Cardinality(older_waiting(k, c)) >= Limit[k] - total

ScopeDenies(t, k, c) ==
    /\ k = "REMEDIATION"
    /\ Cardinality({d \in in_use(t, k) : Repository[d] = Repository[c]}) >= PerRepository

\* Mutant: every denial enters the case again.
mark_waiting_Again(c, label) ==
    /\ waits' = [waits EXCEPT ![c] = label]
    /\ queue' = Append(queue, c)

\* mark_waiting(): waiting_since is set only once, so c keeps its place.
mark_waiting(c, label) ==
    /\ waits' = [waits EXCEPT ![c] = label]
    /\ queue' = IF Contains(queue, c) THEN queue ELSE Append(queue, c)

clear_waiting(c) ==
    /\ waits' = [waits EXCEPT ![c] = "none"]
    /\ queue' = IF Contains(queue, c) THEN RemoveAt(queue, Position(c)) ELSE queue

\* acquire() of kind k, and its caller: a live lease is renewed, a lapsed one
\* competes again; denied, the case is parked and its job ends.
Acquire(c, k, next) ==
    LET t == Reconciled
    IN  /\ bound' = StillBound
        /\ \/ /\ t[c][k] = "live" \/ (~LimitDenies(t, k, c) /\ ~ScopeDenies(t, k, c))
              /\ lease' = [t EXCEPT ![c][k] = "live"]
              /\ clear_waiting(c)
              /\ Goto(c, next)
           \/ /\ t[c][k] # "live"
              /\ LimitDenies(t, k, c) \/ ScopeDenies(t, k, c)
              /\ lease' = [t EXCEPT ![c][k] = "none"]
              /\ mark_waiting(c, IF LimitDenies(t, k, c) THEN k ELSE "scope")
              /\ Leave(c)

\* _bind_lease(): acquire(force=True) with the attempt's id.
Bind(c, k) ==
    /\ lease' = [Reconciled EXCEPT ![c][k] = "live"]
    /\ bound' = [StillBound EXCEPT ![c] = TRUE]

\* release()
Release(c, names) ==
    lease' = [lease EXCEPT ![c] = [n \in Names |-> IF n \in names THEN "none" ELSE @[n]]]
-----------------------------------------------------------------------------
\* Claiming

\* The step a job starts with in each state.
EntryPoint(c) ==
    CASE state[c] = "RECEIVED" -> "evaluate"
      [] state[c] = "REMEDIATION_APPROVED" -> "dispatch"
      [] state[c] \in {"PROBE_VALIDATING_BASE", "PROBE_VALIDATING_HEAD"} -> "probe"
      [] state[c] \in TERMINATION_PENDING_STATES /\ att[c] \notin Terminating -> "terminate"
      [] \/ state[c] \in {"REMEDIATION_CREATE_INTENT", "REMEDIATING"}
         \/ state[c] = "REMEDIATION_TERMINATION_PENDING" /\ att[c] \in Terminating -> "keys"
      [] OTHER -> "run"

\* CLAIMABLE_STATES that this module reaches, and RECEIVED: the events' state.
CLAIMABLE_STATES ==
    {"RECEIVED", "TRIAGE_CREATE_INTENT", "TRIAGING", "TERMINATION_PENDING",
     "REMEDIATION_APPROVED", "PROBE_VALIDATING_BASE", "REMEDIATION_CREATE_INTENT",
     "REMEDIATING", "REMEDIATION_TERMINATION_PENDING", "PROBE_VALIDATING_HEAD"}

\* A new case is processed by its webhook event's job, any case by a case job.
Claim(c) ==
    /\ pc[c] = "idle"
    /\ state[c] \in CLAIMABLE_STATES
    /\ \E r \in {"case"} \cup {e \in {"event"} : state[c] = "RECEIVED"} :
          run' = [run EXCEPT ![c] = r]
    /\ pc' = [pc EXCEPT ![c] = EntryPoint(c)]
    /\ UNCHANGED <<state, att, leases, waiting, faults>>

\* A job goes on only if the case is still where the job left it; otherwise it
\* ends with InvalidTransition and releases no lease.
StillIn(c, s) == state[c] = s

\* The rubric's two transitions at once: nothing here comes between them.
Evaluate(c) ==
    /\ pc[c] = "evaluate"
    /\ \/ StillIn(c, "RECEIVED") /\ Move(c, "TRIAGE_CREATE_INTENT") /\ Goto(c, "run")
       \/ StillIn(c, "RECEIVED") /\ Move(c, "POLICY_REJECTED") /\ Leave(c)
       \/ ~StillIn(c, "RECEIVED") /\ Leave(c) /\ UNCHANGED state
    /\ UNCHANGED <<att, leases, waiting, faults>>

\* _dispatch(): its preconditions hold, or the case waits for a human.
Dispatch(c) ==
    /\ pc[c] = "dispatch"
    /\ \/ StillIn(c, "REMEDIATION_APPROVED") /\ Move(c, "PROBE_VALIDATING_BASE")
          /\ Goto(c, "probe")
       \/ StillIn(c, "REMEDIATION_APPROVED") /\ Move(c, "REMEDIATION_HUMAN_BLOCKED")
          /\ Leave(c)
       \/ ~StillIn(c, "REMEDIATION_APPROVED") /\ Leave(c) /\ UNCHANGED state
    /\ UNCHANGED <<att, leases, waiting, faults>>
-----------------------------------------------------------------------------
\* The probe slot: _execute_probe()

AcquireProbe(c) ==
    /\ pc[c] = "probe"
    /\ Acquire(c, "PROBE", "probing")
    /\ UNCHANGED <<state, att, faults>>

\* The verdict moves the case on (after the head probe to CI, which takes no lease)
\* or fails it; a busy verifier is asked again.
ProbeDone(c) ==
    /\ pc[c] = "probing"
    /\ Release(c, {"PROBE"})
    /\ \/ StillIn(c, "PROBE_VALIDATING_BASE") /\ Move(c, "REMEDIATION_CREATE_INTENT")
          /\ Goto(c, "keys") /\ UNCHANGED faults
       \/ StillIn(c, "PROBE_VALIDATING_HEAD") /\ Move(c, "CI_PASSED")
          /\ Leave(c) /\ UNCHANGED faults
       \/ state[c] \in {"PROBE_VALIDATING_BASE", "PROBE_VALIDATING_HEAD"}
          /\ Move(c, "REMEDIATION_FAILED") /\ Leave(c) /\ UNCHANGED faults
       \/ state[c] \notin {"PROBE_VALIDATING_BASE", "PROBE_VALIDATING_HEAD"}
          /\ Leave(c) /\ UNCHANGED <<state, faults>>
       \/ Leave(c) /\ Fault /\ UNCHANGED state
    /\ UNCHANGED <<att, bound, waiting>>
-----------------------------------------------------------------------------
\* The resource keys and the session slot: _run_session() and run()

\* All keys in one transaction, in the manifest's order up to the first that
\* another case holds; the keys before it are kept while the case waits.
AcquireKeys(c) ==
    /\ pc[c] = "keys"
    /\ LET keys == resource_keys[c]
           t == IF keys = <<>> THEN lease ELSE Reconciled
           Taken(i) == t[c][keys[i]] # "live" /\ in_use(t, keys[i]) # {}
           denied == {i \in DOMAIN keys : Taken(i)}
           First == CHOOSE i \in denied : \A j \in denied : i <= j
           Before(i) == {keys[j] : j \in 1..(i - 1)}
           With(got, gone) ==
             [t EXCEPT ![c] = [n \in Names |-> CASE n \in got -> "live"
                                                 [] n \in gone -> "none"
                                                 [] OTHER -> t[c][n]]]
       IN  /\ bound' = IF keys = <<>> THEN bound ELSE StillBound
           /\ \/ /\ denied = {}
                 /\ lease' = With(ToSet(keys), {})
                 /\ clear_waiting(c)
                 /\ Goto(c, "run")
              \/ /\ denied # {}
                 /\ lease' = With(Before(First), {keys[First]})
                 /\ mark_waiting(c, "scope")
                 /\ Leave(c)
    /\ UNCHANGED <<state, att, faults>>

RunNew(c) ==
    /\ pc[c] = "run" /\ att[c] = "none"
    /\ Acquire(c, KindOf(state[c]), "create")
    /\ UNCHANGED <<state, att, faults>>

RunResume(c) ==
    /\ pc[c] = "run" /\ att[c] # "none"
    /\ \/ att[c] \in Terminating /\ Goto(c, "timeout") /\ UNCHANGED leases
       \/ att[c] \notin Terminating /\ Bind(c, KindOf(state[c])) /\ Goto(c, "session")
    /\ UNCHANGED <<state, att, waiting, faults>>

\* _create(), _attach() and the first _bind_lease(); a create that fails settles
\* the capacity at once, one that lost its case leaves the lease to lapse.
Create(c) ==
    /\ pc[c] = "create"
    /\ \/ /\ StillIn(c, Phase(c).intent)
          /\ att' = [att EXCEPT ![c] = "active"]
          /\ Move(c, Phase(c).running)
          /\ Bind(c, KindOf(state[c]))
          /\ Goto(c, "session")
          /\ UNCHANGED faults
       \/ /\ StillIn(c, Phase(c).intent)
          /\ Move(c, Phase(c).failed)
          /\ Goto(c, "settled")
          /\ Fault
          /\ UNCHANGED <<att, leases>>
       \/ /\ ~StillIn(c, Phase(c).intent)
          /\ Leave(c)
          /\ UNCHANGED <<state, att, leases, faults>>
    /\ UNCHANGED waiting

\* The session ends: with a result to finish on, or failing the case.  The last look
\* before a DELETE may find that, too.
Settle(c) ==
    /\ pc[c] \in {"session", "timeout"}
    /\ \/ att' = [att EXCEPT ![c] = "finished"] /\ UNCHANGED state
       \/ att' = [att EXCEPT ![c] = "none"] /\ Move(c, Phase(c).failed)
    /\ Goto(c, "settled")
    /\ UNCHANGED <<leases, waiting, faults>>

\* Mutant: _settle_capacity() releases the slot of a pending termination too.
Timeout_Settles(c) ==
    /\ pc[c] \in {"session", "timeout"}
    /\ \/ /\ att' = [att EXCEPT ![c] = "none"]
          /\ Move(c, Phase(c).cancelled)
          /\ UNCHANGED faults
       \/ /\ Park(c)
          /\ Move(c, Phase(c).pending)
          /\ Fault
    /\ Goto(c, "settled")
    /\ UNCHANGED <<leases, waiting>>

\* _handle_timeout() at the deadline, after a cancel or on a retry: Devin confirms
\* the DELETE, or the attempt stays parked with its slot.
Timeout(c) ==
    /\ pc[c] \in {"session", "timeout"}
    /\ \/ /\ att' = [att EXCEPT ![c] = "none"]
          /\ Move(c, Phase(c).cancelled)
          /\ Goto(c, "settled")
          /\ UNCHANGED faults
       \/ /\ Park(c)
          /\ Move(c, Phase(c).pending)
          /\ Leave(c)
          /\ Fault
    /\ UNCHANGED <<leases, waiting>>

\* terminate_running_attempts(): a cancel that found no job on the case.
TerminateRunning(c) ==
    /\ pc[c] = "terminate"
    /\ \/ /\ att' = [att EXCEPT ![c] = "none"]
          /\ Move(c, Phase(c).cancelled)
          /\ Release(c, Names)
          /\ UNCHANGED faults
       \/ /\ Park(c)
          /\ Fault
          /\ UNCHANGED <<state, lease>>
    /\ Leave(c)
    /\ UNCHANGED <<bound, waiting>>

\* _settle_capacity(), then _release_resource_keys(), then the transition: three
\* transactions.
ReleaseSlot(c) ==
    /\ pc[c] = "settled"
    /\ Release(c, {KindOf(state[c])})
    /\ bound' = [bound EXCEPT ![c] = FALSE]
    /\ Goto(c, IF KindOf(state[c]) = "TRIAGE" THEN "finish" ELSE "freed")
    /\ UNCHANGED <<state, att, waiting, faults>>

ReleaseKeys(c) ==
    /\ pc[c] = "freed"
    /\ Release(c, ResourceKey)
    /\ Goto(c, "finish")
    /\ UNCHANGED <<state, att, bound, waiting, faults>>

\* A finished triage asks for approval; a finished remediation, its output and pull
\* request validated, goes on to the head probe.
Finish(c) ==
    /\ pc[c] = "finish"
    /\ \/ /\ state[c] \in {Phase(c).running, Phase(c).pending}
          /\ att' = [att EXCEPT ![c] = "none"]
          /\ Move(c, Phase(c).done)
          /\ IF Phase(c).done = "PROBE_VALIDATING_HEAD" THEN Goto(c, "probe") ELSE Leave(c)
       \/ /\ state[c] \notin {Phase(c).running, Phase(c).pending}
          /\ Leave(c)
          /\ UNCHANGED <<state, att>>
    /\ UNCHANGED <<leases, waiting, faults>>
-----------------------------------------------------------------------------
\* Heartbeat, reaper, faults, the operator

\* Mutant: the heartbeat extends the leases of every case.
Heartbeat_AllCases(c) ==
    /\ \E n \in Names : lease[c][n] = "lapsed"
    /\ lease' = [lease EXCEPT ![c] = [n \in Names |->
                    IF @[n] = "lapsed" THEN "live" ELSE @[n]]]
    /\ UNCHANGED <<state, run, pc, att, bound, waiting, faults>>

\* A case job's heartbeat extends every unreleased lease of the case, a lapsed one
\* too; an event's job has no case id to extend leases for.
Heartbeat(c) ==
    /\ run[c] = "case"
    /\ \E n \in Names : lease[c][n] = "lapsed"
    /\ lease' = [lease EXCEPT ![c] = [n \in Names |->
                    IF @[n] = "lapsed" THEN "live" ELSE @[n]]]
    /\ UNCHANGED <<state, run, pc, att, bound, waiting, faults>>

\* A lease nobody renews: no heartbeat reaches an event job's case, nor a case
\* without a job, and retrying a termination is too short for one.
MayLapse(c, n) ==
    \/ "event" \in Lapsing /\ run[c] = "event"
    \/ "idle" \in Lapsing /\ run[c] = "none"
    \/ "terminating" \in Lapsing /\ att[c] \in Terminating /\ n \in {"TRIAGE", "REMEDIATION"}

Lapse(c) ==
    /\ \E n \in Names : /\ lease[c][n] = "live"
                        /\ MayLapse(c, n)
                        /\ lease' = [lease EXCEPT ![c][n] = "lapsed"]
    /\ UNCHANGED <<state, run, pc, att, bound, waiting, faults>>

\* _reap_capacity(): expire_stale() and reconcile_finished().
Reap ==
    /\ lease' = expire_stale(Reconciled)
    /\ bound' = StillBound
    /\ leases' # leases
    /\ UNCHANGED <<state, run, pc, att, waiting, faults>>

Crash(c) ==
    /\ pc[c] # "idle"
    /\ Leave(c)
    /\ Fault
    /\ UNCHANGED <<state, att, leases, waiting>>

\* An unexpected error: _mark_failed() fails a case that owns no session, and
\* parks one that may.  The label of a parked case stays.
JobError(c) ==
    /\ pc[c] # "idle"
    /\ state[c] \notin TERMINAL_STATES
    /\ \/ att[c] # "none" /\ Move(c, Phase(c).pending) /\ Park(c)
       \/ att[c] = "none" /\ Move(c, Phase(c).failed) /\ UNCHANGED att
    /\ Leave(c)
    /\ Fault
    /\ UNCHANGED <<leases, waiting>>

\* The operator cancels or retries a case, or a human approves its remediation.
Cancel(c) ==
    /\ LET to == IF att[c] # "none" THEN Phase(c).pending ELSE Phase(c).cancelled
       IN  to \in TRANSITIONS[state[c]] /\ Move(c, to)
    /\ UNCHANGED <<run, pc, att, leases, waiting, faults>>

Retry(c) ==
    /\ att[c] = "none"
    /\ \/ state[c] = "FAILED" /\ Move(c, "RECEIVED")
       \/ state[c] \in {"REMEDIATION_FAILED", "REMEDIATION_HUMAN_BLOCKED"}
          /\ Move(c, "REMEDIATION_APPROVED")
    /\ UNCHANGED <<run, pc, att, leases, waiting, faults>>

Approve(c) ==
    /\ Approvals
    /\ state[c] = "AWAITING_REMEDIATION_APPROVAL"
    /\ Move(c, "REMEDIATION_APPROVED")
    /\ UNCHANGED <<run, pc, att, leases, waiting, faults>>
-----------------------------------------------------------------------------
JobStep(c) ==
    \/ Claim(c) \/ Evaluate(c) \/ Dispatch(c) \/ AcquireProbe(c) \/ ProbeDone(c)
    \/ AcquireKeys(c) \/ RunNew(c) \/ RunResume(c) \/ Create(c) \/ Settle(c)
    \/ Timeout(c) \/ TerminateRunning(c) \/ ReleaseSlot(c) \/ ReleaseKeys(c) \/ Finish(c)

Next ==
    \/ \E c \in Cases :
          \/ JobStep(c) \/ Heartbeat(c) \/ Lapse(c) \/ Crash(c) \/ JobError(c)
          \/ Cancel(c) \/ Retry(c) \/ Approve(c)
    \/ Reap

\* Every case is claimed again (its backoff is short, and the queue is served
\* oldest first), every job goes on, every session ends, and time passes for a
\* lease that nobody renews.  Reaping owes nothing: in_use() skips what lapsed.
Fairness == \A c \in Cases : WF_vars(JobStep(c)) /\ WF_vars(Lapse(c))

Spec == Init /\ [][Next]_vars

FairSpec == Spec /\ Fairness
-----------------------------------------------------------------------------
\* The cases with a running session of kind k.  One that has handed in its result is
\* not: finished_at is set, and reconcile_finished() frees its slot even while its
\* DELETE is outstanding.
Running(k) == {c \in Cases : att[c] \in Unfinished /\ KindOf(state[c]) = k}

\* The sessions running at Devin never exceed the limits, whatever crashes between a
\* session's end and the release of its slot.  It holds while no lease lapses that
\* a job relies on, which docs/concurrency.md:61 promises ("While a job runs, the
\* worker loop extends expires_at for every lease it holds") and an event's job,
\* whose heartbeat has no case id, does not keep.
SessionsWithinLimit ==
    \A k \in {"TRIAGE", "REMEDIATION"} :
        /\ Cardinality(Running(k)) <= Limit[k]
        /\ k = "REMEDIATION" => \A c \in Running(k) :
             Cardinality({d \in Running(k) : Repository[d] = Repository[c]}) <= PerRepository

\* Remediations whose manifests share a resource key never run at the same time.
ExclusiveKeys ==
    \A c, d \in Running("REMEDIATION") :
        c # d => ToSet(resource_keys[c]) \cap ToSet(resource_keys[d]) = {}

\* A case that waits for a triage slot gets one, however often newer or retried
\* cases ask for it: waiting_since is kept and older waiters go first.
TriageAdmitted ==
    \A c \in Cases : (state[c] = "TRIAGE_CREATE_INTENT") ~> (state[c] # "TRIAGE_CREATE_INTENT")

\* Whatever crashes, errs or is cancelled, the leases of a case that stays closed
\* come back to the pool for good.
LeasesComeBack ==
    \A c \in Cases : <>[](state[c] \in TERMINAL_STATES)
                        => <>[](\A n \in Names : lease[c][n] # "live")
-----------------------------------------------------------------------------
\* What the documentation says and the code does not keep

\* docs/concurrency.md:89, "waiting cases are admitted FIFO": a waiting case keeps
\* its place until it holds what it waits for or is over.
PlaceKeptUntilAdmitted ==
    [][\A c \in Cases : \A k \in Kinds :
          waits[c] = k /\ state[c] \notin TERMINAL_STATES /\ ~Contains(queue', c)
             => lease'[c][k] = "live"]_vars

\* Does c, which has no session yet, wait for a key that d holds?
WaitsFor(c, d) ==
    /\ c # d
    /\ state[c] = "REMEDIATION_CREATE_INTENT" /\ waits[c] = "scope"
    /\ \E k \in ToSet(resource_keys[c]) : lease[c][k] # "live" /\ lease[d][k] = "live"

\* worker/remediation.py:179, "Conflicting remediations queue instead of racing": of
\* two that conflict, one is ahead of the other.
ConflictsQueue == \A c, d \in Cases : ~(WaitsFor(c, d) /\ WaitsFor(d, c))
=============================================================================
