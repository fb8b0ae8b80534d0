---------------------------- MODULE WebhookIntake ----------------------------
(***************************************************************************)
(* How the deliveries for one issue become one case, and who drives it.    *)
(* The webhook endpoint stores each delivery once; worker loops claim      *)
(* events and cases under leases, and an event job that finds the case     *)
(* still RECEIVED goes on to drive it itself.                              *)
(*                                                                         *)
(* The triage a driver then runs is TriageRunner's and is one step here;   *)
(* PARKED stands for every other state, terminal or not, that a triage job *)
(* leaves the case in.  Label deliveries that confirm an approval are      *)
(* Approval's.                                                             *)
(***************************************************************************)
EXTENDS Naturals, FiniteSets

CONSTANTS
    Deliveries,           \* GitHub's delivery ids for the issue
    Loops,                \* worker loops, of any number of processes
    None,                 \* nobody
    event_max_attempts,
    MaxFaults             \* bound: crashes, stalls, failing jobs, database errors

ASSUME IntakeAssumption ==
    /\ event_max_attempts \in Nat \ {0}
    /\ MaxFaults \in Nat
    /\ None \notin Loops

Dead == "dead"            \* the claim id of a loop that is gone

VARIABLES
    event,      \* webhook_events: one row per delivery id
    case,       \* the issue's row in cases
    loop,       \* what each loop is doing
    evaluated,  \* times the case left RECEIVED
    faults

vars == <<event, case, loop, evaluated, faults>>

EventStatus == {"absent", "PENDING", "PROCESSING", "PROCESSED", "FAILED"}
CaseStates == {"absent", "RECEIVED", "ELIGIBILITY_EVALUATED", "TRIAGING", "TERMINATION_PENDING",
               "PARKED", "FAILED"}
Pcs == {"idle", "load", "ingest", "drive", "finish", "release"}
Owners == Loops \cup {None, Dead}

\* The triage states of CLAIMABLE_STATES, and the same without RECEIVED.
CLAIMABLE_STATES_Started == {"TRIAGING", "TERMINATION_PENDING"}

CLAIMABLE_STATES == {"RECEIVED", "TRIAGING", "TERMINATION_PENDING"}

Idle == [pc |-> "idle", event |-> None, seen |-> "absent", owner |-> None]

\* The shape of the state; an event that is worked on has been claimed
\* no more often than EVENT_MAX_ATTEMPTS allows (worker/__init__.py 166-168).
TypeOK ==
    /\ \A d \in Deliveries : event[d].status = "PROCESSING" => event[d].attempts <= event_max_attempts
    /\ event \in [Deliveries -> [status : EventStatus, attempts : 0 .. event_max_attempts + 1,
                                 by : Owners, lease : BOOLEAN, linked : BOOLEAN]]
    /\ case \in [state : CaseStates, by : Owners, lease : BOOLEAN]
    /\ loop \in [Loops -> [pc : Pcs, event : Deliveries \cup {None}, seen : CaseStates,
                           owner : Owners]]
    /\ evaluated \in 0 .. 2
    /\ faults \in 0 .. MaxFaults

Init ==
    /\ event = [d \in Deliveries |-> [status |-> "absent", attempts |-> 0, by |-> None,
                                      lease |-> FALSE, linked |-> FALSE]]
    /\ case = [state |-> "absent", by |-> None, lease |-> FALSE]
    /\ loop = [l \in Loops |-> Idle]
    /\ evaluated = 0
    /\ faults = 0

Fault == faults < MaxFaults /\ faults' = faults + 1

Goto(l, pc) == [loop EXCEPT ![l].pc = pc]

(***************************************************************************)
(* The endpoint and the claims.                                            *)
(***************************************************************************)

\* A mutant without the unique delivery id: every delivery is stored anew.
Stored_Anew(d) == TRUE

\* The unique constraint on delivery_id refuses what is stored already.
Stored(d) == event[d].status = "absent"

\* github_webhook: an authentic, wanted delivery, the first time or again.
github_webhook(d) ==
    /\ Stored(d)
    /\ event' = [event EXCEPT ![d] =
         [status |-> "PENDING", attempts |-> 0, by |-> None, lease |-> FALSE, linked |-> FALSE]]
    /\ UNCHANGED <<case, loop, evaluated, faults>>

\* A mutant that leaves an interrupted event to its first worker.
EventClaimable_Pending(d) == event[d].status = "PENDING"

EventClaimable(d) ==
    \/ event[d].status = "PENDING"
    \/ event[d].status = "PROCESSING" /\ ~event[d].lease

\* fail_case: a case in a terminal state is left alone, one whose session may be
\* live waits for its termination, any other fails.
FailedStates ==
    IF case.state = "FAILED" THEN {"FAILED"}
    ELSE {"FAILED"}
         \cup (IF case.state \in {"TRIAGING", "TERMINATION_PENDING", "PARKED"}
               THEN {"TERMINATION_PENDING"} ELSE {})
         \cup (IF case.state = "PARKED" THEN {"PARKED"} ELSE {})

FailCase == \E s \in FailedStates : case' = [case EXCEPT !.state = s]

\* A mutant that is off by one.
Exhausted_Late(d) == event[d].attempts > event_max_attempts

Exhausted(d) == event[d].attempts + 1 > event_max_attempts

\* _claim_event: take the event, or give it up, and its case with it.
ClaimEvent(l, d) ==
    /\ loop[l].pc = "idle"
    /\ EventClaimable(d)
    /\ IF Exhausted(d)
       THEN /\ event' = [event EXCEPT ![d].status = "FAILED", ![d].attempts = @ + 1]
            /\ IF event[d].linked THEN FailCase ELSE UNCHANGED case
            /\ UNCHANGED loop
       ELSE /\ event' = [event EXCEPT ![d].status = "PROCESSING", ![d].attempts = @ + 1,
                                      ![d].by = l, ![d].lease = TRUE]
            /\ loop' = [loop EXCEPT ![l] = [Idle EXCEPT !.pc = "load", !.event = d]]
            /\ UNCHANGED case
    /\ UNCHANGED <<evaluated, faults>>

\* An event that is linked to the case and waiting, or being worked on.
ActiveEvent ==
    \E d \in Deliveries :
        /\ event[d].linked
        /\ \/ event[d].status = "PENDING"
           \/ event[d].status = "PROCESSING" /\ event[d].lease

\* _claim_case: only when the loop finds no event to claim.
ClaimCase(l) ==
    /\ loop[l].pc = "idle"
    /\ \A d \in Deliveries : ~EventClaimable(d)
    /\ case.state \in CLAIMABLE_STATES
    /\ ~case.lease
    /\ ~ActiveEvent
    /\ case' = [case EXCEPT !.by = l, !.lease = TRUE]
    /\ loop' = [loop EXCEPT ![l] = [Idle EXCEPT !.pc = "drive", !.seen = case.state]]
    /\ UNCHANGED <<event, evaluated, faults>>

(***************************************************************************)
(* The job.                                                                *)
(***************************************************************************)

\* process_event reads the case.
Load(l) ==
    /\ loop[l].pc = "load"
    /\ loop' = [loop EXCEPT ![l].pc = "ingest", ![l].seen = case.state, ![l].owner = case.by]
    /\ UNCHANGED <<event, case, evaluated, faults>>

\* The case as the job knows it: its own insert fails when there is one by now,
\* and the row is read again.
Known(l) ==
    IF loop[l].seen # "absent" THEN [state |-> loop[l].seen, by |-> loop[l].owner]
    ELSE IF case.state # "absent" THEN [state |-> case.state, by |-> case.by]
    ELSE [state |-> "RECEIVED", by |-> None]

\* process_event creates the case if need be, ignores one that has moved on,
\* and takes one that nobody has claimed.
Ingest(l) ==
    LET known == Known(l)
        d == loop[l].event
    IN  /\ loop[l].pc = "ingest"
        /\ IF known.state # "RECEIVED"
           THEN /\ event' = [event EXCEPT ![d].linked = TRUE, ![d].status = "PROCESSED"]
                /\ loop' = Goto(l, "release")
                /\ UNCHANGED case
           ELSE /\ event' = [event EXCEPT ![d].linked = TRUE]
                /\ case' = [state |-> IF case.state = "absent" THEN "RECEIVED" ELSE case.state,
                            by |-> IF known.by = None THEN l ELSE case.by,
                            lease |-> known.by = None \/ case.lease]
                /\ loop' = [loop EXCEPT ![l].pc = "drive", ![l].seen = "RECEIVED"]
        /\ UNCHANGED <<evaluated, faults>>

\* A mutant that writes the state without comparing it.
Holds_Blind(l) == TRUE

\* transition(): the row is still in the state the job knows and still claimed
\* by this loop.
Holds(l) == case.state = loop[l].seen /\ case.by = l

\* One transition of the driver; when it does not hold the job is abandoned.
Move(l, from, to, pc) ==
    /\ loop[l].pc = "drive"
    /\ loop[l].seen = from
    /\ IF Holds(l)
       THEN /\ case' = [case EXCEPT !.state = to]
            /\ loop' = [loop EXCEPT ![l].seen = to, ![l].pc = pc]
            /\ evaluated' = IF from = "RECEIVED" /\ evaluated < 2 THEN evaluated + 1 ELSE evaluated
       ELSE /\ loop' = Goto(l, "finish")
            /\ UNCHANGED <<case, evaluated>>
    /\ UNCHANGED <<event, faults>>

\* _evaluate_eligibility's two transitions, each committed, then the triage.
Evaluate(l) == Move(l, "RECEIVED", "ELIGIBILITY_EVALUATED", "drive")
Verdict(l) == \/ Move(l, "ELIGIBILITY_EVALUATED", "TRIAGING", "drive")
              \/ Move(l, "ELIGIBILITY_EVALUATED", "PARKED", "finish")
Triage(l) == \/ Move(l, "TRIAGING", "PARKED", "finish")
             \/ Move(l, "TRIAGING", "TERMINATION_PENDING", "finish")
Terminate(l) == \/ Move(l, "TERMINATION_PENDING", "PARKED", "finish")
                \/ Move(l, "TERMINATION_PENDING", "FAILED", "finish")

\* The event is PROCESSED, by process_event or because the case changed under
\* the job; a case job has nothing to record.
Finish(l) ==
    /\ loop[l].pc = "finish"
    /\ loop' = Goto(l, "release")
    /\ event' = IF loop[l].event = None THEN event
                ELSE [event EXCEPT ![loop[l].event].status = "PROCESSED"]
    /\ UNCHANGED <<case, evaluated, faults>>

\* _release_event_case, _release_event, _release_case: what still is the loop's.
Release(l) ==
    /\ loop[l].pc = "release"
    /\ loop' = [loop EXCEPT ![l] = Idle]
    /\ case' = IF case.by = l THEN [case EXCEPT !.by = None, !.lease = FALSE] ELSE case
    /\ event' = [d \in Deliveries |->
         IF d = loop[l].event /\ event[d].by = l
         THEN [event[d] EXCEPT !.by = None, !.lease = FALSE] ELSE event[d]]
    /\ UNCHANGED <<evaluated, faults>>

Working(l) == loop[l].pc \in {"load", "ingest", "drive", "finish"}

\* A transient database error: everything is rolled back and released.
DbError(l) ==
    /\ Fault
    /\ Working(l)
    /\ loop' = Goto(l, "release")
    /\ UNCHANGED <<event, case, evaluated>>

\* Any other exception fails the event, and the case if it is still the loop's.
JobError(l) ==
    /\ Fault
    /\ Working(l)
    /\ loop' = Goto(l, "release")
    /\ event' = IF loop[l].event = None THEN event
                ELSE [event EXCEPT ![loop[l].event].status = "FAILED"]
    /\ IF case.by = l /\ (loop[l].event = None \/ event[loop[l].event].linked)
       THEN FailCase ELSE UNCHANGED case
    /\ UNCHANGED evaluated

\* The process dies; a new one has another claim id.
Crash(l) ==
    /\ Fault
    /\ loop[l].pc # "idle"
    /\ loop' = [loop EXCEPT ![l] = Idle]
    /\ case' = IF case.by = l THEN [case EXCEPT !.by = Dead] ELSE case
    /\ event' = [d \in Deliveries |->
         IF event[d].by = l THEN [event[d] EXCEPT !.by = Dead] ELSE event[d]]
    /\ UNCHANGED evaluated

\* Heartbeats keep the lease of an event job's event and of a case job's case;
\* an event job's lease on the case runs out under it.
EventLeaseLapses(d) ==
    /\ event[d].lease
    /\ event[d].by \notin Loops
    /\ event' = [event EXCEPT ![d].lease = FALSE]
    /\ UNCHANGED <<case, loop, evaluated, faults>>

CaseLeaseLapses ==
    /\ case.lease
    /\ case.by \in Loops => (loop[case.by].event # None \/ loop[case.by].pc = "idle")
    /\ case' = [case EXCEPT !.lease = FALSE]
    /\ UNCHANGED <<event, loop, evaluated, faults>>

\* A loop stalls past its heartbeats.
Stall(l) ==
    /\ Fault
    /\ Working(l)
    /\ case' = IF case.by = l THEN [case EXCEPT !.lease = FALSE] ELSE case
    /\ event' = [d \in Deliveries |->
         IF event[d].by = l THEN [event[d] EXCEPT !.lease = FALSE] ELSE event[d]]
    /\ UNCHANGED <<loop, evaluated>>

(***************************************************************************)
(* The specification.                                                      *)
(***************************************************************************)

Claim(l) == ClaimCase(l) \/ \E d \in Deliveries : ClaimEvent(l, d)

Work(l) == Load(l) \/ Ingest(l) \/ Evaluate(l) \/ Verdict(l) \/ Triage(l) \/ Terminate(l)
           \/ Finish(l) \/ Release(l)

Lapse == CaseLeaseLapses \/ \E d \in Deliveries : EventLeaseLapses(d)

Next ==
    \/ \E d \in Deliveries : github_webhook(d)
    \/ \E l \in Loops :
         Claim(l) \/ Work(l) \/ DbError(l) \/ JobError(l) \/ Crash(l) \/ Stall(l)
    \/ Lapse

Spec == Init /\ [][Next]_vars

\* Loops poll, jobs go on, and leases nobody renews run out.
FairSpec ==
    /\ Spec
    /\ \A l \in Loops : WF_vars(Claim(l)) /\ WF_vars(Work(l))
    /\ WF_vars(Lapse)

(***************************************************************************)
(* Properties.                                                             *)
(***************************************************************************)

\* However often GitHub delivers and however many jobs believe the case to be
\* theirs, it leaves RECEIVED once: one evaluation, one rejection comment or one
\* triage (processor.py 341-422, lifecycle.py 389-407).
EvaluatedOnce == evaluated <= 1

\* A delivery that is settled stays settled: GitHub's redelivery of it, under the
\* same delivery id, is not worked on again (webhooks.py 87-92).
SettledStaysSettled ==
    [][\A d \in Deliveries : event[d].status \in {"PROCESSED", "FAILED"} =>
         event'[d].status \in {"PROCESSED", "FAILED"}]_vars

\* An accepted delivery is never forgotten: it is recorded as failed, or the
\* issue's case leaves RECEIVED, whichever job crashed, stalled or gave way
\* to another on the way (processor.py 400-422, worker/__init__.py 191-202: both
\* jobs may give way, each believing the case to be the other's).
NoIssueLost ==
    \A d \in Deliveries :
        event[d].status = "PENDING" ~>
            event[d].status = "FAILED" \/ case.state \notin {"absent", "RECEIVED"}

\* Every stored delivery is settled in the end: an event whose worker died or
\* hit a database error is claimed again until it is PROCESSED or its attempts
\* are used up (worker/__init__.py 148-176).
DeliveriesSettle ==
    \A d \in Deliveries : event[d].status = "PENDING" ~> event[d].status \in {"PROCESSED", "FAILED"}
=============================================================================
