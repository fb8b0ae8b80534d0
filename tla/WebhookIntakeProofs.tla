-------------------------- MODULE WebhookIntakeProofs --------------------------
(***************************************************************************)
(* Theorems about WebhookIntake for any set of deliveries and loops and any *)
(* number of faults: type correctness, that a case leaves RECEIVED once,    *)
(* and that a settled delivery stays settled.                               *)
(***************************************************************************)
EXTENDS WebhookIntake, TLAPS

\* A delivery that waits has never been claimed, and a job that reads or ingests
\* has a delivery in hand.
JobsHaveEvents ==
    /\ \A d \in Deliveries : event[d].status = "PENDING" => event[d].attempts = 0
    /\ \A l \in Loops : loop[l].pc \in {"load", "ingest"} => loop[l].event \in Deliveries

\* The types are inductive together with that.
Typed == TypeOK /\ JobsHaveEvents

\* As long as the case is RECEIVED, nobody has evaluated it.
Unevaluated == case.state \in {"absent", "RECEIVED"} => evaluated = 0

\* The inductive invariant of EvaluatedOnce: the compare-and-set of transition() and
\* this make the second evaluation impossible.
OnceInv == Typed /\ EvaluatedOnce /\ Unevaluated
-----------------------------------------------------------------------------
(***************************************************************************)
(* Types of the pieces the actions are put together from.                   *)
(***************************************************************************)
EventRow == [status : EventStatus, attempts : 0 .. event_max_attempts + 1,
             by : Owners, lease : BOOLEAN, linked : BOOLEAN]

CaseRow == [state : CaseStates, by : Owners, lease : BOOLEAN]

LoopRow == [pc : Pcs, event : Deliveries \cup {None}, seen : CaseStates, owner : Owners]

LEMMA IdleType == Idle \in LoopRow /\ Idle.pc = "idle"
BY DEF Idle, LoopRow, Pcs, CaseStates, Owners

\* What fail_case() makes of the case is a case, and never one that waits for its
\* evaluation.
LEMMA FailCaseType ==
    ASSUME case \in CaseRow, FailCase
    PROVE  case' \in CaseRow /\ case'.state \notin {"absent", "RECEIVED"}
BY DEF FailCase, FailedStates, CaseRow, CaseStates

LEMMA KnownType ==
    ASSUME Typed, NEW l \in Loops
    PROVE  Known(l).state \in CaseStates /\ Known(l).by \in Owners
BY DEF Typed, TypeOK, Known, CaseStates, Owners
-----------------------------------------------------------------------------
(***************************************************************************)
(* Type correctness.                                                        *)
(***************************************************************************)
LEMMA TypedInit == Init => Typed
<1> SUFFICES ASSUME Init PROVE Typed
  OBVIOUS
<1>1. loop \in [Loops -> LoopRow]
  BY IdleType DEF Init
<1>2. \A l \in Loops : loop[l].pc = "idle"
  BY IdleType DEF Init
<1> QED
  BY <1>1, <1>2, IntakeAssumption
  DEF Init, Typed, TypeOK, JobsHaveEvents, EventStatus, CaseStates, Owners, LoopRow

LEMMA WebhookTyped ==
    ASSUME Typed, NEW d \in Deliveries, github_webhook(d)
    PROVE  Typed'
BY IntakeAssumption
DEF Typed, TypeOK, JobsHaveEvents, github_webhook, EventStatus, Owners

LEMMA ClaimEventTyped ==
    ASSUME Typed, NEW l \in Loops, NEW d \in Deliveries, ClaimEvent(l, d)
    PROVE  Typed'
<1>1. event[d].attempts <= event_max_attempts /\ event[d].attempts \in Nat
  BY IntakeAssumption
  DEF Typed, TypeOK, JobsHaveEvents, ClaimEvent, EventClaimable
<1>2. CASE Exhausted(d)
  <2>1. case' \in CaseRow
    BY <1>2, FailCaseType DEF ClaimEvent, Typed, TypeOK, CaseRow
  <2> QED
    BY <1>1, <1>2, <2>1, IntakeAssumption
    DEF ClaimEvent, Typed, TypeOK, JobsHaveEvents, EventStatus, CaseRow
<1>3. CASE ~Exhausted(d)
  <2>1. event[d].attempts + 1 <= event_max_attempts
    BY <1>1, <1>3, IntakeAssumption DEF Exhausted
  <2>2. loop' = [loop EXCEPT ![l] = [Idle EXCEPT !.pc = "load", !.event = d]]
    BY <1>3 DEF ClaimEvent
  <2>3. /\ [Idle EXCEPT !.pc = "load", !.event = d] \in LoopRow
        /\ [Idle EXCEPT !.pc = "load", !.event = d].event = d
    BY IdleType DEF LoopRow, Pcs
  <2>4. loop' \in [Loops -> LoopRow] /\ loop'[l].event = d
    BY <2>2, <2>3 DEF Typed, TypeOK, LoopRow
  <2>5. \A k \in Loops : loop'[k].pc \in {"load", "ingest"} => loop'[k].event \in Deliveries
    BY <2>2, <2>3, <2>4 DEF Typed, TypeOK, JobsHaveEvents
  <2> QED
    BY <1>1, <1>3, <2>1, <2>4, <2>5, IntakeAssumption
    DEF ClaimEvent, Typed, TypeOK, JobsHaveEvents, EventStatus, Owners, LoopRow
<1> QED
  BY <1>2, <1>3

LEMMA ClaimCaseTyped ==
    ASSUME Typed, NEW l \in Loops, ClaimCase(l)
    PROVE  Typed'
<1> DEFINE next == [Idle EXCEPT !.pc = "drive", !.seen = case.state]
<1>1. next \in LoopRow /\ next.pc = "drive"
  BY IdleType DEF Typed, TypeOK, LoopRow, Pcs
<1>2. loop' = [loop EXCEPT ![l] = next]
  BY DEF ClaimCase
<1> HIDE DEF next
<1>3. loop' \in [Loops -> LoopRow]
  BY <1>1, <1>2 DEF Typed, TypeOK, LoopRow
<1> QED
  BY <1>1, <1>2, <1>3
  DEF ClaimCase, Typed, TypeOK, JobsHaveEvents, LoopRow, CaseStates, Owners

LEMMA LoadTyped ==
    ASSUME Typed, NEW l \in Loops, Load(l)
    PROVE  Typed'
<1>1. loop' \in [Loops -> LoopRow]
  <2> DEFINE next == [loop[l] EXCEPT !.pc = "ingest", !.seen = case.state, !.owner = case.by]
  <2>1. loop' = [loop EXCEPT ![l] = next]
    BY DEF Load, Typed, TypeOK
  <2>2. next \in LoopRow
    <3>1. case.state \in CaseStates /\ case.by \in Owners /\ loop[l] \in LoopRow
      BY DEF Typed, TypeOK, LoopRow
    <3> QED
      BY <3>1 DEF LoopRow, Pcs
  <2> HIDE DEF next
  <2> QED
    BY <2>1, <2>2 DEF Typed, TypeOK, LoopRow
<1>2. \A k \in Loops : loop'[k].pc \in {"load", "ingest"} => loop'[k].event \in Deliveries
  BY DEF Load, Typed, TypeOK, JobsHaveEvents
<1> QED
  BY <1>1, <1>2 DEF Load, Typed, TypeOK, JobsHaveEvents, LoopRow

\* What two of the steps do to the status of the events.
LEMMA IngestStatus ==
    ASSUME Typed, NEW l \in Loops, Ingest(l)
    PROVE  \A d \in Deliveries : event'[d].status \in {event[d].status, "PROCESSED"}
                                 /\ event'[d].attempts = event[d].attempts
<1>1. loop[l].event \in Deliveries
  BY DEF Ingest, Typed, JobsHaveEvents
<1> QED
  BY <1>1 DEF Ingest, Typed, TypeOK

LEMMA ReleaseStatus ==
    ASSUME Typed, NEW l \in Loops, Release(l)
    PROVE  \A d \in Deliveries : event'[d].status = event[d].status
                                 /\ event'[d].attempts = event[d].attempts
BY DEF Release, Typed, TypeOK

LEMMA IngestTyped ==
    ASSUME Typed, NEW l \in Loops, Ingest(l)
    PROVE  Typed'
<1>1. loop[l].event \in Deliveries
  BY DEF Ingest, Typed, JobsHaveEvents
<1>2. event' \in [Deliveries -> EventRow]
  <2> DEFINE d == loop[l].event
  <2>1. event[d] \in EventRow
    BY <1>1 DEF Typed, TypeOK, EventRow
  <2>2. [event[d] EXCEPT !.linked = TRUE, !.status = "PROCESSED"] \in EventRow
    BY <2>1 DEF EventRow, EventStatus
  <2>3. [event[d] EXCEPT !.linked = TRUE] \in EventRow
    BY <2>1 DEF EventRow
  <2>4. \/ event' = [event EXCEPT ![d] = [event[d] EXCEPT !.linked = TRUE, !.status = "PROCESSED"]]
        \/ event' = [event EXCEPT ![d] = [event[d] EXCEPT !.linked = TRUE]]
    BY <1>1 DEF Ingest, Typed, TypeOK
  <2> HIDE DEF d
  <2> QED
    BY <1>1, <2>2, <2>3, <2>4 DEF Typed, TypeOK, EventRow, d
<1>3. \A d \in Deliveries : event'[d].status \in {event[d].status, "PROCESSED"}
                             /\ event'[d].attempts = event[d].attempts
  BY IngestStatus
<1>4. case' \in CaseRow
  <2>1. case \in CaseRow /\ l \in Owners /\ "RECEIVED" \in CaseStates
    BY DEF Typed, TypeOK, CaseRow, Owners, CaseStates
  <2> DEFINE s == IF case.state = "absent" THEN "RECEIVED" ELSE case.state
             b == IF Known(l).by = None THEN l ELSE case.by
             x == Known(l).by = None \/ case.lease
  <2>2. s \in CaseStates /\ b \in Owners /\ x \in BOOLEAN
    BY <2>1 DEF CaseRow
  <2>3. case' = case \/ case' = [state |-> s, by |-> b, lease |-> x]
    BY DEF Ingest
  <2> HIDE DEF s, b, x
  <2> QED
    BY <2>1, <2>2, <2>3 DEF CaseRow
<1>5. loop' \in [Loops -> LoopRow]
  BY DEF Ingest, Goto, Typed, TypeOK, LoopRow, Pcs, CaseStates
<1>6. \A k \in Loops : loop'[k].pc \in {"load", "ingest"} => loop'[k].event \in Deliveries
  BY DEF Ingest, Goto, Typed, TypeOK, JobsHaveEvents
<1>7. UNCHANGED <<evaluated, faults>>
  BY DEF Ingest
<1> QED
  BY <1>2, <1>3, <1>4, <1>5, <1>6, <1>7
  DEF Typed, TypeOK, JobsHaveEvents, CaseRow, LoopRow, EventRow

LEMMA MoveTyped ==
    ASSUME Typed, NEW l \in Loops,
           NEW from \in CaseStates, NEW to \in CaseStates, NEW pc \in {"drive", "finish"},
           Move(l, from, to, pc)
    PROVE  Typed'
<1>1. loop' \in [Loops -> LoopRow]
  BY DEF Move, Goto, Typed, TypeOK, LoopRow, Pcs
<1>2. \A k \in Loops : loop'[k].pc \in {"load", "ingest"} => loop'[k].event \in Deliveries
  BY DEF Move, Goto, Typed, TypeOK, JobsHaveEvents
<1>3. case' \in CaseRow
  BY DEF Move, Typed, TypeOK, CaseRow
<1>4. evaluated' \in 0 .. 2
  BY DEF Move, Typed, TypeOK
<1>5. UNCHANGED <<event, faults>>
  BY DEF Move
<1> QED
  BY <1>1, <1>2, <1>3, <1>4, <1>5 DEF Typed, TypeOK, JobsHaveEvents, CaseRow, LoopRow

\* The driver's steps are transitions between these states.
LEMMA DriveMoves ==
    ASSUME NEW l \in Loops, Evaluate(l) \/ Verdict(l) \/ Triage(l) \/ Terminate(l)
    PROVE  \E from \in CaseStates, to \in CaseStates \ {"absent", "RECEIVED"},
              pc \in {"drive", "finish"} : Move(l, from, to, pc)
BY DEF Evaluate, Verdict, Triage, Terminate, CaseStates

LEMMA FinishTyped ==
    ASSUME Typed, NEW l \in Loops, Finish(l)
    PROVE  Typed'
BY DEF Finish, Goto, Typed, TypeOK, JobsHaveEvents, EventStatus, Pcs

LEMMA ReleaseTyped ==
    ASSUME Typed, NEW l \in Loops, Release(l)
    PROVE  Typed'
<1>1. loop' \in [Loops -> LoopRow]
  BY IdleType DEF Release, Typed, TypeOK, LoopRow
<1>2. \A k \in Loops : loop'[k].pc \in {"load", "ingest"} => loop'[k].event \in Deliveries
  BY IdleType DEF Release, Typed, TypeOK, JobsHaveEvents
<1>3. case' \in CaseRow
  BY DEF Release, Typed, TypeOK, CaseRow, Owners
<1>4. event' \in [Deliveries -> EventRow]
  BY DEF Release, Typed, TypeOK, EventRow, Owners
<1>5. \A d \in Deliveries : event'[d].status = event[d].status
                             /\ event'[d].attempts = event[d].attempts
  BY ReleaseStatus
<1>6. UNCHANGED <<evaluated, faults>>
  BY DEF Release
<1> QED
  BY <1>1, <1>2, <1>3, <1>4, <1>5, <1>6
  DEF Typed, TypeOK, JobsHaveEvents, CaseRow, LoopRow, EventRow

LEMMA FaultTyped ==
    ASSUME Typed, Fault
    PROVE  faults' \in 0 .. MaxFaults
BY IntakeAssumption DEF Fault, Typed, TypeOK

LEMMA DbErrorTyped ==
    ASSUME Typed, NEW l \in Loops, DbError(l)
    PROVE  Typed'
<1>1. faults' \in 0 .. MaxFaults
  BY FaultTyped DEF DbError
<1> QED
  BY <1>1 DEF DbError, Goto, Typed, TypeOK, JobsHaveEvents, Pcs

LEMMA JobErrorTyped ==
    ASSUME Typed, NEW l \in Loops, JobError(l)
    PROVE  Typed'
<1>1. faults' \in 0 .. MaxFaults
  BY FaultTyped DEF JobError
<1>2. case' \in CaseRow
  BY FailCaseType DEF JobError, Typed, TypeOK, CaseRow
<1>3. event' \in [Deliveries -> EventRow]
  BY DEF JobError, Typed, TypeOK, EventRow, EventStatus
<1>4. \A d \in Deliveries : event'[d].status \in {event[d].status, "FAILED"}
                             /\ event'[d].attempts = event[d].attempts
  BY DEF JobError, Typed, TypeOK
<1>5. loop' \in [Loops -> LoopRow]
  BY DEF JobError, Goto, Typed, TypeOK, LoopRow, Pcs
<1>6. \A k \in Loops : loop'[k].pc \in {"load", "ingest"} => loop'[k].event \in Deliveries
  BY DEF JobError, Goto, Typed, TypeOK, JobsHaveEvents
<1>7. evaluated' \in 0 .. 2
  BY DEF JobError, Typed, TypeOK
<1> QED
  BY <1>1, <1>2, <1>3, <1>4, <1>5, <1>6, <1>7
  DEF Typed, TypeOK, JobsHaveEvents, CaseRow, LoopRow, EventRow

LEMMA CrashTyped ==
    ASSUME Typed, NEW l \in Loops, Crash(l)
    PROVE  Typed'
<1>1. faults' \in 0 .. MaxFaults
  BY FaultTyped DEF Crash
<1>2. loop' \in [Loops -> LoopRow]
  BY IdleType DEF Crash, Typed, TypeOK, LoopRow
<1>3. \A k \in Loops : loop'[k].pc \in {"load", "ingest"} => loop'[k].event \in Deliveries
  BY IdleType DEF Crash, Typed, TypeOK, JobsHaveEvents
<1> QED
  BY <1>1, <1>2, <1>3 DEF Crash, Typed, TypeOK, JobsHaveEvents, Owners, Dead, LoopRow

LEMMA LapseTyped ==
    ASSUME Typed, Lapse
    PROVE  Typed'
<1>1. CASE CaseLeaseLapses
  BY <1>1 DEF CaseLeaseLapses, Typed, TypeOK, JobsHaveEvents
<1>2. ASSUME NEW d \in Deliveries, EventLeaseLapses(d)
      PROVE  Typed'
  BY <1>2 DEF EventLeaseLapses, Typed, TypeOK, JobsHaveEvents
<1> QED
  BY <1>1, <1>2 DEF Lapse

LEMMA StallTyped ==
    ASSUME Typed, NEW l \in Loops, Stall(l)
    PROVE  Typed'
<1>1. faults' \in 0 .. MaxFaults
  BY FaultTyped DEF Stall
<1>2. case' \in CaseRow
  BY DEF Stall, Typed, TypeOK, CaseRow
<1>3. event' \in [Deliveries -> EventRow]
  BY DEF Stall, Typed, TypeOK, EventRow
<1>4. \A d \in Deliveries : event'[d].status = event[d].status
                             /\ event'[d].attempts = event[d].attempts
  BY DEF Stall, Typed, TypeOK
<1>5. UNCHANGED <<loop, evaluated>>
  BY DEF Stall
<1> QED
  BY <1>1, <1>2, <1>3, <1>4, <1>5 DEF Typed, TypeOK, JobsHaveEvents, CaseRow, EventRow

LEMMA TypedNext == Typed /\ [Next]_vars => Typed'
<1> SUFFICES ASSUME Typed, [Next]_vars PROVE Typed'
  OBVIOUS
<1>1. CASE UNCHANGED vars
  BY <1>1 DEF vars, Typed, TypeOK, JobsHaveEvents
<1>2. CASE \E d \in Deliveries : github_webhook(d)
  BY <1>2, WebhookTyped
<1>3. ASSUME NEW l \in Loops, Claim(l) PROVE Typed'
  BY <1>3, ClaimCaseTyped, ClaimEventTyped DEF Claim
<1>4. ASSUME NEW l \in Loops, Work(l) PROVE Typed'
  <2>1. CASE Evaluate(l) \/ Verdict(l) \/ Triage(l) \/ Terminate(l)
    BY <2>1, DriveMoves, MoveTyped
  <2> QED
    BY <1>4, <2>1, LoadTyped, IngestTyped, FinishTyped, ReleaseTyped DEF Work
<1>5. ASSUME NEW l \in Loops, DbError(l) \/ JobError(l) \/ Crash(l) \/ Stall(l)
      PROVE  Typed'
  BY <1>5, DbErrorTyped, JobErrorTyped, CrashTyped, StallTyped
<1>6. CASE Lapse
  BY <1>6, LapseTyped
<1> QED
  BY <1>1, <1>2, <1>3, <1>4, <1>5, <1>6 DEF Next

\* Every reachable state is well typed, and no event is worked on more often than
\* EVENT_MAX_ATTEMPTS allows (_claim_event() counts before it compares), whatever
\* loops, deliveries and faults there are.
THEOREM TypeCorrect == Spec => []TypeOK
<1>1. Typed => TypeOK
  BY DEF Typed
<1> QED
  BY <1>1, TypedInit, TypedNext, PTL DEF Spec
-----------------------------------------------------------------------------
(***************************************************************************)
(* One evaluation.                                                          *)
(***************************************************************************)
LEMMA OnceInit == Init => OnceInv
BY TypedInit DEF Init, OnceInv, EvaluatedOnce, Unevaluated

\* A step that leaves the count alone keeps the invariant, if the case does not come
\* back to a state in which it would be evaluated.
LEMMA OnceKept ==
    ASSUME OnceInv, Typed', UNCHANGED evaluated,
           case'.state \in {"absent", "RECEIVED"} => case.state \in {"absent", "RECEIVED"}
    PROVE  OnceInv'
BY DEF OnceInv, EvaluatedOnce, Unevaluated

LEMMA OnceMove ==
    ASSUME OnceInv, Typed', NEW l \in Loops, NEW from \in CaseStates,
           NEW to \in CaseStates \ {"absent", "RECEIVED"}, NEW pc,
           Move(l, from, to, pc)
    PROVE  OnceInv'
<1>1. case \in CaseRow /\ evaluated \in 0 .. 2
  BY DEF OnceInv, Typed, TypeOK, CaseRow
<1>2. CASE Holds(l) /\ from = "RECEIVED"
  <2>1. evaluated = 0
    BY <1>2 DEF OnceInv, Unevaluated, Holds, Move
  <2>2. evaluated' = 1 /\ case'.state = to
    BY <1>1, <1>2, <2>1 DEF Move, CaseRow
  <2> QED
    BY <2>2 DEF OnceInv, EvaluatedOnce, Unevaluated
<1>3. CASE Holds(l) /\ from # "RECEIVED"
  <2>1. evaluated' = evaluated /\ case'.state = to
    BY <1>1, <1>3 DEF Move, CaseRow
  <2> QED
    BY <2>1, OnceKept
<1>4. CASE ~Holds(l)
  BY <1>4, OnceKept DEF Move
<1> QED
  BY <1>2, <1>3, <1>4

LEMMA OnceNext == OnceInv /\ [Next]_vars => OnceInv'
<1> SUFFICES ASSUME OnceInv, [Next]_vars PROVE OnceInv'
  OBVIOUS
<1>1. Typed /\ Typed'
  BY TypedNext DEF OnceInv
<1>2. case \in CaseRow
  BY <1>1 DEF Typed, TypeOK, CaseRow
<1>3. CASE UNCHANGED vars \/ (\E d \in Deliveries : github_webhook(d)) \/ Lapse
  <2>1. case'.state = case.state /\ UNCHANGED evaluated
    BY <1>2, <1>3
    DEF vars, github_webhook, Lapse, CaseLeaseLapses, EventLeaseLapses, CaseRow
  <2> QED
    BY <1>1, <2>1, OnceKept
<1>4. ASSUME NEW l \in Loops, Claim(l) PROVE OnceInv'
  <2>1. UNCHANGED evaluated
    BY <1>4 DEF Claim, ClaimCase, ClaimEvent
  <2>2. case'.state = case.state \/ FailCase
    BY <1>2, <1>4 DEF Claim, ClaimCase, ClaimEvent, CaseRow
  <2> QED
    BY <1>1, <1>2, <2>1, <2>2, FailCaseType, OnceKept
<1>5. ASSUME NEW l \in Loops, Work(l) PROVE OnceInv'
  <2>1. CASE Evaluate(l) \/ Verdict(l) \/ Triage(l) \/ Terminate(l)
    BY <1>1, <2>1, DriveMoves, OnceMove
  <2>2. CASE Ingest(l)
    BY <1>1, <1>2, <2>2, OnceKept DEF Ingest, CaseRow
  <2>3. CASE Load(l) \/ Finish(l) \/ Release(l)
    BY <1>1, <1>2, <2>3, OnceKept DEF Load, Finish, Release, CaseRow
  <2> QED
    BY <1>5, <2>1, <2>2, <2>3 DEF Work
<1>6. ASSUME NEW l \in Loops, DbError(l) \/ JobError(l) \/ Crash(l) \/ Stall(l)
      PROVE  OnceInv'
  <2>1. UNCHANGED evaluated
    BY <1>6 DEF DbError, JobError, Crash, Stall
  <2>2. case'.state = case.state \/ FailCase
    BY <1>2, <1>6 DEF DbError, JobError, Crash, Stall, CaseRow
  <2> QED
    BY <1>1, <1>2, <2>1, <2>2, FailCaseType, OnceKept
<1> QED
  BY <1>3, <1>4, <1>5, <1>6 DEF Next

\* However often GitHub delivers, however many jobs hold a stale copy of the case and
\* whatever crashes, stalls or fails, the case is evaluated at most once:
\* transition() compares the state and the claim with what the job read.
THEOREM EvaluatedAtMostOnce == Spec => []EvaluatedOnce
<1>1. OnceInv => EvaluatedOnce
  BY DEF OnceInv
<1> QED
  BY <1>1, OnceInit, OnceNext, PTL DEF Spec
-----------------------------------------------------------------------------
(***************************************************************************)
(* Settled deliveries.                                                      *)
(***************************************************************************)
Settled(status) == status \in {"PROCESSED", "FAILED"}

\* One step of SettledStaysSettled.
KeepsSettled == \A d \in Deliveries : Settled(event[d].status) => Settled(event'[d].status)

LEMMA SettledNext == Typed /\ Next => KeepsSettled
<1> SUFFICES ASSUME Typed, Next, NEW d \in Deliveries, Settled(event[d].status)
             PROVE  Settled(event'[d].status)
  BY DEF KeepsSettled
<1>1. ASSUME NEW c \in Deliveries, github_webhook(c) PROVE Settled(event'[d].status)
  BY <1>1 DEF github_webhook, Stored, Settled, Typed, TypeOK
<1>2. ASSUME NEW l \in Loops, Claim(l) PROVE Settled(event'[d].status)
  BY <1>2 DEF Claim, ClaimCase, ClaimEvent, EventClaimable, Settled, Typed, TypeOK
<1>3. ASSUME NEW l \in Loops, Work(l) PROVE Settled(event'[d].status)
  <2>1. CASE Evaluate(l) \/ Verdict(l) \/ Triage(l) \/ Terminate(l)
    <3>1. UNCHANGED event
      BY <2>1, DriveMoves DEF Move
    <3> QED
      BY <3>1
  <2>2. CASE Load(l) \/ Release(l)
    <3>1. event'[d].status = event[d].status
      BY <2>2, ReleaseStatus DEF Load
    <3> QED
      BY <3>1
  <2>3. CASE Ingest(l)
    <3>1. event'[d].status \in {event[d].status, "PROCESSED"}
      BY <2>3, IngestStatus
    <3> QED
      BY <3>1 DEF Settled
  <2>4. CASE Finish(l)
    BY <2>4 DEF Finish, Settled, Typed, TypeOK
  <2> QED
    BY <1>3, <2>1, <2>2, <2>3, <2>4 DEF Work
<1>4. ASSUME NEW l \in Loops, DbError(l) \/ JobError(l) \/ Crash(l) \/ Stall(l)
      PROVE  Settled(event'[d].status)
  BY <1>4 DEF DbError, JobError, Crash, Stall, Settled, Typed, TypeOK
<1>5. CASE Lapse
  BY <1>5 DEF Lapse, CaseLeaseLapses, EventLeaseLapses, Settled, Typed, TypeOK
<1> QED
  BY <1>1, <1>2, <1>3, <1>4, <1>5 DEF Next

\* A delivery that was PROCESSED or FAILED is never worked on again: the unique
\* delivery id refuses GitHub's redelivery, and no claim, retry or late job reopens
\* the row.
THEOREM SettledForGood == Spec => SettledStaysSettled
<1>1. Typed /\ [Next]_vars => [KeepsSettled]_vars
  BY SettledNext
<1>2. [KeepsSettled]_vars =>
        [\A d \in Deliveries : event[d].status \in {"PROCESSED", "FAILED"} =>
           event'[d].status \in {"PROCESSED", "FAILED"}]_vars
  BY DEF KeepsSettled, Settled
<1> QED
  BY <1>1, <1>2, TypedInit, TypedNext, PTL DEF Spec, SettledStaysSettled
=============================================================================
