----------------------- MODULE RemediationPipelineProofs -----------------------
(***************************************************************************)
(* Theorems about RemediationPipeline for any number of loops, checks,      *)
(* attempts, commits, faults, lapses and operator actions: a case gets one  *)
(* verified pull request, CI_PASSED rests on an unbroken chain of evidence, *)
(* and a verdict on record at head is not followed by another; and, when    *)
(* no lease lapses under a running job, no session is paid for without a    *)
(* BASE run of its own.                                                     *)
(***************************************************************************)
EXTENDS RemediationPipeline, SequenceTheorems, SetBounds

Claims == [by : Loops \cup {"none"}, lapsed : BOOLEAN]

Jobs ==
    [pc : PCs, state : REMEDIATION_PHASE_STATES, attempt : Attempts \cup {0}, run : Nat,
     snap : 0..MaxSnapshots, verdict : Verdicts, head : Heads \cup {0}, late : BOOLEAN]

\* Types, in full.
Typed ==
    /\ state \in REMEDIATION_PHASE_STATES
    /\ why \in {"none", "missing_probe", "other"}
    /\ ci_status \in {"none", "PENDING", "ABSENT", "PASSED", "FAILED", "TIMED_OUT"}
    /\ claim \in Claims
    /\ policy \in {"required", "if_available"}
    /\ registered \in BOOLEAN /\ decided \in BOOLEAN
    /\ snapshots \in 0..MaxSnapshots
    /\ runs \in Seq(Runs)
    /\ attempts \in Seq(AttemptRows) /\ Len(attempts) <= max_attempts_per_kind
    /\ pr \in [Attempts -> Heads]
    /\ job \in [Loops -> Jobs]

\* The states on the way from a dispatch to a verified pull request, and those behind the
\* probe at head.
Undelivered ==
    {"PROBE_VALIDATING_BASE", "PROBE_INFRASTRUCTURE_BLOCKED", "REMEDIATION_CREATE_INTENT",
     "REMEDIATION_RECONCILING_CREATE", "REMEDIATING", "OUTPUT_VALIDATING", "PR_DISCOVERED",
     "PR_VALIDATING"}
Behind == {"PR_VALIDATED", "CI_PENDING", "CI_PASSED"}

Running(a) == attempts[a].status = "RUNNING"
SomeRunning == \E a \in DOMAIN attempts : Running(a)
Valid(a) == attempts[a].evidence = "valid"
Clean(a) == Green(attempts[a].checks)
NoneValid == \A a \in DOMAIN attempts : ~Valid(a)

\* The pull request of the attempt is verified, by the probe at head too.
Verified(a) == Valid(a) /\ (attempts[a].snap # 0 => Matched(a, "HEAD"))
SomeVerified == \E a \in DOMAIN attempts : Verified(a)

\* The probe has not been heard at head yet.
Open == \A i \in DOMAIN runs : runs[i].target = "HEAD" => runs[i].verdict = "INFRASTRUCTURE"

\* Only the newest attempt can be active, and a session only runs in two states, with
\* no pull request verified.
Sessions ==
    /\ \A a \in DOMAIN attempts : attempts[a].status \in {"CREATING", "RUNNING"} => a = Newest
    /\ \A a \in DOMAIN attempts : Running(a) =>
         state \in {"REMEDIATING", "REMEDIATION_TERMINATION_PENDING"} /\ NoneValid
    /\ state \in PIPELINE_STATES => Newest > 0

\* A pull request is only worked on while none is verified; a verified one is about the
\* head its session named, and no attempt after it has a head.
Deliveries ==
    /\ state \in Undelivered => NoneValid
    /\ \A a \in DOMAIN attempts : Valid(a) =>
         /\ attempts[a].of = attempts[a].head /\ attempts[a].head # 0
         /\ \A b \in DOMAIN attempts : b > a => attempts[b].head = 0
    /\ state = "PROBE_VALIDATING_HEAD" => ~NoneValid
    /\ state \in Behind => SomeVerified
    /\ state = "CI_PASSED" => \E a \in DOMAIN attempts : Verified(a) /\ Clean(a)

\* Where a step may be run again, what came before it is on record.
Stages ==
    \A a \in DOMAIN attempts :
        /\ attempts[a].stage \in {"probe_head", "ci"} => ~NoneValid
        /\ attempts[a].stage = "ci" /\ attempts[a].head # 0 => Verified(a)
        /\ attempts[a].stage = "probe_head" /\ attempts[a].infrastructure =>
             Valid(a) /\ Open /\ state # "PROBE_VALIDATING_HEAD"

\* Probe executions: what an attempt rests on, and the order of those at head.
Probes ==
    /\ \A a \in DOMAIN attempts : IF attempts[a].snap = 0 THEN decided ELSE Reproduced(a)
    /\ NoneValid => \A i \in DOMAIN runs : runs[i].target # "HEAD"
    /\ state = "PROBE_VALIDATING_HEAD" => Open
    /\ HeadVerdictStands

Rows == Sessions /\ Deliveries /\ Stages /\ Probes

\* What a job has loaded and may rely on; some of it only while its loop has the claim.
Desk(l) ==
    /\ job[l].attempt \in 0..Newest /\ job[l].run \in 0..Len(runs)
    /\ job[l].pc \in {"attach", "session", "pull", "head", "poll"} => job[l].attempt > 0
    /\ job[l].pc \in {"base", "based"} => job[l].state = "PROBE_VALIDATING_BASE"
    /\ job[l].pc = "start" =>
         IF job[l].run = 0 THEN decided
         ELSE /\ runs[job[l].run].target = "BASE" /\ runs[job[l].run].verdict = "MATCHED"
              /\ runs[job[l].run].snap # 0
    /\ job[l].pc \in {"start", "attach"} =>
         job[l].state \in {"REMEDIATION_CREATE_INTENT", "REMEDIATING"}
    /\ job[l].pc = "attach" =>
         /\ claim.by = l => attempts[job[l].attempt].status = "CREATING"
         /\ \A m \in Loops \ {l} : job[m].pc = "attach" => job[m].attempt # job[l].attempt
    /\ job[l].pc = "session" =>
         /\ job[l].state = "REMEDIATING"
         /\ claim.by = l => \A b \in DOMAIN attempts : Running(b) => b = job[l].attempt
    /\ job[l].pc = "pull" =>
         /\ job[l].state = "PR_VALIDATING"
         /\ claim.by = l => /\ attempts[job[l].attempt].head # 0
                            /\ \A b \in DOMAIN attempts : b > job[l].attempt => attempts[b].head = 0
    /\ job[l].pc = "head" =>
         /\ job[l].state = "PROBE_VALIDATING_HEAD"
         /\ Valid(job[l].attempt) /\ attempts[job[l].attempt].snap # 0
    /\ job[l].pc = "poll" => job[l].state = "CI_PENDING" /\ Verified(job[l].attempt)

Desks == \A l \in Loops : Desk(l)

\* The inductive invariant.
PipeInv == Typed /\ Rows /\ Desks
-----------------------------------------------------------------------------
(***************************************************************************)
(* Types, and what never changes.                                           *)
(***************************************************************************)
LEMMA NewestFacts ==
    ASSUME Typed
    PROVE  /\ Newest \in Nat /\ DOMAIN attempts = 1..Newest
           /\ \A a \in DOMAIN attempts : attempts[a] \in AttemptRows
           /\ Newest > 0 => Newest \in DOMAIN attempts
           /\ Newest <= max_attempts_per_kind /\ DOMAIN attempts \subseteq Attempts
BY ConstantsAssumption DEF Typed, Newest, Attempts

LEMMA RunFacts ==
    ASSUME Typed
    PROVE  /\ Len(runs) \in Nat /\ DOMAIN runs = 1..Len(runs)
           /\ \A i \in DOMAIN runs : runs[i] \in Runs
BY LenProperties, ElementOfSeq DEF Typed

LEMMA IdleType ==
    /\ Idle \in Jobs /\ Idle.pc = "idle" /\ Idle.attempt = 0 /\ Idle.run = 0
    /\ \A s \in REMEDIATION_PHASE_STATES :
         /\ [Idle EXCEPT !.pc = "run", !.state = s] \in Jobs
         /\ [Idle EXCEPT !.pc = "run", !.state = s].pc = "run"
         /\ [Idle EXCEPT !.pc = "run", !.state = s].state = s
         /\ [Idle EXCEPT !.pc = "run", !.state = s].attempt = 0
         /\ [Idle EXCEPT !.pc = "run", !.state = s].run = 0
<1>1. MaxSnapshots \in Nat
  BY ConstantsAssumption
<1>2. Idle \in Jobs /\ Idle.pc = "idle" /\ Idle.attempt = 0 /\ Idle.run = 0
  BY <1>1 DEF Idle, Jobs, PCs, Verdicts, REMEDIATION_PHASE_STATES
<1>3. ASSUME NEW s \in REMEDIATION_PHASE_STATES, NEW i \in Jobs
      PROVE  /\ [i EXCEPT !.pc = "run", !.state = s] \in Jobs
             /\ [i EXCEPT !.pc = "run", !.state = s].pc = "run"
             /\ [i EXCEPT !.pc = "run", !.state = s].state = s
             /\ [i EXCEPT !.pc = "run", !.state = s].attempt = i.attempt
             /\ [i EXCEPT !.pc = "run", !.state = s].run = i.run
  BY DEF Jobs, PCs
<1> QED
  BY <1>2, <1>3

\* A step that writes one attempt.
LEMMA Written ==
    ASSUME Typed, NEW a \in DOMAIN attempts, NEW r \in AttemptRows,
           attempts' = [attempts EXCEPT ![a] = r]
    PROVE  /\ attempts' \in Seq(AttemptRows) /\ Newest' = Newest /\ Len(attempts') = Len(attempts)
           /\ DOMAIN attempts' = DOMAIN attempts /\ attempts'[a] = r
           /\ \A b \in DOMAIN attempts : b # a => attempts'[b] = attempts[b]
<1>1. a \in 1..Len(attempts)
  BY NewestFacts DEF Newest
<1>2. /\ [attempts EXCEPT ![a] = r] \in Seq(AttemptRows)
      /\ Len([attempts EXCEPT ![a] = r]) = Len(attempts)
  BY <1>1, ExceptSeq DEF Typed
<1> QED
  BY <1>1, <1>2 DEF Newest

\* Rows are added; of those there are, what is verified stays as it is.
Grows ==
    /\ \A a \in DOMAIN attempts :
         /\ a \in DOMAIN attempts' /\ attempts'[a].snap = attempts[a].snap
         /\ Valid(a) => /\ attempts'[a].evidence = "valid" /\ attempts'[a].of = attempts[a].of
                        /\ attempts'[a].head = attempts[a].head
    /\ \A i \in DOMAIN runs :
         /\ i \in DOMAIN runs' /\ runs'[i].snap = runs[i].snap /\ runs'[i].head = runs[i].head
         /\ runs'[i].target = runs[i].target /\ runs'[i].verdict = runs[i].verdict
         /\ runs[i].target = "HEAD" => runs'[i].attempt = runs[i].attempt
    /\ decided => decided'

LEMMA Lasting ==
    ASSUME Grows
    PROVE  /\ \A a \in DOMAIN attempts : /\ Valid(a) => Valid(a)'
                                         /\ Verified(a) => Verified(a)'
                                         /\ Reproduced(a) => Reproduced(a)'
           /\ ~NoneValid => ~NoneValid'
           /\ SomeVerified => SomeVerified'
<1>1. ASSUME NEW a \in DOMAIN attempts
      PROVE  /\ a \in DOMAIN attempts' /\ (Valid(a) => Valid(a)')
             /\ Reproduced(a) => Reproduced(a)'
  BY DEF Grows, Valid, Reproduced
<1>2. ASSUME NEW a \in DOMAIN attempts, Valid(a), Matched(a, "HEAD")
      PROVE  Matched(a, "HEAD")'
  BY <1>2 DEF Grows, Matched
<1>3. ASSUME NEW a \in DOMAIN attempts, Verified(a)
      PROVE  Verified(a)'
  BY <1>1, <1>2, <1>3 DEF Verified, Grows
<1>4. ~NoneValid => ~NoneValid'
  BY <1>1 DEF NoneValid
<1>5. SomeVerified => SomeVerified'
  <2> SUFFICES ASSUME NEW a \in DOMAIN attempts, Verified(a)
               PROVE  SomeVerified'
    BY DEF SomeVerified
  <2>1. a \in DOMAIN attempts' /\ Verified(a)'
    BY <1>1, <1>3
  <2> QED
    BY <2>1 DEF SomeVerified
<1> QED
  BY <1>1, <1>3, <1>4, <1>5
-----------------------------------------------------------------------------
(***************************************************************************)
(* Jobs and the claim.                                                      *)
(***************************************************************************)
\* What a loop that has lost the claim does to the attempts: it gives none a session and
\* none a head, and closes no create but its own.
Unnoticed(l) ==
    claim.by # l =>
        \A a \in DOMAIN attempts' :
            /\ attempts'[a].status = "RUNNING" => a \in DOMAIN attempts /\ Running(a)
            /\ a \in DOMAIN attempts => attempts'[a].head = attempts[a].head
            /\ a \notin DOMAIN attempts => attempts'[a].head = 0
            /\ a \in DOMAIN attempts /\ attempts[a].status = "CREATING"
                 /\ ~(job[l].pc = "attach" /\ job[l].attempt = a)
               => attempts'[a].status = "CREATING"

\* What another job knows stays true.
LEMMA OtherDesk ==
    ASSUME PipeInv, Typed', Grows, NEW l \in Loops, NEW m \in Loops, m # l,
           job'[m] = job[m], Desk(l)', Unnoticed(l),
           \A n \in Loops : n # l => job'[n] = job[n],
           claim'.by \in {claim.by, "none", l}
    PROVE  Desk(m)'
<1>1. Desk(m) /\ Typed /\ m # "none"
  BY ConstantsAssumption DEF PipeInv, Desks
<1>2. Newest \in Nat /\ DOMAIN attempts = 1..Newest /\ DOMAIN attempts' = 1..Newest' /\ Newest' \in Nat
  BY <1>1, NewestFacts DEF Typed, Newest, Claims, Jobs, AttemptRows
<1>3. Len(runs) \in Nat /\ DOMAIN runs = 1..Len(runs) /\ DOMAIN runs' = 1..Len(runs') /\ Len(runs') \in Nat
  BY <1>1, RunFacts DEF Typed, Newest, Claims, Jobs, AttemptRows
<1>4. Newest <= Newest' /\ Len(runs) <= Len(runs')
  <2>1. Newest > 0 => Newest \in 1..Newest'
    BY <1>2 DEF Grows
  <2>2. Len(runs) > 0 => Len(runs) \in 1..Len(runs')
    BY <1>3 DEF Grows
  <2> QED
    BY <1>2, <1>3, <2>1, <2>2
<1>5. claim'.by = m => claim.by = m /\ claim.by # l
  BY <1>1
<1>6. job[m].attempt \in 0..Newest' /\ job[m].run \in 0..Len(runs')
  BY <1>1, <1>2, <1>3, <1>4 DEF Desk
<1>7. job[m].pc \in {"attach", "session", "pull", "head", "poll"} =>
        job[m].attempt > 0 /\ job[m].attempt \in DOMAIN attempts /\ job[m].attempt \in DOMAIN attempts'
  BY <1>1, <1>2, <1>6 DEF Desk
<1>8. job[m].pc = "start" =>
        IF job[m].run = 0 THEN decided'
        ELSE /\ runs'[job[m].run].target = "BASE" /\ runs'[job[m].run].verdict = "MATCHED"
             /\ runs'[job[m].run].snap # 0
  BY <1>1, <1>3 DEF Desk, Grows
<1>9. job[m].pc = "attach" =>
         /\ claim'.by = m => attempts'[job[m].attempt].status = "CREATING"
         /\ \A n \in Loops \ {m} : job'[n].pc = "attach" => job'[n].attempt # job[m].attempt
  <2> SUFFICES ASSUME job[m].pc = "attach"
               PROVE  /\ claim'.by = m => attempts'[job[m].attempt].status = "CREATING"
                      /\ \A n \in Loops \ {m} : job'[n].pc = "attach" => job'[n].attempt # job[m].attempt
    OBVIOUS
  <2>1. \A n \in Loops \ {m} : job[n].pc = "attach" => job[n].attempt # job[m].attempt
    BY <1>1 DEF Desk
  <2>2. job'[l].pc = "attach" => job'[l].attempt # job[m].attempt
    BY DEF Desk
  <2>3. claim'.by = m => attempts[job[m].attempt].status = "CREATING"
    BY <1>1, <1>5 DEF Desk
  <2> QED
    BY <1>5, <1>7, <2>1, <2>2, <2>3 DEF Unnoticed
<1>10. job[m].pc = "session" =>
         (claim'.by = m => \A b \in DOMAIN attempts' : Running(b)' => b = job[m].attempt)
  BY <1>1, <1>5 DEF Desk, Unnoticed, Running
<1>11. job[m].pc = "pull" =>
         (claim'.by = m =>
           /\ attempts'[job[m].attempt].head # 0
           /\ \A b \in DOMAIN attempts' : b > job[m].attempt => attempts'[b].head = 0)
  BY <1>1, <1>5, <1>7 DEF Desk, Unnoticed
<1>12. job[m].pc = "head" => Valid(job[m].attempt)' /\ attempts'[job[m].attempt].snap # 0
  BY <1>1, <1>7 DEF Desk, Grows, Valid
<1>13. job[m].pc = "poll" => Verified(job[m].attempt)'
  BY <1>1, <1>7, Lasting DEF Desk
<1>14. /\ job[m].pc \in {"base", "based"} => job[m].state = "PROBE_VALIDATING_BASE"
       /\ job[m].pc \in {"start", "attach"} =>
            job[m].state \in {"REMEDIATION_CREATE_INTENT", "REMEDIATING"}
       /\ job[m].pc = "session" => job[m].state = "REMEDIATING"
       /\ job[m].pc = "pull" => job[m].state = "PR_VALIDATING"
       /\ job[m].pc = "head" => job[m].state = "PROBE_VALIDATING_HEAD"
       /\ job[m].pc = "poll" => job[m].state = "CI_PENDING"
  BY <1>1 DEF Desk
<1> QED
  BY <1>6, <1>7, <1>8, <1>9, <1>10, <1>11, <1>12, <1>13, <1>14 DEF Desk

LEMMA DesksKept ==
    ASSUME PipeInv, Typed', Grows, NEW l \in Loops, Desk(l)', Unnoticed(l),
           \A n \in Loops : n # l => job'[n] = job[n],
           claim'.by \in {claim.by, "none", l}
    PROVE  Desks'
<1>1. ASSUME NEW m \in Loops, m # l PROVE Desk(m)'
  BY <1>1, OtherDesk
<1> QED
  BY <1>1 DEF Desks

\* The job has ended or goes on from the beginning.
Turns(l) ==
    /\ job' \in [Loops -> Jobs] /\ claim' \in Claims /\ claim'.by \in {claim.by, "none", l}
    /\ \A n \in Loops : n # l => job'[n] = job[n]
    /\ job'[l].pc \in {"idle", "run"} /\ job'[l].attempt = 0 /\ job'[l].run = 0

LEMMA EndJobTurns ==
    ASSUME Typed, NEW l \in Loops, EndJob(l)
    PROVE  Turns(l)
BY IdleType DEF Typed, EndJob, Drop, Turns, Claims

LEMMA MoveToTurns ==
    ASSUME Typed, NEW l \in Loops, NEW s \in REMEDIATION_PHASE_STATES, MoveTo(l, s)
    PROVE  Turns(l) /\ state' = s
<1>1. CASE EndJob(l)
  BY <1>1, EndJobTurns DEF MoveTo
<1>2. CASE /\ job' = [job EXCEPT ![l] = [Idle EXCEPT !.pc = "run", !.state = s]]
           /\ UNCHANGED claim
  <2> DEFINE j == [Idle EXCEPT !.pc = "run", !.state = s]
  <2>1. j \in Jobs /\ j.pc = "run" /\ j.attempt = 0 /\ j.run = 0
    BY IdleType
  <2> HIDE DEF j
  <2>2. job' = [job EXCEPT ![l] = j]
    BY <1>2 DEF j
  <2> QED
    BY <1>2, <2>1, <2>2 DEF Typed, Turns, MoveTo
<1> QED
  BY <1>1, <1>2 DEF MoveTo

LEMMA TurnsDesks ==
    ASSUME PipeInv, Typed', Grows, NEW l \in Loops, Turns(l), Unnoticed(l)
    PROVE  Desks'
<1>1. Newest' \in Nat /\ Len(runs') \in Nat
  BY LenProperties DEF Typed, Newest
<1>2. Desk(l)'
  BY <1>1 DEF Desk, Turns
<1> QED
  BY <1>2, DesksKept DEF Turns

\* A step outside the jobs.
LEMMA OutsideDesks ==
    ASSUME PipeInv, Typed', Grows, UNCHANGED job, claim'.by = claim.by,
           DOMAIN attempts' = DOMAIN attempts,
           \A a \in DOMAIN attempts : /\ attempts'[a].status = attempts[a].status
                                      /\ attempts'[a].head = attempts[a].head,
           UNCHANGED runs
    PROVE  Desks'
<1> SUFFICES ASSUME NEW l \in Loops PROVE Desk(l)'
  BY DEF Desks
<1>1. Desk(l) /\ Typed
  BY DEF PipeInv, Desks
<1>2. Newest' = Newest /\ DOMAIN attempts = 1..Newest /\ Newest \in Nat
  BY <1>1, NewestFacts DEF Typed, Newest
<1>3. job[l].pc \in {"attach", "session", "pull", "head", "poll"} => job[l].attempt \in DOMAIN attempts
  BY <1>1, <1>2 DEF Desk
<1>4. job[l].pc = "poll" => Verified(job[l].attempt)'
  BY <1>1, <1>3, Lasting DEF Desk
<1>5. job[l].pc = "head" => Valid(job[l].attempt)' /\ attempts'[job[l].attempt].snap # 0
  BY <1>1, <1>3 DEF Desk, Grows, Valid
<1>6. /\ job[l].attempt \in 0..Newest /\ job[l].run \in 0..Len(runs)
      /\ job[l].pc \in {"attach", "session", "pull", "head", "poll"} => job[l].attempt > 0
      /\ job[l].pc \in {"base", "based"} => job[l].state = "PROBE_VALIDATING_BASE"
      /\ job[l].pc \in {"start", "attach"} =>
           job[l].state \in {"REMEDIATION_CREATE_INTENT", "REMEDIATING"}
      /\ job[l].pc = "session" => job[l].state = "REMEDIATING"
      /\ job[l].pc = "pull" => job[l].state = "PR_VALIDATING"
      /\ job[l].pc = "head" => job[l].state = "PROBE_VALIDATING_HEAD"
      /\ job[l].pc = "poll" => job[l].state = "CI_PENDING"
  BY <1>1 DEF Desk
<1>7. job[l].pc = "start" =>
        IF job[l].run = 0 THEN decided'
        ELSE /\ runs[job[l].run].target = "BASE" /\ runs[job[l].run].verdict = "MATCHED"
             /\ runs[job[l].run].snap # 0
  BY <1>1 DEF Desk, Grows
<1>8. job[l].pc = "attach" =>
         /\ claim.by = l => attempts'[job[l].attempt].status = "CREATING"
         /\ \A m \in Loops \ {l} : job[m].pc = "attach" => job[m].attempt # job[l].attempt
  BY <1>1, <1>3 DEF Desk
<1>9. job[l].pc = "session" =>
         (claim.by = l => \A b \in DOMAIN attempts : Running(b)' => b = job[l].attempt)
  BY <1>1 DEF Desk, Running
<1>10. job[l].pc = "pull" =>
         (claim.by = l =>
           /\ attempts'[job[l].attempt].head # 0
           /\ \A b \in DOMAIN attempts : b > job[l].attempt => attempts'[b].head = 0)
  BY <1>1, <1>3 DEF Desk
<1> QED
  BY <1>2, <1>4, <1>5, <1>6, <1>7, <1>8, <1>9, <1>10 DEF Desk
-----------------------------------------------------------------------------
(***************************************************************************)
(* Steps that verify nothing and name no head.                              *)
(***************************************************************************)
\* The attempts keep what the evidence is about, and none becomes active.
Alike ==
    /\ DOMAIN attempts' = DOMAIN attempts
    /\ \A a \in DOMAIN attempts :
         /\ attempts'[a].snap = attempts[a].snap /\ attempts'[a].head = attempts[a].head
         /\ attempts'[a].evidence = attempts[a].evidence /\ attempts'[a].of = attempts[a].of
         /\ attempts'[a].status \in {"CREATING", "RUNNING"} =>
              attempts[a].status \in {"CREATING", "RUNNING"}
         /\ Running(a)' => /\ state' \in {"REMEDIATING", "REMEDIATION_TERMINATION_PENDING"}
                           /\ Running(a) \/ NoneValid

\* Executions are kept, and none is added at head.
RunsAlike ==
    /\ \A i \in DOMAIN runs : i \in DOMAIN runs' /\ runs'[i] = runs[i]
    /\ \A i \in DOMAIN runs' : runs'[i].target = "HEAD" => i \in DOMAIN runs

\* The states in which nothing is under way.
Resting ==
    {"REMEDIATION_APPROVED", "REMEDIATION_HUMAN_BLOCKED", "REMEDIATION_FAILED",
     "REMEDIATION_TIMED_OUT", "REMEDIATION_CANCELLED", "REMEDIATION_TERMINATION_PENDING",
     "CI_FAILED"}

\* The case goes nowhere that was not prepared.
Goes ==
    /\ \/ state' = state
       \/ state' \in Resting
       \/ state' \in Undelivered /\ NoneValid /\ (state' \in PIPELINE_STATES => Newest > 0)
       \/ state' \in Behind /\ SomeVerified /\ Newest > 0
       \/ state' = "PROBE_VALIDATING_HEAD" /\ ~NoneValid /\ Open /\ Newest > 0
    /\ state' = "CI_PASSED" =>
         \/ state = "CI_PASSED" /\ \A a \in DOMAIN attempts : attempts'[a].checks = attempts[a].checks
         \/ \E a \in DOMAIN attempts : Verified(a) /\ Clean(a)'

\* A step is marked as the one that failed only when it was due.
Marks ==
    \A a \in DOMAIN attempts :
        /\ attempts'[a].stage \in {"probe_head", "ci"} =>
             \/ /\ attempts'[a].stage = attempts[a].stage
                /\ attempts'[a].infrastructure => attempts[a].infrastructure
             \/ attempts'[a].stage = "ci" /\ ~NoneValid /\ (attempts[a].head # 0 => Verified(a))
             \/ attempts'[a].stage = "probe_head" /\ ~NoneValid /\ ~attempts'[a].infrastructure
        /\ attempts'[a].stage = "probe_head" /\ attempts'[a].infrastructure =>
             state' # "PROBE_VALIDATING_HEAD"

LEMMA Moves ==
    ASSUME PipeInv, Typed', Alike, RunsAlike, decided => decided', Goes, Marks
    PROVE  Rows' /\ Grows /\ Newest' = Newest
<1>1. Typed /\ Sessions /\ Deliveries /\ Stages /\ Probes
  BY DEF PipeInv, Rows
<1>2. Newest' = Newest /\ DOMAIN attempts = 1..Newest /\ Newest \in Nat
  BY <1>1, NewestFacts DEF Typed, Newest, Alike
<1>3. Grows
  BY DEF Grows, Alike, RunsAlike, Valid
<1>4. (\A a \in DOMAIN attempts : Valid(a)' <=> Valid(a)) /\ (NoneValid' <=> NoneValid)
  BY DEF Alike, Valid, NoneValid
<1>5. Open => Open'
  BY DEF Open, RunsAlike
<1>6. Sessions'
  BY <1>1, <1>2, <1>4 DEF Sessions, Alike, Running, Goes, Resting, PIPELINE_STATES, Behind
<1>7. Deliveries'
  <2>1. state' \in Undelivered => NoneValid
    BY <1>1 DEF Deliveries, Goes, Resting, Undelivered, Behind
  <2>2. ASSUME NEW a \in DOMAIN attempts', Valid(a)'
        PROVE  /\ attempts'[a].of = attempts'[a].head /\ attempts'[a].head # 0
               /\ \A b \in DOMAIN attempts' : b > a => attempts'[b].head = 0
    BY <1>1, <1>4, <2>2 DEF Deliveries, Alike
  <2>3. state' = "PROBE_VALIDATING_HEAD" => ~NoneValid
    BY <1>1 DEF Deliveries, Goes, Resting, Undelivered, Behind
  <2>4. state' \in Behind => SomeVerified'
    BY <1>1, <1>3, Lasting DEF Deliveries, Goes, Resting, Undelivered, Behind
  <2>5. state' = "CI_PASSED" => \E a \in DOMAIN attempts' : Verified(a)' /\ Clean(a)'
    <3> SUFFICES ASSUME state' = "CI_PASSED"
                 PROVE  \E a \in DOMAIN attempts' : Verified(a)' /\ Clean(a)'
      OBVIOUS
    <3>1. \E a \in DOMAIN attempts : Verified(a) /\ Clean(a)'
      <4>1. ASSUME NEW a \in DOMAIN attempts, attempts'[a].checks = attempts[a].checks, Clean(a)
            PROVE  Clean(a)'
        BY <4>1 DEF Clean, Green
      <4> QED
        BY <1>1, <4>1 DEF Deliveries, Goes
    <3> QED
      BY <1>3, <3>1, Lasting DEF Alike
  <2> QED
    BY <1>4, <2>1, <2>2, <2>3, <2>4, <2>5 DEF Deliveries
<1>8. Stages'
  <2> SUFFICES ASSUME NEW a \in DOMAIN attempts'
               PROVE  /\ attempts'[a].stage \in {"probe_head", "ci"} => ~NoneValid
                      /\ attempts'[a].stage = "ci" /\ attempts'[a].head # 0 => Verified(a)'
                      /\ attempts'[a].stage = "probe_head" /\ attempts'[a].infrastructure =>
                           Valid(a) /\ Open' /\ state' # "PROBE_VALIDATING_HEAD"
    BY <1>4 DEF Stages, Alike
  <2>1. a \in DOMAIN attempts
    BY DEF Alike
  <2>2. attempts'[a].stage \in {"probe_head", "ci"} => ~NoneValid
    BY <1>1, <2>1 DEF Stages, Marks
  <2>3. attempts'[a].stage = "ci" /\ attempts[a].head # 0 => Verified(a)
    BY <1>1, <2>1 DEF Stages, Marks
  <2>4. attempts'[a].stage = "probe_head" /\ attempts'[a].infrastructure =>
          Valid(a) /\ Open
    BY <1>1, <2>1 DEF Stages, Marks
  <2> QED
    BY <1>3, <1>5, <2>1, <2>2, <2>3, <2>4, Lasting DEF Alike, Marks
<1>9. Probes'
  <2>1. ASSUME NEW a \in DOMAIN attempts'
        PROVE  IF attempts'[a].snap = 0 THEN decided' ELSE Reproduced(a)'
    BY <1>1, <1>3, Lasting DEF Probes, Alike
  <2>2. NoneValid => \A i \in DOMAIN runs' : runs'[i].target # "HEAD"
    BY <1>1 DEF Probes, RunsAlike
  <2>3. state' = "PROBE_VALIDATING_HEAD" => Open
    BY <1>1 DEF Probes, Goes, Resting, Undelivered, Behind
  <2>4. HeadVerdictStands'
    BY <1>1 DEF Probes, HeadVerdictStands, RunsAlike
  <2> QED
    BY <1>4, <1>5, <2>1, <2>2, <2>3, <2>4 DEF Probes
<1> QED
  BY <1>2, <1>3, <1>6, <1>7, <1>8, <1>9 DEF Rows

\* No attempt is added, and no execution changes its owner.
Fixed ==
    /\ DOMAIN attempts' = DOMAIN attempts
    /\ \A i \in DOMAIN runs : i \in DOMAIN runs' /\ runs'[i] = runs[i]

Kept == PipeInv' /\ Grows /\ Fixed

\* What most steps leave alone.
Aside == UNCHANGED <<ci_status, policy, registered, snapshots, decided, runs, pr>>

LEMMA TypedAside ==
    ASSUME Typed, Aside, NEW l \in Loops, Turns(l), state' \in REMEDIATION_PHASE_STATES,
           why' \in {"none", "missing_probe", "other"}, attempts' \in Seq(AttemptRows),
           Len(attempts') = Len(attempts)
    PROVE  Typed'
BY DEF Typed, Aside, Turns

\* The case may rest while no session runs, or waits for its end.
MayRest(s) ==
    s \in Resting /\ (SomeRunning => s = "REMEDIATION_TERMINATION_PENDING")

\* A step of a job that moves the case and nothing else.
LEMMA StateMoves ==
    ASSUME PipeInv, NEW l \in Loops, Turns(l), UNCHANGED <<attempts, runs>>, Typed',
           decided => decided',
           \/ state' = state
           \/ MayRest(state')
           \/ state' \in Undelivered /\ NoneValid /\ ~SomeRunning /\ state' \notin PIPELINE_STATES
           \/ state = "PR_DISCOVERED" /\ state' = "PR_VALIDATING"
    PROVE  Kept
<1>1. Typed /\ Sessions /\ Deliveries /\ Stages
  BY DEF PipeInv, Rows
<1>2. \A a \in DOMAIN attempts : (Running(a)' <=> Running(a)) /\ (Running(a) => SomeRunning)
  BY DEF Running, SomeRunning
<1>3. \A a \in DOMAIN attempts : Running(a) =>
        state' \in {"REMEDIATING", "REMEDIATION_TERMINATION_PENDING"}
  BY <1>1, <1>2 DEF Sessions, MayRest
<1>4. Alike /\ RunsAlike /\ Unnoticed(l)
  BY <1>2, <1>3 DEF Alike, RunsAlike, Unnoticed, Running
<1>5. Goes
  BY <1>1 DEF Goes, MayRest, Sessions, Deliveries, Undelivered, PIPELINE_STATES, Resting
<1>6. state' = "PROBE_VALIDATING_HEAD" => state = "PROBE_VALIDATING_HEAD"
  BY DEF MayRest, Resting, Undelivered
<1>7. Marks
  BY <1>1, <1>6 DEF Marks, Stages
<1>8. Rows' /\ Grows
  BY <1>4, <1>5, <1>7, Moves
<1>9. Desks'
  BY <1>4, <1>8, TurnsDesks
<1> QED
  BY <1>8, <1>9 DEF Kept, PipeInv, Fixed

\* fail_case() that marks no attempt.
LEMMA FailCase ==
    ASSUME PipeInv, NEW l \in Loops, fail_case(l, attempts), Aside
    PROVE  Kept
<1>1. Turns(l) /\ UNCHANGED <<attempts, runs>> /\ (decided => decided')
  BY EndJobTurns DEF fail_case, PipeInv, Aside
<1>2. state' = state \/ MayRest(state')
  BY DEF fail_case, failed_state, MayRest, Resting, Active, SomeRunning, Running
<1>3. state' \in REMEDIATION_PHASE_STATES /\ why' \in {"none", "missing_probe", "other"}
  BY <1>2 DEF fail_case, PipeInv, Typed, MayRest, Resting, REMEDIATION_PHASE_STATES
<1>4. Typed'
  BY <1>1, <1>3, TypedAside DEF PipeInv, Typed
<1> QED
  BY <1>1, <1>2, <1>4, StateMoves

\* A step of the claim's holder that marks an attempt and lets the case rest.
LEMMA Marked ==
    ASSUME PipeInv, NEW l \in Loops, Turns(l), claim.by = l, Aside, NEW a \in DOMAIN attempts,
           NEW stage \in {"none", "session", "output", "pr", "probe_head", "ci"},
           NEW infra \in BOOLEAN, attempts' = Failed(a, stage, infra),
           MayRest(state'), why' \in {"none", "missing_probe", "other"},
           stage = "ci" => ~NoneValid /\ (attempts[a].head # 0 => Verified(a)),
           stage = "probe_head" => ~NoneValid /\ ~infra
    PROVE  Kept
<1>1. Typed /\ Sessions /\ Stages /\ attempts[a] \in AttemptRows
  BY NewestFacts DEF PipeInv, Rows
<1> DEFINE r == [attempts[a] EXCEPT !.stage = stage, !.infrastructure = infra]
<1>2. /\ r \in AttemptRows /\ attempts' = [attempts EXCEPT ![a] = r]
      /\ r.snap = attempts[a].snap /\ r.head = attempts[a].head /\ r.status = attempts[a].status
      /\ r.evidence = attempts[a].evidence /\ r.of = attempts[a].of
      /\ r.stage = stage /\ r.infrastructure = infra
  BY <1>1 DEF AttemptRows, Failed
<1> HIDE DEF r
<1>3. /\ attempts' \in Seq(AttemptRows) /\ Newest' = Newest /\ Len(attempts') = Len(attempts)
      /\ DOMAIN attempts' = DOMAIN attempts /\ attempts'[a] = r
      /\ \A b \in DOMAIN attempts : b # a => attempts'[b] = attempts[b]
  BY <1>1, <1>2, Written
<1>4. state' \in REMEDIATION_PHASE_STATES
  BY DEF MayRest, Resting, REMEDIATION_PHASE_STATES
<1>5. Typed'
  BY <1>1, <1>3, <1>4, TypedAside
<1>6. \A b \in DOMAIN attempts : attempts[b].status = "RUNNING" => SomeRunning
  BY DEF SomeRunning, Running
<1>7. Alike
  <2>1. \A b \in DOMAIN attempts : attempts'[b].status = attempts[b].status
    BY <1>2, <1>3
  <2>2. \A b \in DOMAIN attempts : Running(b)' =>
          state' \in {"REMEDIATING", "REMEDIATION_TERMINATION_PENDING"} /\ Running(b)
    BY <1>6, <2>1 DEF Running, MayRest
  <2> QED
    BY <1>2, <1>3, <2>1, <2>2 DEF Alike
<1>8. RunsAlike /\ Unnoticed(l) /\ (decided => decided')
  BY DEF RunsAlike, Unnoticed, Aside
<1>9. Goes
  BY DEF Goes, MayRest, Resting
<1>10. state' # "PROBE_VALIDATING_HEAD"
  BY DEF MayRest, Resting
<1>11. Marks
  BY <1>2, <1>3, <1>10 DEF Marks
<1>12. Rows' /\ Grows
  BY <1>5, <1>7, <1>8, <1>9, <1>11, Moves
<1>13. Desks'
  BY <1>5, <1>8, <1>12, TurnsDesks
<1> QED
  BY <1>3, <1>5, <1>12, <1>13 DEF Kept, PipeInv, Fixed, Aside

\* fail_case() that marks an attempt.
LEMMA FailedAt ==
    ASSUME PipeInv, NEW l \in Loops, claim.by = l, Aside, NEW a \in DOMAIN attempts,
           NEW stage \in {"none", "session", "output", "pr", "probe_head", "ci"},
           NEW infra \in BOOLEAN, FailAt(l, a, stage, infra),
           stage = "ci" => ~NoneValid /\ (attempts[a].head # 0 => Verified(a)),
           stage = "probe_head" => ~NoneValid /\ ~infra
    PROVE  Kept
<1>1. CASE ~Failable
  <2>1. fail_case(l, attempts)
    BY <1>1 DEF FailAt, fail_case
  <2> QED
    BY <2>1, FailCase
<1>2. CASE Failable
  <2>1. EndJob(l) /\ state' = failed_state /\ why' = "other" /\ attempts' = Failed(a, stage, infra)
    BY <1>2 DEF FailAt, fail_case
  <2>2. Turns(l) /\ MayRest(state')
    BY <2>1, EndJobTurns DEF PipeInv, failed_state, MayRest, Resting, Active, SomeRunning, Running
  <2>3. why' \in {"none", "missing_probe", "other"}
    BY <2>1
  <2> QED
    BY <2>1, <2>2, <2>3, Marked
<1> QED
  BY <1>1, <1>2

LEMMA BlockedAt ==
    ASSUME PipeInv, NEW l \in Loops, claim.by = l, Aside, NEW a \in DOMAIN attempts, ~SomeRunning,
           NEW stage \in {"output", "pr"}, BlockAt(l, a, stage)
    PROVE  Kept
<1>1. Turns(l) /\ state' = "REMEDIATION_HUMAN_BLOCKED" /\ why' = "other"
      /\ attempts' = Failed(a, stage, FALSE)
  BY MoveToTurns DEF BlockAt, Block, PipeInv, REMEDIATION_PHASE_STATES
<1>2. MayRest(state')
  BY <1>1 DEF MayRest, Resting
<1> QED
  BY <1>1, <1>2, Marked

\* A job that loads something and changes nothing else.
LEMMA Loads ==
    ASSUME PipeInv, NEW l \in Loops, NEW j \in Jobs, job' = [job EXCEPT ![l] = j],
           UNCHANGED <<state, why, claim, attempts>>, Aside, Desk(l)'
    PROVE  Kept
<1>1. Typed'
  BY DEF PipeInv, Typed, Aside
<1>2. Typed /\ Sessions /\ Stages
  BY DEF PipeInv, Rows
<1>3. Alike /\ RunsAlike /\ Unnoticed(l) /\ (decided => decided')
  BY <1>2 DEF Alike, RunsAlike, Unnoticed, Aside, Sessions, Running
<1>4. Goes /\ Marks
  BY <1>2 DEF Goes, Marks, Stages
<1>5. Rows' /\ Grows
  BY <1>1, <1>3, <1>4, Moves
<1>6. Desks'
  BY <1>1, <1>3, <1>5, DesksKept DEF PipeInv, Typed
<1> QED
  BY <1>1, <1>3, <1>5, <1>6 DEF Kept, PipeInv, Fixed, RunsAlike, Alike
-----------------------------------------------------------------------------
(***************************************************************************)
(* Claims, jobs that end, and dispatch.                                     *)
(***************************************************************************)
LEMMA ClaimStep ==
    ASSUME PipeInv, NEW l \in Loops, Claim(l)
    PROVE  Kept
<1>1. UNCHANGED <<state, why, attempts, runs, decided>> /\ Aside
  BY DEF Claim, Aside, config, rows
<1> DEFINE j == [Idle EXCEPT !.pc = "run", !.state = state]
<1>2. j \in Jobs /\ j.pc = "run" /\ j.attempt = 0 /\ j.run = 0
  BY IdleType DEF PipeInv, Typed
<1>3. job' = [job EXCEPT ![l] = j] /\ claim' = [by |-> l, lapsed |-> FALSE]
  BY DEF Claim
<1> HIDE DEF j
<1>4. Turns(l)
  BY <1>2, <1>3 DEF Turns, PipeInv, Typed, Claims
<1>5. Typed'
  BY <1>1, <1>4, TypedAside DEF PipeInv, Typed
<1> QED
  BY <1>1, <1>4, <1>5, StateMoves

LEMMA AbandonStep ==
    ASSUME PipeInv, NEW l \in Loops, Abandon(l) \/ Transient(l)
    PROVE  Kept
<1>1. EndJob(l) /\ UNCHANGED <<state, why, attempts, runs, decided>> /\ Aside
  BY DEF Abandon, Transient, Aside, config, rows
<1>2. Turns(l)
  BY <1>1, EndJobTurns DEF PipeInv
<1>3. Typed'
  BY <1>1, <1>2, TypedAside DEF PipeInv, Typed
<1> QED
  BY <1>1, <1>2, <1>3, StateMoves

LEMMA JobRaisesStep ==
    ASSUME PipeInv, NEW l \in Loops, JobRaises(l)
    PROVE  Kept
BY FailCase DEF JobRaises, Aside, config, rows

LEMMA CrashStep ==
    ASSUME PipeInv, NEW l \in Loops, Crash(l)
    PROVE  Kept
<1>1. /\ job' = [job EXCEPT ![l] = Idle] /\ Aside
      /\ UNCHANGED <<state, why, claim, attempts, runs, decided>>
  BY DEF Crash, Aside, config, rows
<1>2. Turns(l)
  BY <1>1, IdleType DEF Turns, PipeInv, Typed
<1>3. Typed'
  BY <1>1, <1>2, TypedAside DEF PipeInv, Typed
<1> QED
  BY <1>1, <1>2, <1>3, StateMoves

\* A step outside the jobs that moves the case and perhaps the claim.
LEMMA Outside ==
    ASSUME PipeInv, Typed', UNCHANGED <<attempts, runs, job, decided>>, claim'.by = claim.by,
           \/ state' = state
           \/ MayRest(state')
           \/ state' \in Undelivered /\ NoneValid /\ ~SomeRunning /\ state' \notin PIPELINE_STATES
    PROVE  Kept
<1>1. Typed /\ Sessions /\ Deliveries /\ Stages
  BY DEF PipeInv, Rows
<1>2. \A a \in DOMAIN attempts : (Running(a)' <=> Running(a)) /\ (Running(a) => SomeRunning)
  BY DEF Running, SomeRunning
<1>3. \A a \in DOMAIN attempts : Running(a) =>
        state' \in {"REMEDIATING", "REMEDIATION_TERMINATION_PENDING"}
  BY <1>1, <1>2 DEF Sessions, MayRest
<1>4. Alike /\ RunsAlike
  BY <1>2, <1>3 DEF Alike, RunsAlike
<1>5. Goes
  BY <1>1 DEF Goes, MayRest, Sessions, Deliveries, Undelivered, PIPELINE_STATES, Resting
<1>6. state' = "PROBE_VALIDATING_HEAD" => state = "PROBE_VALIDATING_HEAD"
  BY DEF MayRest, Resting, Undelivered
<1>7. Marks
  BY <1>1, <1>6 DEF Marks, Stages
<1>8. Rows' /\ Grows
  BY <1>4, <1>5, <1>7, Moves
<1>9. Desks'
  BY <1>8, OutsideDesks
<1> QED
  BY <1>8, <1>9 DEF Kept, PipeInv, Fixed

LEMMA LeaseLapsesStep ==
    ASSUME PipeInv, LeaseLapses
    PROVE  Kept
<1>1. /\ claim' \in Claims /\ claim'.by = claim.by /\ Aside
      /\ UNCHANGED <<state, why, attempts, runs, job, decided>>
  BY DEF LeaseLapses, PipeInv, Typed, Claims, Aside, config, rows
<1>2. Typed'
  BY <1>1 DEF PipeInv, Typed, Aside
<1> QED
  BY <1>1, <1>2, Outside

LEMMA NoneRunning ==
    ASSUME PipeInv, state \notin {"REMEDIATING", "REMEDIATION_TERMINATION_PENDING"}
    PROVE  ~SomeRunning
BY DEF PipeInv, Rows, Sessions, SomeRunning

LEMMA ResumeStep ==
    ASSUME PipeInv, NEW l \in Loops, Resume(l)
    PROVE  Kept
<1>1. /\ Turns(l) /\ state' = "REMEDIATION_APPROVED" /\ why' = "none" /\ Aside
      /\ UNCHANGED <<attempts, runs, decided>>
  BY MoveToTurns DEF Resume, Aside, config, rows, PipeInv, REMEDIATION_PHASE_STATES
<1>2. MayRest(state')
  BY <1>1, NoneRunning DEF Resume, At, MayRest, Resting
<1>3. Typed'
  BY <1>1, TypedAside DEF PipeInv, Typed, REMEDIATION_PHASE_STATES
<1> QED
  BY <1>1, <1>2, <1>3, StateMoves

LEMMA DispatchRefusedStep ==
    ASSUME PipeInv, NEW l \in Loops, DispatchRefused(l)
    PROVE  Kept
<1>1. Aside
  BY DEF DispatchRefused, Aside, config, rows
<1>2. CASE fail_case(l, attempts)
  BY <1>1, <1>2, FailCase
<1>3. CASE Block(l, "other") /\ UNCHANGED attempts
  <2>1. /\ Turns(l) /\ state' = "REMEDIATION_HUMAN_BLOCKED" /\ why' = "other"
        /\ UNCHANGED <<attempts, runs, decided>>
    BY <1>1, <1>3, MoveToTurns DEF Block, Aside, PipeInv, REMEDIATION_PHASE_STATES
  <2>2. MayRest(state')
    BY <2>1, NoneRunning DEF DispatchRefused, At, MayRest, Resting
  <2>3. Typed'
    BY <1>1, <2>1, TypedAside DEF PipeInv, Typed, REMEDIATION_PHASE_STATES
  <2> QED
    BY <2>1, <2>2, <2>3, StateMoves
<1> QED
  BY <1>2, <1>3 DEF DispatchRefused

LEMMA DispatchStep ==
    ASSUME PipeInv, NEW l \in Loops, Dispatch(l)
    PROVE  Kept
<1>1. ~SomeRunning
  BY NoneRunning DEF Dispatch, At
<1>2. PICK s \in {"REMEDIATION_HUMAN_BLOCKED", "PROBE_VALIDATING_BASE",
                  "REMEDIATION_CREATE_INTENT"} :
        MoveTo(l, s) /\ (s # "REMEDIATION_HUMAN_BLOCKED" => NoneValid)
  BY DEF Dispatch, Block, Dispatchable, Valid, NoneValid
<1>3. why' \in {"none", "missing_probe", "other"}
  BY DEF Dispatch, Block, PipeInv, Typed
<1>4. snapshots' \in 0..MaxSnapshots
  BY ConstantsAssumption DEF Dispatch, PipeInv, Typed
<1>5. decided' \in BOOLEAN /\ (decided => decided')
  <2>1. decided' = decided \/ decided' = TRUE
    BY DEF Dispatch
  <2> QED
    BY <2>1 DEF PipeInv, Typed
<1>6. Turns(l) /\ state' = s
  BY <1>2, MoveToTurns DEF PipeInv, REMEDIATION_PHASE_STATES
<1>7. Typed'
  BY <1>2, <1>3, <1>4, <1>5, <1>6
  DEF Dispatch, PipeInv, Typed, Turns, config, REMEDIATION_PHASE_STATES
<1>8. MayRest(state') \/ (state' \in Undelivered /\ NoneValid /\ state' \notin PIPELINE_STATES)
  BY <1>1, <1>2, <1>6 DEF MayRest, Resting, Undelivered, PIPELINE_STATES
<1>9. UNCHANGED <<attempts, runs>>
  BY DEF Dispatch
<1> QED
  BY <1>1, <1>5, <1>6, <1>7, <1>8, <1>9, StateMoves
-----------------------------------------------------------------------------
(***************************************************************************)
(* The probe at base.                                                       *)
(***************************************************************************)
LEMMA BeginBaseStep ==
    ASSUME PipeInv, NEW l \in Loops, BeginBase(l)
    PROVE  Kept
<1>1. Desk(l) /\ job[l] \in Jobs /\ snapshots \in 0..MaxSnapshots /\ job[l].state = "PROBE_VALIDATING_BASE"
  BY DEF PipeInv, Typed, Desks, BeginBase, At, Fresh
<1>2. PICK v \in Verdicts :
        job' = [job EXCEPT ![l] = [[job[l] EXCEPT !.snap = snapshots] EXCEPT !.pc = "base", !.verdict = v]]
  BY DEF BeginBase, Ask
<1> DEFINE j == [[job[l] EXCEPT !.snap = snapshots] EXCEPT !.pc = "base", !.verdict = v]
<1>3. /\ j \in Jobs /\ j.pc = "base" /\ j.state = "PROBE_VALIDATING_BASE"
      /\ j.attempt = job[l].attempt /\ j.run = job[l].run
  BY <1>1 DEF Jobs, PCs
<1>4. job' = [job EXCEPT ![l] = j]
  BY <1>2
<1> HIDE DEF j
<1>5. UNCHANGED <<state, why, claim, attempts>> /\ Aside
  BY DEF BeginBase, Aside, config, rows
<1>6. job'[l] = j /\ Newest' = Newest /\ UNCHANGED runs
  BY <1>4, <1>5 DEF PipeInv, Typed, Newest, Aside
<1>7. Desk(l)'
  BY <1>1, <1>3, <1>6 DEF Desk
<1> QED
  BY <1>3, <1>4, <1>5, <1>7, Loads

LEMMA RecordBaseStep ==
    ASSUME PipeInv, NEW l \in Loops, RecordBase(l)
    PROVE  Kept
<1>1. Desk(l) /\ job[l] \in Jobs /\ job[l].pc = "base" /\ Typed
  BY DEF PipeInv, Typed, Desks, RecordBase
<1> DEFINE row == [snap |-> job[l].snap, target |-> "BASE", head |-> 0,
                   verdict |-> job[l].verdict, attempt |-> 0]
           j == [job[l] EXCEPT !.pc = "based"]
<1>2. row \in Runs /\ row.target = "BASE"
  BY <1>1 DEF Runs, Jobs
<1>3. runs' = Append(runs, row)
  BY DEF RecordBase
<1> HIDE DEF row
<1>4. /\ runs' \in Seq(Runs) /\ Len(runs') = Len(runs) + 1 /\ runs'[Len(runs) + 1] = row
      /\ \A i \in DOMAIN runs : i \in DOMAIN runs' /\ runs'[i] = runs[i]
      /\ \A i \in DOMAIN runs' : i \in DOMAIN runs \/ i = Len(runs) + 1
  BY <1>1, <1>2, <1>3, AppendProperties, RunFacts DEF Typed
<1>5. /\ UNCHANGED <<state, why, ci_status, claim, attempts, pr, snapshots, decided>>
      /\ UNCHANGED <<policy, registered>> /\ job' = [job EXCEPT ![l] = j]
  BY DEF RecordBase, config
<1>6. /\ j \in Jobs /\ j.pc = "based" /\ j.state = job[l].state
      /\ j.attempt = job[l].attempt /\ j.run = job[l].run
  BY <1>1 DEF Jobs, PCs
<1> HIDE DEF j
<1>7. Typed'
  BY <1>4, <1>5, <1>6 DEF PipeInv, Typed
<1>8. Sessions /\ Stages
  BY DEF PipeInv, Rows
<1>9. Alike /\ Unnoticed(l)
  BY <1>5, <1>8 DEF Alike, Unnoticed, Sessions, Running
<1>10. RunsAlike
  BY <1>2, <1>4 DEF RunsAlike
<1>11. Goes /\ Marks
  BY <1>5, <1>8 DEF Goes, Marks, Stages
<1>12. Rows' /\ Grows
  BY <1>5, <1>7, <1>9, <1>10, <1>11, Moves
<1>13. Desk(l)'
  <2>1. job'[l] = j /\ Newest' = Newest
    BY <1>5 DEF PipeInv, Typed, Newest
  <2>2. job[l].run \in 0..Len(runs')
    BY <1>1, <1>4, RunFacts DEF Desk
  <2> QED
    BY <1>1, <1>6, <2>1, <2>2 DEF Desk
<1>14. Desks'
  BY <1>5, <1>7, <1>9, <1>12, <1>13, DesksKept DEF PipeInv, Typed
<1> QED
  BY <1>5, <1>7, <1>10, <1>12, <1>14 DEF Kept, PipeInv, Fixed, RunsAlike

LEMMA EndBaseStep ==
    ASSUME PipeInv, NEW l \in Loops, EndBase(l)
    PROVE  Kept
<1>1. /\ Desk(l) /\ job[l].pc = "based" /\ job[l].state = "PROBE_VALIDATING_BASE" /\ Aside
      /\ Typed
  BY DEF PipeInv, Desks, Desk, EndBase, Aside, config, rows
<1>2. CASE fail_case(l, attempts)
  BY <1>1, <1>2, FailCase
<1>3. CASE ~Fresh(l)
  <2>1. EndJob(l) /\ UNCHANGED <<state, why, attempts>>
    BY <1>3 DEF EndBase
  <2>2. Turns(l) /\ Typed'
    BY <1>1, <2>1, EndJobTurns, TypedAside DEF Typed
  <2> QED
    BY <1>1, <2>1, <2>2, StateMoves DEF Aside
<1>4. CASE Fresh(l) /\ ~fail_case(l, attempts)
  <2>1. state = "PROBE_VALIDATING_BASE" /\ ~SomeRunning /\ NoneValid
    BY <1>1, <1>4, NoneRunning DEF Fresh, PipeInv, Rows, Deliveries, Undelivered
  <2>2. PICK s \in {"REMEDIATION_CREATE_INTENT", "PROBE_INFRASTRUCTURE_BLOCKED",
                    "REMEDIATION_HUMAN_BLOCKED"} :
          MoveTo(l, s) /\ why' \in {why, "other"} /\ UNCHANGED attempts
    BY <1>4 DEF EndBase, Block
  <2>3. Turns(l) /\ state' = s
    BY <1>1, <2>2, MoveToTurns DEF REMEDIATION_PHASE_STATES
  <2>4. Typed'
    BY <1>1, <2>2, <2>3, TypedAside DEF Typed, REMEDIATION_PHASE_STATES
  <2>5. MayRest(state') \/ (state' \in Undelivered /\ state' \notin PIPELINE_STATES)
    BY <2>1, <2>2, <2>3 DEF MayRest, Resting, Undelivered, PIPELINE_STATES
  <2> QED
    BY <1>1, <2>1, <2>2, <2>3, <2>4, <2>5, StateMoves DEF Aside
<1> QED
  BY <1>2, <1>3, <1>4
-----------------------------------------------------------------------------
(***************************************************************************)
(* The session.                                                             *)
(***************************************************************************)
\* The newest of the runs that authorise spending.
LEMMA NewestRun ==
    ASSUME Typed, Authorising # {}
    PROVE  \E i \in Authorising :
             i = CHOOSE k \in Authorising : \A j \in Authorising : j <= k
<1>1. Authorising \subseteq 0..Len(runs) /\ Len(runs) \in Nat
  BY RunFacts DEF Authorising
<1> HIDE DEF Authorising
<1>2. PICK x \in Authorising : \A y \in Authorising : x >= y
  BY <1>1, Greatest
<1>3. \A y \in Authorising : y <= x
  BY <1>1, <1>2
<1> QED
  BY <1>3

LEMMA LoadContextStep ==
    ASSUME PipeInv, NEW l \in Loops, LoadContext(l)
    PROVE  Kept
<1>1. /\ Desk(l) /\ job[l] \in Jobs /\ Typed /\ HasContext
      /\ job[l].state \in {"REMEDIATION_CREATE_INTENT", "REMEDIATING"}
  BY DEF PipeInv, Typed, Desks, LoadContext, Starts
<1>2. UNCHANGED <<state, why, claim, attempts>> /\ Aside
  BY DEF LoadContext, Aside, config, rows
<1>3. PICK i \in 0..Len(runs) :
        /\ job' = [job EXCEPT ![l].pc = "start", ![l].run = i]
        /\ IF i = 0 THEN decided
           ELSE runs[i].target = "BASE" /\ runs[i].verdict = "MATCHED" /\ runs[i].snap # 0
  <2>1. CASE snapshots = 0
    <3>1. job' = [job EXCEPT ![l].pc = "start", ![l].run = 0]
      BY <2>1 DEF LoadContext
    <3>2. decided
      BY <1>1, <2>1 DEF HasContext
    <3>3. 0 \in 0..Len(runs)
      BY <1>1, RunFacts
    <3> QED
      BY <3>1, <3>2, <3>3
  <2>2. CASE snapshots # 0
    <3>1. snapshots > 0 /\ Authorising # {}
      BY <1>1, <2>2, ConstantsAssumption DEF HasContext, Typed
    <3>2. PICK i \in Authorising : i = CHOOSE k \in Authorising : \A j \in Authorising : j <= k
      BY <1>1, <3>1, NewestRun
    <3>3. job' = [job EXCEPT ![l].pc = "start", ![l].run = i]
      BY <2>2, <3>2 DEF LoadContext
    <3>4. i \in 0..Len(runs) /\ i # 0 /\ runs[i].target = "BASE" /\ runs[i].verdict = "MATCHED"
          /\ runs[i].snap # 0
      BY <1>1, <2>2, RunFacts DEF Authorising
    <3> QED
      BY <3>3, <3>4
  <2> QED
    BY <2>1, <2>2
<1> DEFINE j == [job[l] EXCEPT !.pc = "start", !.run = i]
<1>4. /\ j \in Jobs /\ j.pc = "start" /\ j.state = job[l].state
      /\ j.attempt = job[l].attempt /\ j.run = i
  <2>1. i \in Nat
    BY <1>1, RunFacts
  <2> QED
    BY <1>1, <2>1 DEF Jobs, PCs
<1>5. job' = [job EXCEPT ![l] = j]
  BY <1>3
<1> HIDE DEF j
<1>6. job'[l] = j /\ Newest' = Newest /\ UNCHANGED <<runs, decided>>
  BY <1>1, <1>2, <1>5 DEF Typed, Newest, Aside
<1>7. Desk(l)'
  BY <1>1, <1>3, <1>4, <1>6 DEF Desk
<1> QED
  BY <1>2, <1>4, <1>5, <1>7, Loads

LEMMA NoContextStep ==
    ASSUME PipeInv, NEW l \in Loops, NoContext(l)
    PROVE  Kept
BY FailCase DEF NoContext, Aside, config, rows

\* Blocked attempts are withdrawn; whoever does it, nothing else about them changes.
LEMMA Withdraws ==
    ASSUME PipeInv, NEW done \in SUBSET Blocked, attempts' = Withdrawn(done)
    PROVE  /\ attempts' \in Seq(AttemptRows) /\ Len(attempts') = Len(attempts)
           /\ DOMAIN attempts' = DOMAIN attempts
           /\ \A a \in DOMAIN attempts :
                /\ attempts'[a].status \in {attempts[a].status, "CANCELLED"}
                /\ attempts[a].status \in {"CREATING", "RUNNING"} =>
                     attempts'[a].status = attempts[a].status
                /\ attempts'[a].snap = attempts[a].snap /\ attempts'[a].head = attempts[a].head
                /\ attempts'[a].evidence = attempts[a].evidence
                /\ attempts'[a].of = attempts[a].of /\ attempts'[a].stage = attempts[a].stage
                /\ attempts'[a].infrastructure = attempts[a].infrastructure
                /\ attempts'[a].checks = attempts[a].checks
<1>1. /\ Typed /\ Newest \in Nat /\ DOMAIN attempts = 1..Newest
      /\ \A a \in DOMAIN attempts : attempts[a] \in AttemptRows
  BY NewestFacts DEF PipeInv
<1>2. ASSUME NEW a \in DOMAIN attempts
      PROVE  /\ attempts'[a] \in AttemptRows
             /\ attempts'[a].status \in {attempts[a].status, "CANCELLED"}
             /\ attempts[a].status \in {"CREATING", "RUNNING"} =>
                  attempts'[a].status = attempts[a].status
             /\ attempts'[a].snap = attempts[a].snap /\ attempts'[a].head = attempts[a].head
             /\ attempts'[a].evidence = attempts[a].evidence
             /\ attempts'[a].of = attempts[a].of /\ attempts'[a].stage = attempts[a].stage
             /\ attempts'[a].infrastructure = attempts[a].infrastructure
             /\ attempts'[a].checks = attempts[a].checks
  <2>1. attempts[a] \in AttemptRows /\ (a \in done => attempts[a].status = "BLOCKED")
    BY <1>1 DEF Blocked
  <2> QED
    BY <2>1 DEF Withdrawn, AttemptRows
<1>3. attempts' \in [1..Newest -> AttemptRows] /\ DOMAIN attempts' = DOMAIN attempts
  BY <1>1, <1>2 DEF Withdrawn
<1>4. attempts' \in Seq(AttemptRows)
  BY <1>1, <1>3, SeqDef
<1>5. Len(attempts') = Len(attempts)
  BY <1>1, <1>3, <1>4, LenProperties DEF Newest
<1> QED
  BY <1>2, <1>3, <1>4, <1>5

\* A step that withdraws blocked attempts and lets the case rest or stay.
LEMMA WithdrawnRests ==
    ASSUME PipeInv, NEW done \in SUBSET Blocked, attempts' = Withdrawn(done), Aside, Typed',
           state' = state \/ MayRest(state')
    PROVE  /\ Rows' /\ Grows /\ Fixed
           /\ \A l \in Loops : Unnoticed(l)
<1>1. Typed /\ Sessions /\ Stages
  BY DEF PipeInv, Rows
<1>2. \A a \in DOMAIN attempts : (Running(a)' <=> Running(a)) /\ (Running(a) => SomeRunning)
  BY Withdraws DEF Running, SomeRunning
<1>3. \A a \in DOMAIN attempts : Running(a) =>
        state' \in {"REMEDIATING", "REMEDIATION_TERMINATION_PENDING"}
  BY <1>1, <1>2 DEF Sessions, MayRest
<1>4. Alike /\ RunsAlike /\ (decided => decided')
  BY <1>2, <1>3, Withdraws DEF Alike, RunsAlike, Aside
<1>5. ASSUME NEW l \in Loops PROVE Unnoticed(l)
  BY <1>2, Withdraws DEF Unnoticed, Running
<1>6. Goes
  BY Withdraws DEF Goes, MayRest, Resting
<1>7. state' = "PROBE_VALIDATING_HEAD" => state = "PROBE_VALIDATING_HEAD"
  BY DEF MayRest, Resting
<1>8. Marks
  BY <1>1, <1>7, Withdraws DEF Marks, Stages
<1>9. Rows' /\ Grows
  BY <1>4, <1>6, <1>8, Moves
<1> QED
  BY <1>4, <1>5, <1>9 DEF Fixed, Alike, RunsAlike

LEMMA SettlePreviousStep ==
    ASSUME PipeInv, NEW l \in Loops, SettlePrevious(l)
    PROVE  Kept
<1>1. /\ Aside /\ Typed /\ attempts' = Withdrawn(Blocked) /\ Blocked \in SUBSET Blocked
      /\ UNCHANGED <<state, why, claim, job>> /\ job[l].pc = "start"
  BY DEF SettlePrevious, Aside, config, rows, PipeInv
<1>2. Typed'
  BY <1>1, Withdraws DEF Typed, Aside
<1>3. Rows' /\ Grows /\ Fixed /\ Unnoticed(l)
  BY <1>1, <1>2, WithdrawnRests
<1>4. Desk(l)'
  <2>1. Desk(l) /\ Newest' = Newest /\ UNCHANGED <<runs, decided>>
    BY <1>1, Withdraws DEF PipeInv, Desks, Newest, Aside
  <2> QED
    BY <1>1, <2>1 DEF Desk
<1>5. Desks'
  BY <1>1, <1>2, <1>3, <1>4, DesksKept DEF Typed
<1> QED
  BY <1>2, <1>3, <1>5 DEF Kept, PipeInv

\* A job that gives up and leaves everything as it is.
LEMMA GivesUp ==
    ASSUME PipeInv, NEW l \in Loops, Aside, UNCHANGED <<state, why, attempts>>,
           EndJob(l) \/ (job' = [job EXCEPT ![l] = Idle] /\ UNCHANGED claim)
    PROVE  Kept
<1>1. Typed /\ Turns(l)
  BY EndJobTurns, IdleType DEF Turns, Typed, PipeInv
<1>2. Typed'
  BY <1>1, TypedAside DEF Typed
<1> QED
  BY <1>1, <1>2, StateMoves DEF Aside

LEMMA SettleRefusedStep ==
    ASSUME PipeInv, NEW l \in Loops, SettleRefused(l)
    PROVE  Kept
<1>1. Aside /\ Typed
  BY DEF SettleRefused, Aside, config, rows, PipeInv
<1>2. PICK done \in SUBSET Blocked :
        IF Fresh(l) THEN fail_case(l, Withdrawn(done))
        ELSE EndJob(l) /\ UNCHANGED <<state, why, attempts>>
  BY DEF SettleRefused
<1>3. CASE EndJob(l) /\ UNCHANGED <<state, why, attempts>>
  BY <1>1, <1>3, GivesUp
<1>4. CASE Fresh(l) /\ Failable
  <2>1. EndJob(l) /\ state' = failed_state /\ why' = "other" /\ attempts' = Withdrawn(done)
    BY <1>2, <1>4 DEF fail_case
  <2>2. Turns(l) /\ MayRest(state')
    BY <1>1, <2>1, EndJobTurns DEF failed_state, MayRest, Resting, Active, SomeRunning, Running
  <2>3. state' \in REMEDIATION_PHASE_STATES /\ why' \in {"none", "missing_probe", "other"}
    BY <2>1 DEF failed_state, REMEDIATION_PHASE_STATES
  <2>4. Typed'
    BY <1>1, <2>1, <2>2, <2>3, Withdraws, TypedAside
  <2>5. Rows' /\ Grows /\ Fixed /\ Unnoticed(l)
    BY <1>1, <2>1, <2>2, <2>4, WithdrawnRests
  <2>6. Desks'
    BY <2>2, <2>4, <2>5, TurnsDesks
  <2> QED
    BY <2>4, <2>5, <2>6 DEF Kept, PipeInv
<1> QED
  BY <1>2, <1>3, <1>4 DEF fail_case

LEMMA InsertRefusedStep ==
    ASSUME PipeInv, NEW l \in Loops, InsertRefused(l)
    PROVE  Kept
<1>1. Aside
  BY DEF InsertRefused, Aside, config, rows
<1> QED
  BY <1>1, FailCase, GivesUp DEF InsertRefused

\* The row of a new attempt.
LEMMA Inserted ==
    ASSUME Typed, NEW s \in 0..MaxSnapshots, attempts' = Append(attempts, NewAttempt(s))
    PROVE  /\ attempts' \in Seq(AttemptRows) /\ Newest' = Newest + 1 /\ Newest \in Nat
           /\ DOMAIN attempts = 1..Newest /\ DOMAIN attempts' = 1..(Newest + 1)
           /\ \A a \in DOMAIN attempts : attempts'[a] = attempts[a]
           /\ attempts'[Newest + 1].snap = s /\ attempts'[Newest + 1].status = "CREATING"
           /\ attempts'[Newest + 1].evidence = "none" /\ attempts'[Newest + 1].stage = "none"
           /\ attempts'[Newest + 1].head = 0
<1>1. NewAttempt(s) \in AttemptRows
  BY ConstantsAssumption DEF NewAttempt, AttemptRows, NoObservation, Observations, Heads
<1>2. attempts \in Seq(AttemptRows) /\ Newest \in Nat /\ DOMAIN attempts = 1..Newest
  BY NewestFacts DEF Typed
<1>3. /\ attempts' \in Seq(AttemptRows) /\ Len(attempts') = Len(attempts) + 1
      /\ \A i \in 1..Len(attempts) : attempts'[i] = attempts[i]
      /\ attempts'[Len(attempts) + 1] = NewAttempt(s)
  BY <1>1, <1>2, AppendProperties
<1>4. DOMAIN attempts' = 1..(Newest + 1)
  BY <1>3, LenProperties DEF Newest
<1>5. /\ NewAttempt(s).snap = s /\ NewAttempt(s).status = "CREATING"
      /\ NewAttempt(s).evidence = "none" /\ NewAttempt(s).stage = "none"
      /\ NewAttempt(s).head = 0
  BY DEF NewAttempt
<1> HIDE DEF NewAttempt
<1> QED
  BY <1>2, <1>3, <1>4, <1>5 DEF Newest

\* The BASE run that is linked to it, taken from another attempt or not.
LEMMA Relinked ==
    ASSUME PipeInv, NEW l \in Loops, Insert(l)
    PROVE  /\ runs' \in Seq(Runs) /\ DOMAIN runs' = DOMAIN runs /\ Len(runs') = Len(runs)
           /\ \A i \in DOMAIN runs :
                /\ runs'[i].snap = runs[i].snap /\ runs'[i].head = runs[i].head
                /\ runs'[i].target = runs[i].target /\ runs'[i].verdict = runs[i].verdict
                /\ runs[i].target = "HEAD" => runs'[i].attempt = runs[i].attempt
                /\ i # job[l].run => runs'[i] = runs[i]
                /\ i = job[l].run => runs'[i].attempt = Newest + 1
<1>1. Typed /\ Desk(l) /\ job[l].pc = "start" /\ Newest + 1 \in Attempts
  BY NewestFacts, ConstantsAssumption DEF PipeInv, Desks, Insert, Attempts
<1>2. CASE job[l].run = 0
  BY <1>1, <1>2, RunFacts DEF Insert, Typed
<1>3. CASE job[l].run # 0
  <2> DEFINE i == job[l].run
             r == [runs[i] EXCEPT !.attempt = Newest + 1]
  <2>1. i \in 1..Len(runs) /\ DOMAIN runs = 1..Len(runs) /\ runs[i] \in Runs /\ runs[i].target = "BASE"
    BY <1>1, <1>3, RunFacts DEF Desk
  <2>2. /\ r \in Runs /\ r.snap = runs[i].snap /\ r.head = runs[i].head
        /\ r.target = "BASE" /\ r.verdict = runs[i].verdict /\ r.attempt = Newest + 1
    BY <1>1, <2>1 DEF Runs
  <2>3. runs' = [runs EXCEPT ![i] = r]
    BY <1>3 DEF Insert
  <2> HIDE DEF r
  <2>4. runs' \in Seq(Runs) /\ Len(runs') = Len(runs)
    BY <1>1, <2>1, <2>2, <2>3, ExceptSeq DEF Typed
  <2> QED
    BY <2>1, <2>2, <2>3, <2>4
<1> QED
  BY <1>2, <1>3

LEMMA InsertStep ==
    ASSUME PipeInv, NEW l \in Loops, Insert(l)
    PROVE  PipeInv' /\ Grows
<1>1. /\ Typed /\ Sessions /\ Deliveries /\ Stages /\ Probes /\ Desk(l) /\ job[l] \in Jobs
      /\ job[l].pc = "start" /\ ~Active
      /\ UNCHANGED <<state, why, ci_status, claim, policy, registered, snapshots, decided, pr>>
  BY DEF PipeInv, Rows, Typed, Desks, Insert, config
<1> DEFINE s == IF job[l].run = 0 THEN 0 ELSE runs[job[l].run].snap
<1>2. /\ s \in 0..MaxSnapshots /\ attempts' = Append(attempts, NewAttempt(s))
      /\ IF s = 0 THEN decided
         ELSE /\ job[l].run \in DOMAIN runs /\ runs[job[l].run].target = "BASE"
              /\ runs[job[l].run].verdict = "MATCHED" /\ runs[job[l].run].snap = s
  BY <1>1, RunFacts, ConstantsAssumption DEF Insert, Desk, Runs
<1> HIDE DEF s
<1>0. PICK a \in Nat : a = Newest + 1
  BY <1>1, NewestFacts
<1>3. /\ attempts' \in Seq(AttemptRows) /\ Newest' = a /\ Newest \in Nat
      /\ DOMAIN attempts = 1..Newest /\ DOMAIN attempts' = 1..a
      /\ \A b \in DOMAIN attempts : attempts'[b] = attempts[b]
      /\ attempts'[a].snap = s /\ attempts'[a].status = "CREATING"
      /\ attempts'[a].evidence = "none" /\ attempts'[a].stage = "none"
      /\ attempts'[a].head = 0
  BY <1>1, <1>2, <1>0, Inserted
<1>4. a \in Attempts /\ Len(attempts') <= max_attempts_per_kind
  BY <1>3, <1>0, ConstantsAssumption DEF Insert, Attempts, Newest
<1> DEFINE j == [job[l] EXCEPT !.pc = "attach", !.attempt = a]
<1>5. /\ j \in Jobs /\ j.pc = "attach" /\ j.attempt = a /\ j.run = job[l].run
      /\ j.state = job[l].state
  BY <1>1, <1>4 DEF Jobs, PCs
<1>6. job' = [job EXCEPT ![l] = j]
  BY <1>0 DEF Insert
<1> HIDE DEF j
<1>7. \A b \in DOMAIN attempts' : b \in DOMAIN attempts \/ b = a
  BY <1>3, <1>0
<1>8. /\ runs' \in Seq(Runs) /\ DOMAIN runs' = DOMAIN runs /\ Len(runs') = Len(runs)
      /\ \A i \in DOMAIN runs :
           /\ runs'[i].snap = runs[i].snap /\ runs'[i].head = runs[i].head
           /\ runs'[i].target = runs[i].target /\ runs'[i].verdict = runs[i].verdict
           /\ runs[i].target = "HEAD" => runs'[i].attempt = runs[i].attempt
  BY Relinked
<1>9. Typed'
  BY <1>1, <1>3, <1>4, <1>5, <1>6, <1>8 DEF Typed
<1>10. Grows
  BY <1>1, <1>3, <1>8, <1>0 DEF Grows, Valid
<1>11. (\A b \in DOMAIN attempts : Valid(b)' <=> Valid(b)) /\ ~Valid(a)' /\ (NoneValid' <=> NoneValid)
  <2>1. \A b \in DOMAIN attempts : (Valid(b)' <=> Valid(b)) /\ b \in DOMAIN attempts'
    BY <1>3, <1>0 DEF Valid
  <2>3. ~(attempts'[a].evidence = "valid")
    BY <1>3
  <2>4. NoneValid' <=> NoneValid
    BY <1>7, <2>1, <2>3 DEF NoneValid, Valid
  <2> QED
    BY <2>1, <2>3, <2>4 DEF Valid
<1>12. Open => Open'
  BY <1>8 DEF Open
<1>13. Sessions'
  <2>1. \A b \in DOMAIN attempts' : attempts'[b].status \in {"CREATING", "RUNNING"} => b = a
    BY <1>1, <1>3, <1>7 DEF Active
  <2>2. \A b \in DOMAIN attempts' : ~Running(b)'
    BY <1>1, <1>3, <1>7 DEF Active, Running
  <2>3. Newest' > 0
    BY <1>3, <1>0
  <2> QED
    BY <1>3, <2>1, <2>2, <2>3 DEF Sessions
<1>14. Deliveries'
  <2>1. ASSUME NEW b \in DOMAIN attempts', Valid(b)'
        PROVE  /\ attempts'[b].of = attempts'[b].head /\ attempts'[b].head # 0
               /\ \A c \in DOMAIN attempts' : c > b => attempts'[c].head = 0
    BY <1>1, <1>3, <1>7, <1>11, <2>1 DEF Deliveries
  <2>2. state = "CI_PASSED" => \E b \in DOMAIN attempts' : Verified(b)' /\ Clean(b)'
    <3>1. \A b \in DOMAIN attempts : Clean(b) => Clean(b)'
      BY <1>3 DEF Clean, Green
    <3> QED
      BY <1>1, <1>10, <3>1, Lasting DEF Deliveries, Grows
  <2> QED
    BY <1>1, <1>10, <1>11, <2>1, <2>2, Lasting DEF Deliveries
<1>15. Stages'
  <2>1. ASSUME NEW b \in DOMAIN attempts'
        PROVE  /\ attempts'[b].stage \in {"probe_head", "ci"} => ~NoneValid'
               /\ attempts'[b].stage = "ci" /\ attempts'[b].head # 0 => Verified(b)'
               /\ attempts'[b].stage = "probe_head" /\ attempts'[b].infrastructure =>
                    Valid(b)' /\ Open' /\ state' # "PROBE_VALIDATING_HEAD"
    <3>1. CASE b \in DOMAIN attempts
      BY <1>1, <1>3, <1>10, <1>11, <1>12, <3>1, Lasting DEF Stages
    <3>2. CASE b = a
      BY <1>3, <3>2
    <3> QED
      BY <1>7, <3>1, <3>2
  <2> QED
    BY <2>1 DEF Stages
<1>16. Probes'
  <2>1. ASSUME NEW b \in DOMAIN attempts'
        PROVE  IF attempts'[b].snap = 0 THEN decided' ELSE Reproduced(b)'
    <3>1. CASE b \in DOMAIN attempts
      BY <1>1, <1>3, <1>10, <3>1, Lasting DEF Probes
    <3>2. CASE b = a
      <4>1. CASE s = 0
        BY <1>1, <1>2, <1>3, <3>2, <4>1
      <4>2. CASE s # 0
        <5>1. job[l].run \in DOMAIN runs' /\ runs'[job[l].run].target = "BASE"
              /\ runs'[job[l].run].verdict = "MATCHED" /\ runs'[job[l].run].snap = s
          BY <1>2, <1>8, <4>2
        <5>2. attempts'[b].snap = s
          BY <1>3, <3>2
        <5>3. Reproduced(b)'
          BY <5>1, <5>2 DEF Reproduced
        <5> QED
          BY <4>2, <5>2, <5>3
      <4> QED
        BY <4>1, <4>2
    <3> QED
      BY <1>7, <3>1, <3>2
  <2>2. NoneValid => \A i \in DOMAIN runs' : runs'[i].target # "HEAD"
    BY <1>1, <1>8 DEF Probes
  <2>3. HeadVerdictStands'
    BY <1>1, <1>8 DEF Probes, HeadVerdictStands
  <2>4. state' = "PROBE_VALIDATING_HEAD" => Open'
    BY <1>1, <1>12 DEF Probes
  <2> QED
    BY <1>11, <2>1, <2>2, <2>3, <2>4 DEF Probes
<1>17. Desk(l)'
  <2>1. job'[l] = j /\ \A m \in Loops : m # l => job'[m] = job[m]
    BY <1>1, <1>6 DEF Typed
  <2>2. \A m \in Loops : job[m].attempt \in 0..Newest
    BY DEF PipeInv, Desks, Desk
  <2>3. \A m \in Loops \ {l} : job'[m].attempt # a
    BY <1>3, <1>0, <2>1, <2>2
  <2>4. a \in 0..Newest' /\ a > 0 /\ job[l].run \in 0..Len(runs')
    BY <1>1, <1>3, <1>8, <1>0 DEF Desk
  <2>5. job[l].state \in {"REMEDIATION_CREATE_INTENT", "REMEDIATING"}
    BY <1>1 DEF Desk
  <2> QED
    BY <1>3, <1>5, <2>1, <2>3, <2>4, <2>5 DEF Desk
<1>18. Unnoticed(l)
  BY <1>3, <1>7 DEF Unnoticed, Running
<1>19. Desks'
  BY <1>1, <1>6, <1>9, <1>10, <1>17, <1>18, DesksKept DEF Typed
<1> QED
  BY <1>9, <1>10, <1>13, <1>14, <1>15, <1>16, <1>19 DEF PipeInv, Rows
\* A step of a job that closes an attempt.
LEMMA Closed ==
    ASSUME PipeInv, NEW l \in Loops, Turns(l), Aside, NEW a \in DOMAIN attempts,
           NEW r \in AttemptRows, attempts' = [attempts EXCEPT ![a] = r],
           r.snap = attempts[a].snap, r.head = attempts[a].head, r.of = attempts[a].of,
           r.evidence = attempts[a].evidence, r.checks = attempts[a].checks,
           r.infrastructure = attempts[a].infrastructure,
           r.stage \in {attempts[a].stage, "session"}, r.status \notin {"CREATING", "RUNNING"},
           why' \in {"none", "missing_probe", "other"},
           \/ state' = state
           \/ /\ state' \in Resting \/ (state' = "OUTPUT_VALIDATING" /\ NoneValid)
              /\ \A b \in DOMAIN attempts : Running(b) => b = a,
           claim.by = l \/ (job[l].pc = "attach" /\ job[l].attempt = a)
    PROVE  Kept
<1>1. Typed /\ Sessions /\ Stages /\ Newest \in Nat /\ DOMAIN attempts = 1..Newest
  BY NewestFacts DEF PipeInv, Rows
<1>2. /\ attempts' \in Seq(AttemptRows) /\ Newest' = Newest /\ Len(attempts') = Len(attempts)
      /\ DOMAIN attempts' = DOMAIN attempts /\ attempts'[a] = r
      /\ \A b \in DOMAIN attempts : b # a => attempts'[b] = attempts[b]
  BY <1>1, Written
<1>3. state' \in REMEDIATION_PHASE_STATES /\ (state' = "PROBE_VALIDATING_HEAD" => state' = state)
  BY <1>1 DEF Typed, Resting, REMEDIATION_PHASE_STATES
<1>4. Typed'
  BY <1>1, <1>2, <1>3, TypedAside
<1>5. \A b \in DOMAIN attempts : Running(b)' => Running(b) /\ b # a
  BY <1>2 DEF Running
<1>6. Alike
  <2>1. \A b \in DOMAIN attempts : Running(b)' =>
          state' \in {"REMEDIATING", "REMEDIATION_TERMINATION_PENDING"} /\ Running(b)
    BY <1>1, <1>5 DEF Sessions
  <2> QED
    BY <1>2, <2>1 DEF Alike
<1>7. RunsAlike /\ (decided => decided')
  BY DEF RunsAlike, Aside
<1>8. Unnoticed(l)
  BY <1>2, <1>5 DEF Unnoticed, Running
<1>9. Goes
  <2>1. \A b \in DOMAIN attempts : attempts'[b].checks = attempts[b].checks
    BY <1>2
  <2>2. Newest > 0
    BY <1>1
  <2> QED
    BY <2>1, <2>2 DEF Goes, Resting, Undelivered
<1>10. Marks
  <2>1. \A b \in DOMAIN attempts :
          /\ attempts'[b].stage \in {"probe_head", "ci"} => attempts'[b].stage = attempts[b].stage
          /\ attempts'[b].infrastructure = attempts[b].infrastructure
    BY <1>2
  <2> QED
    BY <1>1, <1>3, <2>1 DEF Marks, Stages
<1>11. Rows' /\ Grows
  BY <1>4, <1>6, <1>7, <1>9, <1>10, Moves
<1>12. Desks'
  BY <1>4, <1>8, <1>11, TurnsDesks
<1> QED
  BY <1>2, <1>4, <1>11, <1>12 DEF Kept, PipeInv, Fixed, Aside

LEMMA Settled ==
    ASSUME PipeInv, NEW l \in Loops, claim.by = l, Aside, NEW a \in DOMAIN attempts,
           NEW status \in {"SUCCEEDED", "FAILED", "BLOCKED", "TIMED_OUT", "CANCELLED"},
           NEW s \in REMEDIATION_PHASE_STATES, Settle(l, a, status, s),
           s \in Resting \/ (s = "OUTPUT_VALIDATING" /\ NoneValid),
           \A b \in DOMAIN attempts : Running(b) => b = a
    PROVE  Kept
<1>1. Typed /\ attempts[a] \in AttemptRows
  BY NewestFacts DEF PipeInv
<1> DEFINE r == [attempts[a] EXCEPT !.status = status, !.output = @ \/ status = "SUCCEEDED",
                                    !.stage = IF status = "FAILED" THEN "session" ELSE @]
<1>2. attempts' = [attempts EXCEPT ![a] = r]
  BY DEF Settle
<1>3. r \in AttemptRows
  <2>1. ASSUME NEW o \in BOOLEAN, NEW t \in {attempts[a].stage, "session"}
        PROVE  [attempts[a] EXCEPT !.status = status, !.output = o, !.stage = t] \in AttemptRows
    BY <1>1 DEF AttemptRows
  <2>2. (attempts[a].output \/ status = "SUCCEEDED") \in BOOLEAN
    OBVIOUS
  <2>3. (IF status = "FAILED" THEN "session" ELSE attempts[a].stage) \in {attempts[a].stage, "session"}
    OBVIOUS
  <2> QED
    BY <2>1, <2>2, <2>3
<1>4. /\ r.snap = attempts[a].snap /\ r.head = attempts[a].head /\ r.of = attempts[a].of
      /\ r.evidence = attempts[a].evidence /\ r.checks = attempts[a].checks
      /\ r.infrastructure = attempts[a].infrastructure
      /\ r.stage \in {attempts[a].stage, "session"} /\ r.status = status
  BY <1>1 DEF AttemptRows
<1> HIDE DEF r
<1>5. Turns(l) /\ state' = s
  BY <1>1, MoveToTurns DEF Settle
<1>6. why' \in {"none", "missing_probe", "other"}
  BY <1>1 DEF Settle, Typed
<1>7. r.status \notin {"CREATING", "RUNNING"}
  BY <1>4
<1> QED
  BY <1>2, <1>3, <1>4, <1>5, <1>6, <1>7, Closed

\* The session of an attempt is bound, or refused and deleted.
LEMMA AttachedTo ==
    ASSUME PipeInv, NEW l \in Loops, Aside, NEW a \in DOMAIN attempts, AttachTo(l, a),
           job[l].state \in {"REMEDIATION_CREATE_INTENT", "REMEDIATING"},
           Fresh(l) => attempts[a].status = "CREATING",
           claim.by = l \/ (job[l].pc = "attach" /\ job[l].attempt = a)
    PROVE  Kept
<1>1. Typed /\ attempts[a] \in AttemptRows /\ DOMAIN attempts = 1..Newest /\ Newest \in Nat
  BY NewestFacts DEF PipeInv
<1>2. CASE Fresh(l) /\ "REMEDIATING" \in TRANSITIONS[state]
  <2> DEFINE r == [attempts[a] EXCEPT !.status = "RUNNING"]
             j == [Idle EXCEPT !.pc = "session", !.state = "REMEDIATING", !.attempt = a]
  <2>1. /\ attempts' = [attempts EXCEPT ![a] = r] /\ state' = "REMEDIATING"
        /\ job' = [job EXCEPT ![l] = j] /\ UNCHANGED <<why, claim>> /\ claim.by = l
    BY <1>2 DEF AttachTo, Fresh
  <2>2. /\ r \in AttemptRows /\ r.status = "RUNNING" /\ r.snap = attempts[a].snap
        /\ r.head = attempts[a].head /\ r.of = attempts[a].of /\ r.stage = attempts[a].stage
        /\ r.evidence = attempts[a].evidence /\ r.checks = attempts[a].checks
        /\ r.infrastructure = attempts[a].infrastructure
    BY <1>1 DEF AttemptRows
  <2>3. j \in Jobs /\ j.pc = "session" /\ j.state = "REMEDIATING" /\ j.attempt = a /\ j.run = 0
    <3>1. a \in Attempts
      BY <1>1, NewestFacts
    <3>2. ASSUME NEW i \in Jobs
          PROVE  LET k == [i EXCEPT !.pc = "session", !.state = "REMEDIATING", !.attempt = a]
                 IN  /\ k \in Jobs /\ k.pc = "session" /\ k.state = "REMEDIATING"
                     /\ k.attempt = a /\ k.run = i.run
      BY <3>1 DEF Jobs, PCs, REMEDIATION_PHASE_STATES
    <3> QED
      BY <3>2, IdleType
  <2> HIDE DEF r, j
  <2>4. /\ attempts' \in Seq(AttemptRows) /\ Newest' = Newest /\ Len(attempts') = Len(attempts)
        /\ DOMAIN attempts' = DOMAIN attempts /\ attempts'[a] = r
        /\ \A b \in DOMAIN attempts : b # a => attempts'[b] = attempts[b]
    BY <1>1, <2>1, <2>2, Written
  <2>5. Typed'
    BY <1>1, <2>1, <2>3, <2>4 DEF Typed, Aside, REMEDIATION_PHASE_STATES
  <2>6. Sessions /\ Stages /\ NoneValid /\ a = Newest
    BY <1>2 DEF PipeInv, Rows, Deliveries, Undelivered, Sessions, Fresh
  <2>7. Alike
    BY <1>2, <2>1, <2>2, <2>4, <2>6 DEF Alike
  <2>8. RunsAlike /\ (decided => decided') /\ Unnoticed(l)
    BY <2>1 DEF RunsAlike, Aside, Unnoticed
  <2>9. Goes
    BY <2>1, <2>6 DEF Goes, Undelivered, PIPELINE_STATES
  <2>10. Marks
    <3>1. \A b \in DOMAIN attempts : /\ attempts'[b].stage = attempts[b].stage
                                     /\ attempts'[b].infrastructure = attempts[b].infrastructure
      BY <2>2, <2>4
    <3> QED
      BY <2>1, <3>1 DEF Marks
  <2>11. Rows' /\ Grows
    BY <2>5, <2>7, <2>8, <2>9, <2>10, Moves
  <2>12. Desk(l)'
    <3>1. job'[l] = j
      BY <1>1, <2>1 DEF Typed
    <3>2. \A b \in DOMAIN attempts' : Running(b)' => b = a
      BY <2>4, <2>6 DEF Sessions, Running
    <3>3. a \in 0..Newest' /\ a > 0 /\ 0 \in 0..Len(runs')
      BY <1>1, <2>4, <2>5, LenProperties DEF Typed
    <3> QED
      BY <2>3, <3>1, <3>2, <3>3 DEF Desk
  <2>13. Desks'
    BY <1>1, <2>1, <2>5, <2>8, <2>11, <2>12, DesksKept DEF Typed
  <2> QED
    BY <2>4, <2>5, <2>11, <2>13 DEF Kept, PipeInv, Fixed, Aside
<1>3. CASE ~(Fresh(l) /\ "REMEDIATING" \in TRANSITIONS[state])
  <2> DEFINE r == [attempts[a] EXCEPT !.status = "CANCELLED"]
  <2>1. attempts' = [attempts EXCEPT ![a] = r] /\ EndJob(l) /\ UNCHANGED <<state, why>>
    BY <1>3 DEF AttachTo
  <2>2. /\ r \in AttemptRows /\ r.status = "CANCELLED" /\ r.snap = attempts[a].snap
        /\ r.head = attempts[a].head /\ r.of = attempts[a].of /\ r.stage = attempts[a].stage
        /\ r.evidence = attempts[a].evidence /\ r.checks = attempts[a].checks
        /\ r.infrastructure = attempts[a].infrastructure
    BY <1>1 DEF AttemptRows
  <2> HIDE DEF r
  <2>3. Turns(l)
    BY <1>1, <2>1, EndJobTurns
  <2>4. why' \in {"none", "missing_probe", "other"} /\ r.status \notin {"CREATING", "RUNNING"}
    BY <1>1, <2>1, <2>2 DEF Typed
  <2> QED
    BY <2>1, <2>2, <2>3, <2>4, Closed
<1> QED
  BY <1>2, <1>3

LEMMA AttachStep ==
    ASSUME PipeInv, NEW l \in Loops, Attach(l)
    PROVE  Kept
<1> DEFINE a == job[l].attempt
<1>1. /\ Typed /\ Desk(l) /\ Aside /\ a \in DOMAIN attempts /\ job[l].pc = "attach"
      /\ job[l].state \in {"REMEDIATION_CREATE_INTENT", "REMEDIATING"}
      /\ claim.by = l => attempts[a].status = "CREATING"
  BY NewestFacts DEF PipeInv, Desks, Desk, Attach, Aside, config, rows
<1>2. ASSUME Fresh(l) PROVE claim.by = l /\ \A b \in DOMAIN attempts : Running(b) => b = a
  BY <1>1, <1>2 DEF Fresh, PipeInv, Rows, Sessions, Running
<1>3. CASE AttachTo(l, a)
  <2>1. Fresh(l) => attempts[a].status = "CREATING"
    BY <1>1 DEF Fresh
  <2> QED
    BY <1>1, <1>3, <2>1, AttachedTo
<1>4. CASE Fresh(l) /\ Settle(l, a, "FAILED", "REMEDIATION_FAILED")
  BY <1>1, <1>2, <1>4, Settled DEF Resting, REMEDIATION_PHASE_STATES
<1>5. CASE Fresh(l) /\ Settle(l, a, "BLOCKED", "REMEDIATION_HUMAN_BLOCKED")
  BY <1>1, <1>2, <1>5, Settled DEF Resting, REMEDIATION_PHASE_STATES
<1>6. CASE ~Fresh(l) /\ EndJob(l) /\ UNCHANGED <<state, why, attempts>>
  <2>1. Turns(l)
    BY <1>1, <1>6, EndJobTurns
  <2>2. Typed'
    BY <1>1, <1>6, <2>1, TypedAside DEF Typed
  <2> QED
    BY <1>1, <1>6, <2>1, <2>2, StateMoves DEF Aside
<1> QED
  BY <1>3, <1>4, <1>5, <1>6 DEF Attach

LEMMA SessionResumedStep ==
    ASSUME PipeInv, NEW l \in Loops, SessionResumed(l)
    PROVE  Kept
<1>1. /\ Typed /\ Sessions /\ Desk(l) /\ job[l] \in Jobs /\ Aside
      /\ claim.by = l /\ state = job[l].state
      /\ state \in {"REMEDIATION_CREATE_INTENT", "REMEDIATING"}
  BY DEF PipeInv, Rows, Typed, Desks, SessionResumed, At, Fresh, Aside, config, rows
<1>2. /\ Newest \in DOMAIN attempts /\ Newest \in Nat /\ Newest > 0 /\ Newest \in Attempts
      /\ \A b \in DOMAIN attempts : Running(b) => b = Newest
  BY <1>1, NewestFacts DEF SessionResumed, Active, Sessions, Running
<1>3. CASE attempts[Newest].status = "CREATING" /\ AttachTo(l, Newest)
  BY <1>1, <1>2, <1>3, AttachedTo
<1>4. CASE Settle(l, Newest, "BLOCKED", "REMEDIATION_HUMAN_BLOCKED")
  BY <1>1, <1>2, <1>4, Settled DEF Resting, REMEDIATION_PHASE_STATES
<1>5. CASE /\ attempts[Newest].status = "RUNNING"
           /\ job' = [job EXCEPT ![l].pc = "session", ![l].attempt = Newest]
           /\ UNCHANGED <<state, why, claim, attempts>>
  <2> DEFINE j == [job[l] EXCEPT !.pc = "session", !.attempt = Newest]
  <2>1. job' = [job EXCEPT ![l] = j]
    BY <1>5
  <2>2. /\ j \in Jobs /\ j.pc = "session" /\ j.state = job[l].state /\ j.attempt = Newest
        /\ j.run = job[l].run
    BY <1>1, <1>2 DEF Jobs, PCs
  <2> HIDE DEF j
  <2>3. job[l].state = "REMEDIATING"
    BY <1>1, <1>2, <1>5 DEF Sessions, Running
  <2>4. job'[l] = j /\ Newest' = Newest /\ UNCHANGED runs
    BY <1>1, <1>5, <2>1 DEF Typed, Newest, Aside
  <2>5. \A b \in DOMAIN attempts' : Running(b)' => b = Newest
    BY <1>2, <1>5 DEF Running
  <2>6. Newest \in 0..Newest /\ job[l].run \in 0..Len(runs)
    BY <1>1, <1>2 DEF Desk
  <2>7. Desk(l)'
    BY <1>2, <2>2, <2>3, <2>4, <2>5, <2>6 DEF Desk
  <2> QED
    BY <1>1, <1>5, <2>1, <2>2, <2>7, Loads
<1> QED
  BY <1>3, <1>4, <1>5 DEF SessionResumed

LEMMA SessionEndsStep ==
    ASSUME PipeInv, NEW l \in Loops, SessionEnds(l)
    PROVE  Kept
<1> DEFINE a == job[l].attempt
<1>1. /\ Typed /\ Desk(l) /\ Aside /\ claim.by = l /\ state = "REMEDIATING"
      /\ \A b \in DOMAIN attempts : Running(b) => b = a
  BY DEF PipeInv, Desks, Desk, SessionEnds, Fresh, Aside, config, rows
<1>2. a \in DOMAIN attempts /\ NoneValid
  BY <1>1, NewestFacts DEF PipeInv, Rows, Deliveries, Undelivered, Desk, SessionEnds
<1>3. PICK status \in {"SUCCEEDED", "FAILED", "BLOCKED", "TIMED_OUT", "CANCELLED"},
           s \in REMEDIATION_PHASE_STATES :
        Settle(l, a, status, s) /\ (s \in Resting \/ s = "OUTPUT_VALIDATING")
  BY DEF SessionEnds, Resting, REMEDIATION_PHASE_STATES
<1> QED
  BY <1>1, <1>2, <1>3, Settled

LEMMA SessionTerminatedStep ==
    ASSUME PipeInv, NEW l \in Loops, SessionTerminated(l)
    PROVE  Kept
<1>1. /\ Typed /\ Sessions /\ Stages /\ Aside /\ claim.by = l
      /\ Newest \in Nat /\ DOMAIN attempts = 1..Newest
      /\ \A a \in DOMAIN attempts : attempts[a] \in AttemptRows
  BY NewestFacts DEF PipeInv, Rows, SessionTerminated, At, Fresh, Aside, config, rows
<1>2. CASE Active
  <2>1. Newest \in DOMAIN attempts /\ \A b \in DOMAIN attempts : Running(b) => b = Newest
    BY <1>1, <1>2 DEF Active, Sessions, Running
  <2>2. PICK status \in {"SUCCEEDED", "FAILED", "BLOCKED", "TIMED_OUT", "CANCELLED"},
             s \in REMEDIATION_PHASE_STATES :
          /\ Settle(l, Newest, status, s) /\ (s \in Resting \/ s = "OUTPUT_VALIDATING")
          /\ s = "OUTPUT_VALIDATING" => attempts[Newest].status = "RUNNING"
    BY <1>2 DEF SessionTerminated, Resting, REMEDIATION_PHASE_STATES
  <2>3. s = "OUTPUT_VALIDATING" => NoneValid
    BY <1>1, <2>1, <2>2 DEF Sessions, Running
  <2> QED
    BY <1>1, <2>1, <2>2, <2>3, Settled
<1>3. CASE ~Active
  <2>1. /\ MoveTo(l, "REMEDIATION_CANCELLED") /\ UNCHANGED why
        /\ attempts' = Withdrawn(Blocked) /\ Blocked \in SUBSET Blocked
    BY <1>3 DEF SessionTerminated
  <2>2. Turns(l) /\ MayRest(state')
    BY <1>1, <1>3, <2>1, MoveToTurns
    DEF MayRest, Resting, Active, SomeRunning, Running, REMEDIATION_PHASE_STATES
  <2>3. state' \in REMEDIATION_PHASE_STATES
    BY <2>2 DEF MayRest, Resting, REMEDIATION_PHASE_STATES
  <2>4. Typed'
    BY <1>1, <2>1, <2>2, <2>3, Withdraws, TypedAside DEF Typed
  <2>5. Rows' /\ Grows /\ Fixed /\ Unnoticed(l)
    BY <1>1, <2>1, <2>2, <2>4, WithdrawnRests
  <2>6. Desks'
    BY <2>2, <2>4, <2>5, TurnsDesks
  <2> QED
    BY <2>4, <2>5, <2>6 DEF Kept, PipeInv
<1> QED
  BY <1>2, <1>3
-----------------------------------------------------------------------------
(***************************************************************************)
(* The output and the pull request.                                         *)
(***************************************************************************)
\* What a job holds that works on the newest attempt in one of the pipeline's states.
LEMMA AtWork ==
    ASSUME PipeInv, NEW l \in Loops, NEW s \in PIPELINE_STATES, At(l, s)
    PROVE  /\ Typed /\ Sessions /\ Deliveries /\ Stages /\ Probes /\ Desk(l) /\ job[l] \in Jobs
           /\ claim.by = l /\ state = s /\ job[l].state = s /\ ~SomeRunning
           /\ Newest \in DOMAIN attempts /\ Newest \in Nat /\ Newest > 0 /\ Newest \in Attempts
           /\ attempts[Newest] \in AttemptRows /\ DOMAIN attempts = 1..Newest
<1>1. /\ Typed /\ Sessions /\ Deliveries /\ Stages /\ Probes /\ Desk(l) /\ job[l] \in Jobs
      /\ claim.by = l /\ state = s /\ job[l].state = s
  BY DEF PipeInv, Rows, Typed, Desks, At, Fresh
<1>2. ~SomeRunning
  BY <1>1, NoneRunning DEF PIPELINE_STATES
<1> QED
  BY <1>1, <1>2, NewestFacts DEF Sessions

\* The output names a head: no pull request of the case is verified yet.
LEMMA Named ==
    ASSUME PipeInv, NEW l \in Loops, At(l, "OUTPUT_VALIDATING"), Aside, NEW h \in Heads,
           attempts' = [attempts EXCEPT ![Newest].head = h],
           MoveTo(l, "PR_DISCOVERED"), UNCHANGED why
    PROVE  Kept
<1>1. /\ Typed /\ Sessions /\ Deliveries /\ Stages /\ Probes /\ claim.by = l
      /\ state = "OUTPUT_VALIDATING" /\ ~SomeRunning /\ Newest \in DOMAIN attempts
      /\ attempts[Newest] \in AttemptRows /\ DOMAIN attempts = 1..Newest /\ Newest > 0
  BY AtWork DEF PIPELINE_STATES
<1>2. NoneValid
  BY <1>1 DEF Deliveries, Undelivered
<1> DEFINE r == [attempts[Newest] EXCEPT !.head = h]
<1>3. /\ attempts' = [attempts EXCEPT ![Newest] = r] /\ r \in AttemptRows
      /\ r.snap = attempts[Newest].snap /\ r.status = attempts[Newest].status
      /\ r.evidence = attempts[Newest].evidence /\ r.stage = attempts[Newest].stage
  BY <1>1 DEF AttemptRows
<1> HIDE DEF r
<1>4. /\ attempts' \in Seq(AttemptRows) /\ Newest' = Newest /\ Len(attempts') = Len(attempts)
      /\ DOMAIN attempts' = DOMAIN attempts /\ attempts'[Newest] = r
      /\ \A b \in DOMAIN attempts : b # Newest => attempts'[b] = attempts[b]
  BY <1>1, <1>3, Written
<1>5. \A b \in DOMAIN attempts :
        /\ attempts'[b].snap = attempts[b].snap /\ attempts'[b].status = attempts[b].status
        /\ attempts'[b].evidence = attempts[b].evidence /\ attempts'[b].stage = attempts[b].stage
  BY <1>3, <1>4
<1>6. Turns(l) /\ state' = "PR_DISCOVERED"
  BY <1>1, MoveToTurns DEF REMEDIATION_PHASE_STATES
<1>7. Typed'
  BY <1>1, <1>4, <1>6, TypedAside DEF Typed, REMEDIATION_PHASE_STATES
<1>8. Grows
  BY <1>2, <1>4, <1>5 DEF Grows, NoneValid, Valid, Aside
<1>9. NoneValid' /\ \A a \in DOMAIN attempts : ~Valid(a)'
  BY <1>2, <1>4, <1>5 DEF NoneValid, Valid
<1>10. Sessions'
  BY <1>1, <1>4, <1>5 DEF Sessions, SomeRunning, Running
<1>11. Deliveries'
  BY <1>4, <1>6, <1>9 DEF Deliveries, Undelivered, Behind
<1>12. Stages'
  BY <1>1, <1>2, <1>4, <1>5 DEF Stages
<1>13. Probes'
  <2>1. \A a \in DOMAIN attempts' : IF attempts'[a].snap = 0 THEN decided' ELSE Reproduced(a)'
    BY <1>1, <1>4, <1>5, <1>8, Lasting DEF Probes, Aside
  <2>2. UNCHANGED runs
    BY DEF Aside
  <2> QED
    BY <1>1, <1>2, <1>6, <2>1, <2>2 DEF Probes, HeadVerdictStands
<1>14. Unnoticed(l)
  BY <1>1 DEF Unnoticed
<1>15. Desks'
  BY <1>6, <1>7, <1>8, <1>14, TurnsDesks
<1> QED
  BY <1>4, <1>7, <1>8, <1>10, <1>11, <1>12, <1>13, <1>15 DEF Kept, PipeInv, Rows, Fixed, Aside

LEMMA ValidateOutputStep ==
    ASSUME PipeInv, NEW l \in Loops, ValidateOutput(l)
    PROVE  Kept
<1>1. /\ At(l, "OUTPUT_VALIDATING") /\ Aside /\ claim.by = l /\ ~SomeRunning
      /\ Newest \in DOMAIN attempts
  BY AtWork DEF ValidateOutput, Aside, config, rows, PIPELINE_STATES
<1>2. CASE FailAt(l, Newest, "output", FALSE)
  BY <1>1, <1>2, FailedAt
<1>3. CASE BlockAt(l, Newest, "output")
  BY <1>1, <1>3, BlockedAt
<1>4. ASSUME NEW o \in Outputs, attempts' = [attempts EXCEPT ![Newest].head = o.head],
             MoveTo(l, "PR_DISCOVERED"), UNCHANGED why
      PROVE  Kept
  <2>1. o.head \in Heads
    BY DEF Outputs
  <2> QED
    BY <1>1, <1>4, <2>1, Named
<1> QED
  BY <1>2, <1>3, <1>4 DEF ValidateOutput

LEMMA PrDiscoveredStep ==
    ASSUME PipeInv, NEW l \in Loops, PrDiscovered(l)
    PROVE  Kept
<1>1. /\ Typed /\ Aside /\ UNCHANGED <<why, attempts>> /\ state = "PR_DISCOVERED"
      /\ MoveTo(l, "PR_VALIDATING")
  BY DEF PipeInv, PrDiscovered, At, Aside, config, rows
<1>2. Turns(l) /\ state' = "PR_VALIDATING"
  BY <1>1, MoveToTurns DEF REMEDIATION_PHASE_STATES
<1>3. Typed'
  BY <1>1, <1>2, TypedAside DEF Typed, REMEDIATION_PHASE_STATES
<1> QED
  BY <1>1, <1>2, <1>3, StateMoves DEF Aside

LEMMA ReadPullStep ==
    ASSUME PipeInv, NEW l \in Loops, ReadPull(l)
    PROVE  Kept
<1>1. /\ Typed /\ Desk(l) /\ job[l] \in Jobs /\ job[l].state = "PR_VALIDATING"
      /\ Newest \in Nat /\ Newest > 0 /\ Newest \in Attempts /\ DOMAIN attempts = 1..Newest
  BY AtWork DEF ReadPull, PIPELINE_STATES
<1>2. UNCHANGED <<state, why, claim, attempts>> /\ Aside /\ attempts[Newest].head # 0
  BY DEF ReadPull, Aside, config, rows
<1> DEFINE j == [job[l] EXCEPT !.pc = "pull", !.attempt = Newest, !.head = pr[Newest]]
<1>3. job' = [job EXCEPT ![l] = j]
  BY DEF ReadPull, get_pull_request
<1>4. /\ j \in Jobs /\ j.pc = "pull" /\ j.state = job[l].state /\ j.attempt = Newest
      /\ j.run = job[l].run
  <2>1. pr[Newest] \in Heads
    BY <1>1 DEF Typed
  <2> QED
    BY <1>1, <2>1 DEF Jobs, PCs
<1> HIDE DEF j
<1>5. job'[l] = j /\ Newest' = Newest /\ UNCHANGED <<runs, attempts>>
  BY <1>1, <1>2, <1>3 DEF Typed, Newest, Aside
<1>6. Newest \in 0..Newest /\ job[l].run \in 0..Len(runs) /\ ~ \E b \in DOMAIN attempts : b > Newest
  BY <1>1 DEF Desk
<1>7. Desk(l)'
  BY <1>1, <1>2, <1>4, <1>5, <1>6 DEF Desk
<1> QED
  BY <1>2, <1>3, <1>4, <1>7, Loads

LEMMA NoPullStep ==
    ASSUME PipeInv, NEW l \in Loops, NoPull(l)
    PROVE  Kept
<1>1. Aside /\ claim.by = l /\ Newest \in DOMAIN attempts
  BY AtWork DEF NoPull, Aside, config, rows, PIPELINE_STATES
<1>2. CASE attempts[Newest].output
  <2>1. FailAt(l, Newest, "pr", FALSE)
    BY <1>2 DEF NoPull, FailAt
  <2> QED
    BY <1>1, <2>1, FailedAt
<1>3. CASE ~attempts[Newest].output
  <2>1. fail_case(l, attempts)
    BY <1>3 DEF NoPull
  <2> QED
    BY <1>1, <2>1, FailCase
<1> QED
  BY <1>2, <1>3

\* The pull request is verified: the only one of the case, and no later attempt has one.
LEMMA CorroboratedStep ==
    ASSUME PipeInv, NEW l \in Loops, job[l].pc = "pull", Fresh(l), Corroborated(l), Aside
    PROVE  Kept
<1>1. /\ Typed /\ Sessions /\ Deliveries /\ Stages /\ Probes /\ Desk(l) /\ claim.by = l
      /\ state = "PR_VALIDATING" /\ job[l] \in Jobs /\ DOMAIN attempts = 1..Newest
      /\ Newest \in Nat /\ Newest > 0 /\ DOMAIN attempts \subseteq Attempts
  BY NewestFacts DEF PipeInv, Rows, Typed, Desks, Desk, Fresh, Sessions, PIPELINE_STATES
<1>2. NoneValid /\ ~SomeRunning
  BY <1>1, NoneRunning DEF Deliveries, Undelivered
<1>3. PICK a \in DOMAIN attempts :
        /\ a = job[l].attempt /\ attempts[a].head # 0 /\ attempts[a].head = job[l].head
        /\ \A b \in DOMAIN attempts : b > a => attempts[b].head = 0
  BY <1>1 DEF Desk, Corroborated
<1>4. pr[a] \in Heads /\ attempts[a] \in AttemptRows
  BY <1>1, NewestFacts DEF Typed
<1> DEFINE r == [attempts[a] EXCEPT !.evidence = "valid", !.of = job[l].head, !.files = pr[a]]
<1>5. /\ attempts' = [attempts EXCEPT ![a] = r] /\ r \in AttemptRows
      /\ r.snap = attempts[a].snap /\ r.status = attempts[a].status /\ r.evidence = "valid"
      /\ r.stage = attempts[a].stage /\ r.head = attempts[a].head /\ r.of = attempts[a].head
  <2>1. job[l].head \in Heads \cup {0} /\ pr[a] \in Heads \cup {0}
    BY <1>1, <1>4 DEF Jobs
  <2>2. attempts' = [attempts EXCEPT ![a] = r]
    BY <1>3 DEF Corroborated, Evidence, list_pull_request_files
  <2> QED
    BY <1>3, <1>4, <2>1, <2>2 DEF AttemptRows
<1> HIDE DEF r
<1>6. /\ attempts' \in Seq(AttemptRows) /\ Newest' = Newest /\ Len(attempts') = Len(attempts)
      /\ DOMAIN attempts' = DOMAIN attempts /\ attempts'[a] = r
      /\ \A b \in DOMAIN attempts : b # a => attempts'[b] = attempts[b]
  BY <1>1, <1>5, Written
<1>7. \A b \in DOMAIN attempts :
        /\ attempts'[b].snap = attempts[b].snap /\ attempts'[b].status = attempts[b].status
        /\ attempts'[b].head = attempts[b].head /\ attempts'[b].stage = attempts[b].stage
  BY <1>5, <1>6
<1>8. \A b \in DOMAIN attempts : Valid(b)' <=> b = a
  BY <1>2, <1>5, <1>6 DEF NoneValid, Valid
<1>9. PICK s \in {"PR_VALIDATED", "PROBE_VALIDATING_HEAD"} :
        MoveTo(l, s) /\ UNCHANGED why /\ (s = "PR_VALIDATED" => attempts[a].snap = 0)
  BY <1>3 DEF Corroborated
<1>10. Turns(l) /\ state' = s
  BY <1>1, <1>9, MoveToTurns DEF REMEDIATION_PHASE_STATES
<1>11. Typed'
  BY <1>1, <1>6, <1>9, <1>10, TypedAside DEF Typed, REMEDIATION_PHASE_STATES
<1>12. Grows
  BY <1>2, <1>6, <1>7 DEF Grows, NoneValid, Valid, Aside
<1>13. ~NoneValid' /\ Open' /\ UNCHANGED runs
  <2>1. ~NoneValid'
    BY <1>6, <1>8 DEF NoneValid
  <2>2. UNCHANGED runs
    BY DEF Aside
  <2> QED
    BY <1>1, <1>2, <2>1, <2>2 DEF Probes, Open
<1>14. Sessions'
  BY <1>1, <1>2, <1>6, <1>7 DEF Sessions, SomeRunning, Running
<1>15. Deliveries'
  <2>1. s = "PR_VALIDATED" => SomeVerified'
    BY <1>6, <1>7, <1>8, <1>9 DEF SomeVerified, Verified
  <2>2. ASSUME NEW b \in DOMAIN attempts', Valid(b)'
        PROVE  /\ attempts'[b].of = attempts'[b].head /\ attempts'[b].head # 0
               /\ \A c \in DOMAIN attempts' : c > b => attempts'[c].head = 0
    BY <1>3, <1>5, <1>6, <1>7, <1>8, <2>2
  <2> QED
    BY <1>9, <1>10, <1>13, <2>1, <2>2 DEF Deliveries, Undelivered, Behind
<1>16. Stages'
  BY <1>1, <1>2, <1>6, <1>7 DEF Stages
<1>17. Probes'
  <2>1. \A b \in DOMAIN attempts' : IF attempts'[b].snap = 0 THEN decided' ELSE Reproduced(b)'
    BY <1>1, <1>6, <1>7, <1>12, Lasting DEF Probes, Aside
  <2> QED
    BY <1>1, <1>13, <2>1 DEF Probes, HeadVerdictStands
<1>18. Unnoticed(l)
  BY <1>1 DEF Unnoticed
<1>19. Desks'
  BY <1>10, <1>11, <1>12, <1>18, TurnsDesks
<1> QED
  BY <1>6, <1>11, <1>12, <1>13, <1>14, <1>15, <1>16, <1>17, <1>19 DEF Kept, PipeInv, Rows, Fixed

LEMMA ValidatePullStep ==
    ASSUME PipeInv, NEW l \in Loops, ValidatePull(l)
    PROVE  Kept
<1> DEFINE a == job[l].attempt
<1>1. /\ Typed /\ Desk(l) /\ Aside /\ job[l].pc = "pull" /\ job[l].state = "PR_VALIDATING"
      /\ a \in DOMAIN attempts
  BY NewestFacts DEF PipeInv, Desks, Desk, ValidatePull, Aside, config, rows
<1>2. CASE ~Fresh(l)
  <2>1. EndJob(l) /\ UNCHANGED <<state, why, attempts>>
    BY <1>2 DEF ValidatePull
  <2>2. Turns(l)
    BY <1>1, <2>1, EndJobTurns
  <2>3. Typed'
    BY <1>1, <2>1, <2>2, TypedAside DEF Typed
  <2> QED
    BY <1>1, <2>1, <2>2, <2>3, StateMoves DEF Aside
<1>3. CASE Fresh(l)
  <2>1. claim.by = l /\ ~SomeRunning
    BY <1>1, <1>3, NoneRunning DEF Fresh
  <2>2. CASE FailAt(l, a, "pr", FALSE)
    BY <1>1, <2>1, <2>2, FailedAt
  <2>3. CASE FailAt(l, a, "pr", TRUE)
    BY <1>1, <2>1, <2>3, FailedAt
  <2>4. CASE BlockAt(l, a, "pr")
    BY <1>1, <2>1, <2>4, BlockedAt
  <2>5. CASE Corroborated(l)
    BY <1>1, <1>3, <2>5, CorroboratedStep
  <2> QED
    BY <1>3, <2>2, <2>3, <2>4, <2>5 DEF ValidatePull
<1> QED
  BY <1>2, <1>3
-----------------------------------------------------------------------------
(***************************************************************************)
(* The probe at head.                                                       *)
(***************************************************************************)
LEMMA BeginHeadStep ==
    ASSUME PipeInv, NEW l \in Loops, BeginHead(l)
    PROVE  Kept
<1>1. /\ Typed /\ Deliveries /\ Desk(l) /\ job[l] \in Jobs /\ claim.by = l
      /\ job[l].state = "PROBE_VALIDATING_HEAD" /\ state = "PROBE_VALIDATING_HEAD"
      /\ Newest \in DOMAIN attempts /\ Newest \in Nat /\ Newest > 0 /\ Newest \in Attempts
      /\ DOMAIN attempts = 1..Newest
  BY AtWork DEF BeginHead, PIPELINE_STATES
<1>2. Aside /\ ~NoneValid
  BY <1>1 DEF BeginHead, Aside, config, rows, Deliveries
<1>3. CASE FailAt(l, Newest, "probe_head", FALSE)
  BY <1>1, <1>2, <1>3, FailedAt
<1>4. CASE /\ attempts[Newest].snap # 0 /\ attempts[Newest].head # 0
           /\ Ask(l, [job[l] EXCEPT !.attempt = Newest], "head")
           /\ UNCHANGED <<state, why, claim, attempts>>
  <2>1. Valid(Newest)
    BY <1>1, <1>2, <1>4 DEF Deliveries, NoneValid
  <2>2. PICK v \in Verdicts :
          job' = [job EXCEPT ![l] = [[job[l] EXCEPT !.attempt = Newest] EXCEPT !.pc = "head", !.verdict = v]]
    BY <1>4 DEF Ask
  <2> DEFINE j == [[job[l] EXCEPT !.attempt = Newest] EXCEPT !.pc = "head", !.verdict = v]
  <2>3. /\ j \in Jobs /\ j.pc = "head" /\ j.state = job[l].state /\ j.attempt = Newest
        /\ j.run = job[l].run
    BY <1>1 DEF Jobs, PCs
  <2>4. job' = [job EXCEPT ![l] = j]
    BY <2>2
  <2> HIDE DEF j
  <2>5. job'[l] = j /\ Newest' = Newest /\ UNCHANGED <<runs, attempts>>
    BY <1>1, <1>2, <1>4, <2>4 DEF Typed, Newest, Aside
  <2>6. Newest \in 0..Newest /\ job[l].run \in 0..Len(runs)
    BY <1>1 DEF Desk
  <2>7. attempts'[Newest].evidence = "valid" /\ attempts'[Newest].snap # 0
    BY <1>4, <2>1 DEF Valid
  <2>8. Desk(l)'
    BY <1>1, <2>3, <2>5, <2>6, <2>7 DEF Desk, Valid
  <2> QED
    BY <1>2, <1>4, <2>3, <2>4, <2>8, Loads
<1> QED
  BY <1>3, <1>4 DEF BeginHead

\* A verdict on record at head: it was the first that is not a failure of the runner.
LEMMA HeadRecorded ==
    ASSUME PipeInv, NEW l \in Loops, NEW a \in DOMAIN attempts, NEW v \in Verdicts, Valid(a),
           state = "PROBE_VALIDATING_HEAD", claim.by = l, Turns(l), NEW infra \in BOOLEAN,
           runs' = Append(runs, [snap |-> attempts[a].snap, target |-> "HEAD",
                                 head |-> attempts[a].head, verdict |-> v, attempt |-> a]),
           UNCHANGED <<ci_status, policy, registered, snapshots, decided, pr>>,
           why' \in {"none", "missing_probe", "other"},
           \/ v = "MATCHED" /\ state' = "PR_VALIDATED" /\ UNCHANGED attempts
           \/ /\ state' \in {"REMEDIATION_FAILED", "REMEDIATION_TERMINATION_PENDING"}
              /\ attempts' = Failed(a, "probe_head", infra)
              /\ infra => v = "INFRASTRUCTURE"
    PROVE  Kept
<1>1. /\ Typed /\ Sessions /\ Deliveries /\ Stages /\ Probes /\ ~SomeRunning
      /\ DOMAIN attempts = 1..Newest /\ Newest \in Nat /\ Newest > 0
      /\ attempts[a] \in AttemptRows /\ DOMAIN attempts \subseteq Attempts
  BY NewestFacts, NoneRunning DEF PipeInv, Rows, Sessions, PIPELINE_STATES
<1> DEFINE row == [snap |-> attempts[a].snap, target |-> "HEAD", head |-> attempts[a].head,
                   verdict |-> v, attempt |-> a]
<1>2. /\ row \in Runs /\ row.target = "HEAD" /\ row.verdict = v /\ row.attempt = a
      /\ row.snap = attempts[a].snap /\ row.head = attempts[a].head
  BY <1>1 DEF Runs, AttemptRows
<1>3. runs' = Append(runs, row)
  OBVIOUS
<1> HIDE DEF row
<1>4. /\ runs' \in Seq(Runs) /\ Len(runs') = Len(runs) + 1 /\ runs'[Len(runs) + 1] = row
      /\ \A i \in DOMAIN runs : i \in DOMAIN runs' /\ runs'[i] = runs[i] /\ i < Len(runs) + 1
      /\ \A i \in DOMAIN runs' : i \in DOMAIN runs \/ i = Len(runs) + 1
      /\ Len(runs) + 1 \in DOMAIN runs' /\ Len(runs) \in Nat
  BY <1>1, <1>2, <1>3, AppendProperties, RunFacts DEF Typed
<1>5. /\ attempts' \in Seq(AttemptRows) /\ Newest' = Newest /\ Len(attempts') = Len(attempts)
      /\ DOMAIN attempts' = DOMAIN attempts
      /\ \A b \in DOMAIN attempts :
           /\ attempts'[b].snap = attempts[b].snap /\ attempts'[b].status = attempts[b].status
           /\ attempts'[b].head = attempts[b].head /\ attempts'[b].of = attempts[b].of
           /\ attempts'[b].evidence = attempts[b].evidence
           /\ \/ /\ attempts'[b].stage = attempts[b].stage
                 /\ attempts'[b].infrastructure = attempts[b].infrastructure
              \/ /\ b = a /\ attempts'[b].stage = "probe_head"
                 /\ state' # "PR_VALIDATED"
                 /\ attempts'[b].infrastructure => v = "INFRASTRUCTURE"
  <2>1. CASE UNCHANGED attempts
    BY <1>1, <2>1 DEF Newest, Typed
  <2>2. CASE /\ state' \in {"REMEDIATION_FAILED", "REMEDIATION_TERMINATION_PENDING"}
             /\ attempts' = Failed(a, "probe_head", infra)
             /\ infra => v = "INFRASTRUCTURE"
    <3> DEFINE r == [attempts[a] EXCEPT !.stage = "probe_head", !.infrastructure = infra]
    <3>1. /\ attempts' = [attempts EXCEPT ![a] = r] /\ r \in AttemptRows
          /\ r.snap = attempts[a].snap /\ r.status = attempts[a].status
          /\ r.head = attempts[a].head /\ r.of = attempts[a].of
          /\ r.evidence = attempts[a].evidence /\ r.stage = "probe_head"
          /\ r.infrastructure = infra
      BY <1>1, <2>2 DEF AttemptRows, Failed
    <3> HIDE DEF r
    <3>2. /\ attempts' \in Seq(AttemptRows) /\ Newest' = Newest /\ Len(attempts') = Len(attempts)
          /\ DOMAIN attempts' = DOMAIN attempts /\ attempts'[a] = r
          /\ \A b \in DOMAIN attempts : b # a => attempts'[b] = attempts[b]
      BY <1>1, <3>1, Written
    <3> QED
      BY <2>2, <3>1, <3>2
  <2> QED
    BY <2>1, <2>2
<1>6. Typed'
  BY <1>1, <1>4, <1>5 DEF Typed, Turns, REMEDIATION_PHASE_STATES
<1>7. Grows
  BY <1>4, <1>5 DEF Grows, Valid
<1>8. Open /\ (v = "INFRASTRUCTURE" => Open')
  BY <1>1, <1>2, <1>4 DEF Probes, Open
<1>9. (\A b \in DOMAIN attempts : Valid(b)' <=> Valid(b)) /\ ~NoneValid' /\ ~NoneValid
  BY <1>5 DEF Valid, NoneValid
<1>10. Sessions'
  <2>1. \A b \in DOMAIN attempts : ~Running(b)'
    BY <1>1, <1>5 DEF SomeRunning, Running
  <2> QED
    BY <1>1, <1>5, <2>1 DEF Sessions
<1>11. state' = "PR_VALIDATED" => Verified(a)'
  <2>1. ASSUME v = "MATCHED" PROVE Matched(a, "HEAD")'
    BY <1>2, <1>4, <1>5, <2>1 DEF Matched
  <2> QED
    BY <1>5, <1>9, <2>1 DEF Verified
<1>12. Deliveries'
  <2>1. ASSUME NEW b \in DOMAIN attempts', Valid(b)'
        PROVE  /\ attempts'[b].of = attempts'[b].head /\ attempts'[b].head # 0
               /\ \A c \in DOMAIN attempts' : c > b => attempts'[c].head = 0
    BY <1>1, <1>5, <1>9, <2>1 DEF Deliveries
  <2>2. state' = "PR_VALIDATED" => SomeVerified'
    BY <1>5, <1>11 DEF SomeVerified
  <2> QED
    BY <2>1, <2>2 DEF Deliveries, Undelivered, Behind
<1>13. Stages'
  <2> SUFFICES ASSUME NEW b \in DOMAIN attempts
               PROVE  /\ attempts'[b].stage = "ci" /\ attempts'[b].head # 0 => Verified(b)'
                      /\ attempts'[b].stage = "probe_head" /\ attempts'[b].infrastructure =>
                           Valid(b)' /\ Open' /\ state' # "PROBE_VALIDATING_HEAD"
    BY <1>5, <1>9 DEF Stages
  <2>1. attempts'[b].stage = "ci" /\ attempts'[b].head # 0 => Verified(b)'
    BY <1>1, <1>5, <1>7, Lasting DEF Stages
  <2>2. attempts'[b].stage = "probe_head" /\ attempts'[b].infrastructure =>
          b = a /\ v = "INFRASTRUCTURE"
    BY <1>1, <1>5 DEF Stages
  <2> QED
    BY <1>8, <1>9, <2>1, <2>2
<1>14. Probes'
  <2>1. \A b \in DOMAIN attempts' : IF attempts'[b].snap = 0 THEN decided' ELSE Reproduced(b)'
    BY <1>1, <1>5, <1>7, Lasting DEF Probes
  <2>2. HeadVerdictStands'
    <3> SUFFICES ASSUME NEW i \in DOMAIN runs', NEW k \in DOMAIN runs', i < k,
                        runs'[i].target = "HEAD", runs'[k].target = "HEAD"
                 PROVE  runs'[i].verdict = "INFRASTRUCTURE"
      BY DEF HeadVerdictStands
    <3>1. i \in DOMAIN runs
      BY <1>4
    <3> QED
      BY <1>4, <1>8, <3>1 DEF Open
  <2> QED
    BY <1>9, <2>1, <2>2 DEF Probes
<1>15. Unnoticed(l)
  BY DEF Unnoticed
<1>16. Desks'
  BY <1>6, <1>7, <1>15, TurnsDesks
<1> QED
  BY <1>4, <1>5, <1>6, <1>7, <1>10, <1>12, <1>13, <1>14, <1>16 DEF Kept, PipeInv, Rows, Fixed

LEMMA EndHeadStep ==
    ASSUME PipeInv, NEW l \in Loops, EndHead(l)
    PROVE  Kept
<1> DEFINE v == job[l].verdict
           row == [snap |-> attempts[job[l].attempt].snap, target |-> "HEAD",
                   head |-> attempts[job[l].attempt].head, verdict |-> v,
                   attempt |-> job[l].attempt]
<1>1. /\ Typed /\ job[l].attempt \in DOMAIN attempts /\ v \in Verdicts /\ Valid(job[l].attempt)
      /\ job[l].state = "PROBE_VALIDATING_HEAD"
      /\ UNCHANGED <<ci_status, policy, registered, snapshots, decided, pr>>
  BY NewestFacts DEF PipeInv, Typed, Jobs, Desks, Desk, EndHead, config
<1>2. CASE ~Fresh(l)
  <2>1. EndJob(l) /\ UNCHANGED <<state, why, attempts>> /\ UNCHANGED runs
    BY <1>2 DEF EndHead
  <2>2. Turns(l)
    BY <1>1, <2>1, EndJobTurns
  <2>3. Typed'
    BY <1>1, <2>1, <2>2, TypedAside DEF Typed, Aside
  <2> QED
    BY <1>1, <2>1, <2>2, <2>3, StateMoves
<1>3. CASE Fresh(l)
  <2>1. claim.by = l /\ state = "PROBE_VALIDATING_HEAD"
    BY <1>1, <1>3 DEF Fresh
  <2>2. CASE v = "MATCHED"
    <3>1. runs' = Append(runs, row) /\ MoveTo(l, "PR_VALIDATED") /\ UNCHANGED <<why, attempts>>
      BY <1>3, <2>2 DEF EndHead
    <3>2. Turns(l) /\ state' = "PR_VALIDATED" /\ why' \in {"none", "missing_probe", "other"}
      BY <1>1, <3>1, MoveToTurns DEF Typed, REMEDIATION_PHASE_STATES
    <3> QED
      BY <1>1, <2>1, <2>2, <3>1, <3>2, HeadRecorded
  <2>3. CASE v # "MATCHED" /\ Failable
    <3>1. PICK infra \in BOOLEAN :
            FailAt(l, job[l].attempt, "probe_head", infra) /\ (infra => v = "INFRASTRUCTURE")
      BY <1>3, <2>3 DEF EndHead
    <3>2. runs' = Append(runs, row)
      BY <1>3, <2>3 DEF EndHead
    <3>3. /\ EndJob(l) /\ state' = failed_state /\ why' = "other"
          /\ attempts' = Failed(job[l].attempt, "probe_head", infra)
      BY <2>3, <3>1 DEF FailAt, fail_case
    <3>4. Turns(l) /\ state' \in {"REMEDIATION_FAILED", "REMEDIATION_TERMINATION_PENDING"}
      BY <1>1, <3>3, EndJobTurns DEF failed_state
    <3> QED
      BY <1>1, <2>1, <3>1, <3>2, <3>3, <3>4, HeadRecorded
  <2>4. CASE v # "MATCHED" /\ ~Failable
    <3>1. fail_case(l, attempts) /\ UNCHANGED runs
      BY <1>3, <2>4 DEF EndHead, FailAt, fail_case
    <3> QED
      BY <1>1, <3>1, FailCase DEF Aside
  <2> QED
    BY <2>2, <2>3, <2>4
<1> QED
  BY <1>2, <1>3
-----------------------------------------------------------------------------
(***************************************************************************)
(* CI.                                                                      *)
(***************************************************************************)
\* Behind the probe at head, an attempt that has a head is the verified one.
LEMMA BehindHead ==
    ASSUME PipeInv, state \in Behind
    PROVE  /\ ~NoneValid /\ SomeVerified
           /\ \A a \in DOMAIN attempts : a = Newest /\ attempts[a].head # 0 => Verified(a)
<1>1. Typed /\ Deliveries /\ DOMAIN attempts = 1..Newest /\ Newest \in Nat
  BY NewestFacts DEF PipeInv, Rows
<1>2. PICK b \in DOMAIN attempts : Verified(b)
  BY <1>1 DEF Deliveries, SomeVerified
<1>3. ~NoneValid /\ SomeVerified
  BY <1>2 DEF NoneValid, Verified, SomeVerified
<1>4. ASSUME NEW a \in DOMAIN attempts, a = Newest, attempts[a].head # 0 PROVE a = b
  BY <1>1, <1>2, <1>4 DEF Deliveries, Verified
<1> QED
  BY <1>2, <1>3, <1>4

\* A step of a job that notes something on an attempt: its deadline, its checks, that CI
\* failed.
LEMMA Noted ==
    ASSUME PipeInv, NEW l \in Loops, Turns(l), Typed', UNCHANGED <<runs, decided>>,
           NEW a \in DOMAIN attempts, NEW r \in AttemptRows, attempts' = [attempts EXCEPT ![a] = r],
           r.snap = attempts[a].snap, r.head = attempts[a].head, r.of = attempts[a].of,
           r.evidence = attempts[a].evidence, r.status = attempts[a].status,
           \/ r.stage = attempts[a].stage /\ r.infrastructure = attempts[a].infrastructure
           \/ r.stage = "ci" /\ Verified(a),
           \/ state' = state /\ r.checks = attempts[a].checks
           \/ /\ state \in {"PR_VALIDATED", "CI_PENDING"}
              /\ state' \in {"CI_PENDING", "CI_PASSED", "CI_FAILED"}
              /\ state' = "CI_PASSED" => Verified(a) /\ Green(r.checks)
    PROVE  Kept
<1>1. Typed /\ Sessions /\ Deliveries /\ Stages
  BY DEF PipeInv, Rows
<1>2. /\ Newest' = Newest /\ DOMAIN attempts' = DOMAIN attempts /\ attempts'[a] = r
      /\ \A b \in DOMAIN attempts : b # a => attempts'[b] = attempts[b]
  BY <1>1, Written
<1>3. \A b \in DOMAIN attempts : attempts'[b].status = attempts[b].status /\ (Running(b)' <=> Running(b))
  BY <1>2 DEF Running
<1>4. \A b \in DOMAIN attempts : Running(b) => state' = state
  BY <1>1 DEF Sessions
<1>5. Alike
  BY <1>1, <1>2, <1>3, <1>4 DEF Alike, Sessions
<1>6. RunsAlike /\ Unnoticed(l) /\ (decided => decided')
  BY <1>2, <1>3 DEF RunsAlike, Unnoticed, Running
<1>7. Verified(a) => ~NoneValid
  BY DEF Verified, NoneValid
<1>8. Goes
  <2>1. CASE state' = state /\ r.checks = attempts[a].checks
    BY <1>2, <2>1 DEF Goes
  <2>2. CASE /\ state \in {"PR_VALIDATED", "CI_PENDING"}
             /\ state' \in {"CI_PENDING", "CI_PASSED", "CI_FAILED"}
             /\ state' = "CI_PASSED" => Verified(a) /\ Green(r.checks)
    <3>1. SomeVerified /\ Newest > 0
      BY <1>1, <2>2 DEF Deliveries, Behind, Sessions, PIPELINE_STATES
    <3>2. state' = "CI_PASSED" => Verified(a) /\ Clean(a)'
      <4>1. Green(r.checks) => Green(attempts'[a].checks)
        BY <1>2
      <4>2. Green(attempts'[a].checks) => Clean(a)'
        BY DEF Clean, Green
      <4> QED
        BY <2>2, <4>1, <4>2
    <3> QED
      BY <2>2, <3>1, <3>2 DEF Goes, Behind, Resting
  <2> QED
    BY <2>1, <2>2
<1>9. Marks
  <2>1. state' = "PROBE_VALIDATING_HEAD" => state = "PROBE_VALIDATING_HEAD"
    OBVIOUS
  <2> QED
    BY <1>1, <1>2, <1>7, <2>1 DEF Marks, Stages
<1>10. Rows' /\ Grows
  BY <1>5, <1>6, <1>8, <1>9, Moves
<1>11. Desks'
  BY <1>6, <1>10, TurnsDesks
<1> QED
  BY <1>2, <1>10, <1>11 DEF Kept, PipeInv, Fixed

LEMMA EnterCiStep ==
    ASSUME PipeInv, NEW l \in Loops, EnterCi(l)
    PROVE  Kept
<1>1. /\ Typed /\ state = "PR_VALIDATED" /\ Newest \in DOMAIN attempts
      /\ attempts[Newest] \in AttemptRows
  BY AtWork DEF EnterCi, PIPELINE_STATES
<1> DEFINE r == [attempts[Newest] EXCEPT !.deadline = "set"]
<1>2. /\ attempts' = [attempts EXCEPT ![Newest] = r] /\ ci_status' = "PENDING"
      /\ MoveTo(l, "CI_PENDING") /\ UNCHANGED why
      /\ UNCHANGED <<policy, registered, snapshots, decided, runs, pr>>
  BY DEF EnterCi, config, rows
<1>3. /\ r \in AttemptRows /\ r.snap = attempts[Newest].snap /\ r.head = attempts[Newest].head
      /\ r.of = attempts[Newest].of /\ r.evidence = attempts[Newest].evidence
      /\ r.status = attempts[Newest].status /\ r.stage = attempts[Newest].stage
      /\ r.infrastructure = attempts[Newest].infrastructure
  BY <1>1 DEF AttemptRows
<1> HIDE DEF r
<1>4. attempts' \in Seq(AttemptRows) /\ Len(attempts') = Len(attempts)
  BY <1>1, <1>2, <1>3, Written
<1>5. Turns(l) /\ state' = "CI_PENDING"
  BY <1>1, <1>2, MoveToTurns DEF REMEDIATION_PHASE_STATES
<1>6. Typed'
  BY <1>1, <1>2, <1>4, <1>5 DEF Typed, Turns, REMEDIATION_PHASE_STATES
<1> QED
  BY <1>1, <1>2, <1>3, <1>5, <1>6, Noted

LEMMA BeginPollStep ==
    ASSUME PipeInv, NEW l \in Loops, BeginPoll(l)
    PROVE  Kept
<1>1. /\ Typed /\ Desk(l) /\ job[l] \in Jobs /\ job[l].state = "CI_PENDING" /\ state = "CI_PENDING"
      /\ Newest \in Nat /\ Newest > 0 /\ Newest \in Attempts /\ Newest \in DOMAIN attempts
  BY AtWork DEF BeginPoll, PIPELINE_STATES
<1>2. UNCHANGED <<state, why, claim, attempts>> /\ Aside /\ attempts[Newest].head # 0
  BY DEF BeginPoll, Aside, config, rows
<1>3. Verified(Newest)
  BY <1>1, <1>2, BehindHead DEF Behind
<1>4. PICK late \in BOOLEAN :
        job' = [job EXCEPT ![l] = [job[l] EXCEPT !.pc = "poll", !.attempt = Newest, !.late = late]]
  <2>1. (attempts[Newest].deadline = "passed") \in BOOLEAN
    OBVIOUS
  <2>2. job' = [job EXCEPT ![l] = [job[l] EXCEPT !.pc = "poll", !.attempt = Newest,
                                                 !.late = attempts[Newest].deadline = "passed"]]
    BY DEF BeginPoll
  <2> QED
    BY <2>1, <2>2
<1> DEFINE j == [job[l] EXCEPT !.pc = "poll", !.attempt = Newest, !.late = late]
<1>5. /\ j \in Jobs /\ j.pc = "poll" /\ j.state = job[l].state /\ j.attempt = Newest
      /\ j.run = job[l].run
  BY <1>1 DEF Jobs, PCs
<1>6. job' = [job EXCEPT ![l] = j]
  BY <1>4
<1> HIDE DEF j
<1>7. job'[l] = j /\ Newest' = Newest /\ UNCHANGED <<runs, attempts>>
  BY <1>1, <1>2, <1>6 DEF Typed, Newest, Aside
<1>8. Newest \in 0..Newest /\ job[l].run \in 0..Len(runs)
  BY <1>1 DEF Desk
<1>9. Verified(job[l].attempt)'
  BY <1>3, <1>5, <1>7 DEF Verified, Valid, Matched
<1>10. Desk(l)'
  BY <1>1, <1>5, <1>7, <1>8, <1>9 DEF Desk
<1> QED
  BY <1>2, <1>5, <1>6, <1>10, Loads

LEMMA NoPollStep ==
    ASSUME PipeInv, NEW l \in Loops, NoPoll(l)
    PROVE  Kept
<1>1. /\ claim.by = l /\ Newest \in DOMAIN attempts /\ Aside /\ ~NoneValid
      /\ attempts[Newest].head = 0 /\ FailAt(l, Newest, "ci", FALSE)
  BY AtWork, BehindHead DEF NoPoll, PIPELINE_STATES, Behind, Aside, config, rows
<1> QED
  BY <1>1, FailedAt

LEMMA PollRefusedStep ==
    ASSUME PipeInv, NEW l \in Loops, PollRefused(l)
    PROVE  Kept
<1>1. /\ claim.by = l /\ Newest \in DOMAIN attempts /\ Aside /\ ~NoneValid
      /\ Verified(Newest) /\ FailAt(l, Newest, "ci", TRUE)
  BY AtWork, BehindHead DEF PollRefused, PIPELINE_STATES, Behind, Aside, config, rows
<1> QED
  BY <1>1, FailedAt

\* evaluate_checks() calls a commit PASSED only if it is green.
LEMMA PassedIsGreen ==
    ASSUME NEW seen \in Observations, evaluate_checks(seen) = "PASSED"
    PROVE  Green(seen)
<1> DEFINE reported == {c \in Checks : seen[c] # "none"}
           names == IF required_checks = {} THEN reported ELSE required_checks
           failed == {c \in names : seen[c] \in failing}
<1>1. /\ reported # {} /\ failed = {}
      /\ \A c \in names : seen[c] \notin {"none", "queued"}
  BY DEF evaluate_checks
<1>2. \A c \in Checks : seen[c] \in {"none", "queued", "success", "neutral", "failure"}
  BY DEF Observations
<1>3. CASE required_checks = {}
  BY <1>1, <1>2, <1>3 DEF Green, failing
<1>4. CASE required_checks # {}
  BY <1>1, <1>2, <1>4, ConstantsAssumption DEF Green, failing
<1> QED
  BY <1>3, <1>4

\* What a poll writes on the attempt.
LEMMA Polled ==
    ASSUME Typed, NEW a \in DOMAIN attempts, NEW r, attempts' = [attempts EXCEPT ![a] = r],
           NEW d \in {"none", "set", "passed"}, NEW seen \in Observations,
           \/ r = [attempts[a] EXCEPT !.deadline = d]
           \/ r = [attempts[a] EXCEPT !.checks = seen]
           \/ r = [attempts[a] EXCEPT !.stage = "ci", !.infrastructure = FALSE]
    PROVE  /\ r \in AttemptRows /\ r.snap = attempts[a].snap /\ r.head = attempts[a].head
           /\ r.of = attempts[a].of /\ r.evidence = attempts[a].evidence
           /\ r.status = attempts[a].status
           /\ \/ r.stage = attempts[a].stage /\ r.infrastructure = attempts[a].infrastructure
              \/ r.stage = "ci"
           /\ r = [attempts[a] EXCEPT !.deadline = d] =>
                /\ r.stage = attempts[a].stage /\ r.infrastructure = attempts[a].infrastructure
                /\ r.checks = attempts[a].checks
           /\ r = [attempts[a] EXCEPT !.checks = seen] => r.checks = seen
           /\ attempts' \in Seq(AttemptRows) /\ Len(attempts') = Len(attempts)
<1>1. attempts[a] \in AttemptRows
  BY NewestFacts
<1>2. r \in AttemptRows
  BY <1>1 DEF AttemptRows
<1>3. attempts' \in Seq(AttemptRows) /\ Len(attempts') = Len(attempts)
  BY <1>2, Written
<1> QED
  BY <1>1, <1>2, <1>3 DEF AttemptRows

LEMMA EndPollStep ==
    ASSUME PipeInv, NEW l \in Loops, EndPoll(l)
    PROVE  Kept
<1>1. PICK a \in DOMAIN attempts : a = job[l].attempt /\ Verified(a) /\ attempts[a] \in AttemptRows
  BY NewestFacts DEF PipeInv, Desks, Desk, EndPoll
<1>2. /\ Typed /\ UNCHANGED <<policy, registered, snapshots, decided, runs, pr>>
      /\ Fresh(l) => state = "CI_PENDING"
  BY DEF PipeInv, Desks, Desk, EndPoll, Fresh, config, rows
<1>3. PICK seen \in Observations :
        LET v == Overall(l, seen)
        IN  \/ /\ v \in {"PENDING", "ABSENT"}
               /\ ci_status' = v
               /\ attempts' = [attempts EXCEPT ![a].deadline = IF @ = "none" THEN "set" ELSE @]
               /\ EndJob(l)
               /\ UNCHANGED <<state, why>>
            \/ /\ v = "PASSED" /\ Fresh(l)
               /\ ci_status' = v
               /\ attempts' = [attempts EXCEPT ![a].checks = seen]
               /\ MoveTo(l, "CI_PASSED") /\ UNCHANGED why
            \/ /\ v \in {"FAILED", "TIMED_OUT"} /\ Fresh(l)
               /\ ci_status' = v
               /\ attempts' = Failed(a, "ci", FALSE)
               /\ MoveTo(l, "CI_FAILED") /\ why' = "other"
            \/ /\ v \notin {"PENDING", "ABSENT"} /\ ~Fresh(l)
               /\ EndJob(l)
               /\ UNCHANGED <<state, why, ci_status, attempts>>
  BY <1>1 DEF EndPoll
<1> DEFINE v == Overall(l, seen)
<1>4. CASE /\ v \in {"PENDING", "ABSENT"}
           /\ ci_status' = v
           /\ attempts' = [attempts EXCEPT ![a].deadline = IF @ = "none" THEN "set" ELSE @]
           /\ EndJob(l)
           /\ UNCHANGED <<state, why>>
  <2>1. PICK d \in {"none", "set", "passed"} : d = IF attempts[a].deadline = "none" THEN "set" ELSE attempts[a].deadline
    BY <1>1 DEF AttemptRows
  <2> DEFINE r == [attempts[a] EXCEPT !.deadline = d]
  <2>2. attempts' = [attempts EXCEPT ![a] = r]
    BY <1>4, <2>1
  <2>3. /\ r \in AttemptRows /\ r.snap = attempts[a].snap /\ r.head = attempts[a].head
        /\ r.of = attempts[a].of /\ r.evidence = attempts[a].evidence
        /\ r.status = attempts[a].status /\ r.stage = attempts[a].stage
        /\ r.infrastructure = attempts[a].infrastructure /\ r.checks = attempts[a].checks
        /\ attempts' \in Seq(AttemptRows) /\ Len(attempts') = Len(attempts)
    BY <1>2, <2>2, Polled
  <2> HIDE DEF r
  <2>4. Turns(l)
    BY <1>2, <1>4, EndJobTurns
  <2>5. Typed'
    BY <1>2, <1>4, <2>3, <2>4 DEF Typed, Turns
  <2> QED
    BY <1>2, <1>4, <2>2, <2>3, <2>4, <2>5, Noted
<1>5. CASE /\ v = "PASSED" /\ Fresh(l)
           /\ ci_status' = v
           /\ attempts' = [attempts EXCEPT ![a].checks = seen]
           /\ MoveTo(l, "CI_PASSED") /\ UNCHANGED why
  <2> DEFINE r == [attempts[a] EXCEPT !.checks = seen]
  <2>1. attempts' = [attempts EXCEPT ![a] = r]
    BY <1>5
  <2>2. /\ r \in AttemptRows /\ r.snap = attempts[a].snap /\ r.head = attempts[a].head
        /\ r.of = attempts[a].of /\ r.evidence = attempts[a].evidence
        /\ r.status = attempts[a].status /\ r.checks = seen
        /\ attempts' \in Seq(AttemptRows) /\ Len(attempts') = Len(attempts)
    BY <1>2, <2>1, Polled
  <2>3. r.stage = attempts[a].stage /\ r.infrastructure = attempts[a].infrastructure
    BY <1>1 DEF AttemptRows
  <2> HIDE DEF r
  <2>4. Turns(l) /\ state' = "CI_PASSED"
    BY <1>2, <1>5, MoveToTurns DEF REMEDIATION_PHASE_STATES
  <2>5. Typed'
    BY <1>2, <1>5, <2>2, <2>4 DEF Typed, Turns, REMEDIATION_PHASE_STATES
  <2>6. evaluate_checks(seen) = "PASSED"
    BY <1>5 DEF Overall
  <2>7. Green(r.checks)
    BY <2>2, <2>6, PassedIsGreen
  <2> QED
    BY <1>1, <1>2, <1>5, <2>1, <2>2, <2>3, <2>4, <2>5, <2>7, Noted
<1>6. CASE /\ v \in {"FAILED", "TIMED_OUT"} /\ Fresh(l)
           /\ ci_status' = v
           /\ attempts' = Failed(a, "ci", FALSE)
           /\ MoveTo(l, "CI_FAILED") /\ why' = "other"
  <2> DEFINE r == [attempts[a] EXCEPT !.stage = "ci", !.infrastructure = FALSE]
  <2>1. attempts' = [attempts EXCEPT ![a] = r]
    BY <1>6 DEF Failed
  <2>2. /\ r \in AttemptRows /\ r.snap = attempts[a].snap /\ r.head = attempts[a].head
        /\ r.of = attempts[a].of /\ r.evidence = attempts[a].evidence
        /\ r.status = attempts[a].status
        /\ attempts' \in Seq(AttemptRows) /\ Len(attempts') = Len(attempts)
    BY <1>2, <2>1, Polled
  <2>3. r.stage = "ci"
    BY <1>1 DEF AttemptRows
  <2> HIDE DEF r
  <2>4. Turns(l) /\ state' = "CI_FAILED"
    BY <1>2, <1>6, MoveToTurns DEF REMEDIATION_PHASE_STATES
  <2>5. Typed'
    BY <1>2, <1>6, <2>2, <2>4 DEF Typed, Turns, REMEDIATION_PHASE_STATES
  <2> QED
    BY <1>1, <1>2, <1>6, <2>1, <2>2, <2>3, <2>4, <2>5, Noted
<1>7. CASE EndJob(l) /\ UNCHANGED <<state, why, ci_status, attempts>>
  <2>1. Turns(l)
    BY <1>2, <1>7, EndJobTurns
  <2>2. Typed'
    BY <1>2, <1>7, <2>1 DEF Typed, Turns
  <2> QED
    BY <1>2, <1>7, <2>1, <2>2, StateMoves
<1> QED
  BY <1>3, <1>4, <1>5, <1>6, <1>7
-----------------------------------------------------------------------------
(***************************************************************************)
(* The clock and people.                                                    *)
(***************************************************************************)
\* A step outside the jobs that writes an attempt: its deadline passes, or a step that
\* failed may be run again.
LEMMA OutsideNoted ==
    ASSUME PipeInv, Typed', UNCHANGED <<runs, decided, job, claim>>,
           NEW a \in DOMAIN attempts, NEW r \in AttemptRows, attempts' = [attempts EXCEPT ![a] = r],
           r.snap = attempts[a].snap, r.head = attempts[a].head, r.of = attempts[a].of,
           r.evidence = attempts[a].evidence, r.status = attempts[a].status,
           r.checks = attempts[a].checks,
           \/ /\ r.stage = attempts[a].stage /\ r.infrastructure = attempts[a].infrastructure
              /\ state' = state
           \/ /\ r.stage = "none" /\ a = Newest /\ ~Active /\ attempts[a].head # 0
              /\ \/ state' = "CI_PENDING" /\ Verified(a)
                 \/ state' = "PROBE_VALIDATING_HEAD" /\ Valid(a) /\ Open
    PROVE  Kept
<1>1. /\ Typed /\ Sessions /\ Deliveries /\ Stages /\ Newest \in Nat /\ DOMAIN attempts = 1..Newest
      /\ Newest > 0
  BY NewestFacts DEF PipeInv, Rows
<1>2. /\ Newest' = Newest /\ DOMAIN attempts' = DOMAIN attempts /\ attempts'[a] = r
      /\ \A b \in DOMAIN attempts : b # a => attempts'[b] = attempts[b]
  BY <1>1, Written
<1>3. \A b \in DOMAIN attempts : /\ attempts'[b].status = attempts[b].status
                                 /\ attempts'[b].head = attempts[b].head
                                 /\ attempts'[b].checks = attempts[b].checks
                                 /\ (Running(b)' <=> Running(b))
  BY <1>2 DEF Running
<1>4. \A b \in DOMAIN attempts : Running(b) => state' = state
  BY DEF Active, Running
<1>5. Alike /\ RunsAlike /\ (decided => decided')
  BY <1>1, <1>2, <1>3, <1>4 DEF Alike, RunsAlike, Sessions
<1>6. Verified(a) => Valid(a) /\ SomeVerified
  BY DEF Verified, SomeVerified
<1>7. Valid(a) => ~NoneValid
  BY DEF NoneValid
<1>8. Goes
  BY <1>1, <1>3, <1>6, <1>7 DEF Goes, Behind
<1>9. \A b \in DOMAIN attempts :
        /\ b # a /\ attempts[b].stage = "probe_head" /\ attempts[b].infrastructure
        /\ a = Newest /\ attempts[a].head # 0
        => ~Valid(a)
  BY <1>1 DEF Stages, Deliveries
<1>10. Marks
  BY <1>1, <1>2, <1>9 DEF Marks, Stages
<1>11. Rows' /\ Grows
  BY <1>5, <1>8, <1>10, Moves
<1>12. Desks'
  BY <1>2, <1>3, <1>11, OutsideDesks
<1> QED
  BY <1>2, <1>11, <1>12 DEF Kept, PipeInv, Fixed

LEMMA DeadlinePassesStep ==
    ASSUME PipeInv, DeadlinePasses
    PROVE  Kept
<1>1. PICK a \in DOMAIN attempts : attempts' = [attempts EXCEPT ![a].deadline = "passed"]
  BY DEF DeadlinePasses
<1>2. Typed /\ attempts[a] \in AttemptRows
  BY NewestFacts DEF PipeInv
<1> DEFINE r == [attempts[a] EXCEPT !.deadline = "passed"]
<1>3. attempts' = [attempts EXCEPT ![a] = r]
  BY <1>1
<1>4. /\ r \in AttemptRows /\ r.snap = attempts[a].snap /\ r.head = attempts[a].head
      /\ r.of = attempts[a].of /\ r.evidence = attempts[a].evidence
      /\ r.status = attempts[a].status /\ r.stage = attempts[a].stage
      /\ r.infrastructure = attempts[a].infrastructure /\ r.checks = attempts[a].checks
  BY <1>2 DEF AttemptRows
<1> HIDE DEF r
<1>5. attempts' \in Seq(AttemptRows) /\ Len(attempts') = Len(attempts)
  BY <1>2, <1>3, <1>4, Written
<1>6. UNCHANGED <<state, why, ci_status, claim, policy, registered, snapshots, decided, runs, pr, job>>
  BY DEF DeadlinePasses, config, rows
<1>7. Typed'
  BY <1>2, <1>5, <1>6 DEF Typed
<1> QED
  BY <1>3, <1>4, <1>6, <1>7, OutsideNoted

LEMMA RecheckStep ==
    ASSUME PipeInv, RetryCi \/ RetryHeadProbe
    PROVE  Kept
<1>1. PICK s \in {"CI_PENDING", "PROBE_VALIDATING_HEAD"} :
        Recheck(IF s = "CI_PENDING" THEN "ci" ELSE "probe_head", s)
  BY DEF RetryCi, RetryHeadProbe
<1>2. /\ Typed /\ Stages /\ Newest \in Nat /\ Newest \in DOMAIN attempts
      /\ attempts[Newest] \in AttemptRows /\ attempts[Newest].head # 0 /\ ~Active
  BY <1>1, NewestFacts DEF PipeInv, Rows, Recheck
<1>3. CASE s = "CI_PENDING"
  <2> DEFINE r == [attempts[Newest] EXCEPT !.stage = "none", !.infrastructure = FALSE,
                                           !.deadline = "none"]
  <2>1. /\ attempts' = [attempts EXCEPT ![Newest] = r] /\ state' = "CI_PENDING" /\ why' = "none"
        /\ ci_status' = "none" /\ Rerunnable("ci")
        /\ UNCHANGED <<policy, registered, snapshots, decided, runs, pr, job, claim>>
    BY <1>1, <1>3 DEF Recheck, config, rows
  <2>2. /\ r \in AttemptRows /\ r.snap = attempts[Newest].snap /\ r.head = attempts[Newest].head
        /\ r.of = attempts[Newest].of /\ r.evidence = attempts[Newest].evidence
        /\ r.status = attempts[Newest].status /\ r.stage = "none"
        /\ r.checks = attempts[Newest].checks
    BY <1>2 DEF AttemptRows
  <2> HIDE DEF r
  <2>3. attempts' \in Seq(AttemptRows) /\ Len(attempts') = Len(attempts)
    BY <1>2, <2>1, <2>2, Written
  <2>4. Typed'
    BY <1>2, <2>1, <2>3 DEF Typed, REMEDIATION_PHASE_STATES
  <2>5. Verified(Newest)
    BY <1>2, <2>1 DEF Rerunnable, Stages
  <2> QED
    BY <1>2, <2>1, <2>2, <2>4, <2>5, OutsideNoted
<1>4. CASE s = "PROBE_VALIDATING_HEAD"
  <2> DEFINE r == [attempts[Newest] EXCEPT !.stage = "none", !.infrastructure = FALSE]
  <2>1. /\ attempts' = [attempts EXCEPT ![Newest] = r] /\ state' = "PROBE_VALIDATING_HEAD"
        /\ why' = "none" /\ ci_status' = ci_status /\ Rerunnable("probe_head")
        /\ UNCHANGED <<policy, registered, snapshots, decided, runs, pr, job, claim>>
    BY <1>1, <1>4 DEF Recheck, config, rows
  <2>2. /\ r \in AttemptRows /\ r.snap = attempts[Newest].snap /\ r.head = attempts[Newest].head
        /\ r.of = attempts[Newest].of /\ r.evidence = attempts[Newest].evidence
        /\ r.status = attempts[Newest].status /\ r.stage = "none"
        /\ r.checks = attempts[Newest].checks
    BY <1>2 DEF AttemptRows
  <2> HIDE DEF r
  <2>3. attempts' \in Seq(AttemptRows) /\ Len(attempts') = Len(attempts)
    BY <1>2, <2>1, <2>2, Written
  <2>4. Typed'
    BY <1>2, <2>1, <2>3 DEF Typed, REMEDIATION_PHASE_STATES
  <2>5. Valid(Newest) /\ Open
    BY <1>2, <2>1 DEF Rerunnable, Stages
  <2> QED
    BY <1>2, <2>1, <2>2, <2>4, <2>5, OutsideNoted
<1> QED
  BY <1>3, <1>4

LEMMA PeopleStep ==
    ASSUME PipeInv, Push \/ Reconfigure \/ RetryCase \/ CancelCase \/ RetryBaseProbe
    PROVE  Kept
<1>1. /\ Typed /\ UNCHANGED <<attempts, runs, job, decided, claim, ci_status, snapshots>>
      /\ why' \in {why, "none"}
  BY DEF PipeInv, Push, Reconfigure, RetryCase, CancelCase, RetryBaseProbe, config, rows
<1>2. /\ state' = state \/ state' \in {"REMEDIATION_APPROVED", "REMEDIATION_TERMINATION_PENDING",
                                       "REMEDIATION_CANCELLED", "PROBE_VALIDATING_BASE"}
      /\ \/ state' = state
         \/ MayRest(state')
         \/ state' \in Undelivered /\ NoneValid /\ ~SomeRunning /\ state' \notin PIPELINE_STATES
  <2>1. CASE Push \/ Reconfigure
    BY <2>1 DEF Push, Reconfigure
  <2>2. CASE RetryCase
    BY <2>2 DEF RetryCase, MayRest, Resting, SomeRunning, Running, Active
  <2>3. CASE CancelCase
    BY <2>3 DEF CancelCase, Active, MayRest, Resting, SomeRunning, Running
  <2>4. CASE RetryBaseProbe
    <3>1. NoneValid /\ ~SomeRunning
      BY <2>4 DEF RetryBaseProbe, PipeInv, Rows, Deliveries, Undelivered, Active, SomeRunning, Running
    <3> QED
      BY <2>4, <3>1 DEF RetryBaseProbe, Undelivered, PIPELINE_STATES
  <2> QED
    BY <2>1, <2>2, <2>3, <2>4
<1>3. policy' \in {"required", "if_available"} /\ registered' \in BOOLEAN
  <2>1. CASE Push \/ RetryCase \/ CancelCase \/ RetryBaseProbe
    BY <1>1, <2>1 DEF Typed, Push, RetryCase, CancelCase, RetryBaseProbe, config
  <2>2. CASE Reconfigure
    BY <1>1, <2>2 DEF Typed, Reconfigure
  <2> QED
    BY <2>1, <2>2
<1>4. pr' \in [Attempts -> Heads]
  <2>1. CASE Push
    <3>1. PICK a \in DOMAIN attempts : pr[a] < MaxHeads /\ pr' = [pr EXCEPT ![a] = @ + 1]
      BY <2>1 DEF Push
    <3>2. pr[a] + 1 \in Heads
      BY <1>1, <3>1, NewestFacts, ConstantsAssumption DEF Typed, Heads
    <3> QED
      BY <1>1, <3>1, <3>2 DEF Typed
  <2>2. CASE Reconfigure \/ RetryCase \/ CancelCase \/ RetryBaseProbe
    BY <1>1, <2>2 DEF Typed, Reconfigure, RetryCase, CancelCase, RetryBaseProbe
  <2> QED
    BY <2>1, <2>2
<1>5. Typed'
  BY <1>1, <1>2, <1>3, <1>4 DEF Typed, REMEDIATION_PHASE_STATES
<1> QED
  BY <1>1, <1>2, <1>5, Outside
-----------------------------------------------------------------------------
(***************************************************************************)
(* The invariant is inductive.                                              *)
(***************************************************************************)
LEMMA InitHolds ==
    ASSUME Init
    PROVE  PipeInv
<1>1. attempts = <<>> /\ runs = <<>> /\ DOMAIN attempts = {} /\ DOMAIN runs = {}
      /\ Newest = 0 /\ Len(runs) = 0
  BY DEF Init, Newest
<1>2. Typed
  <2>1. pr \in [Attempts -> Heads]
    BY ConstantsAssumption DEF Init, Heads
  <2>2. job \in [Loops -> Jobs] /\ claim \in Claims
    BY IdleType DEF Init, Claims
  <2>3. attempts \in Seq(AttemptRows) /\ Len(attempts) <= max_attempts_per_kind /\ runs \in Seq(Runs)
    BY <1>1, ConstantsAssumption DEF Newest
  <2>4. registered \in BOOLEAN /\ decided \in BOOLEAN
    BY DEF Init
  <2>5. snapshots \in 0..MaxSnapshots
    BY ConstantsAssumption DEF Init
  <2> QED
    BY <2>1, <2>2, <2>3, <2>4, <2>5 DEF Init, Typed, REMEDIATION_PHASE_STATES
<1>3. state = "REMEDIATION_APPROVED"
  BY DEF Init
<1>4. Rows
  BY <1>1, <1>3 DEF Rows, Sessions, Deliveries, Stages, Probes, HeadVerdictStands, NoneValid,
                    Undelivered, Behind, PIPELINE_STATES
<1>5. Desks
  <2> SUFFICES ASSUME NEW l \in Loops PROVE Desk(l)
    BY DEF Desks
  <2>1. job[l].pc = "idle" /\ job[l].attempt = 0 /\ job[l].run = 0
    BY IdleType DEF Init
  <2> QED
    BY <1>1, <2>1 DEF Desk
<1> QED
  BY <1>2, <1>4, <1>5 DEF PipeInv

LEMMA StepKeeps ==
    ASSUME PipeInv, NEW l \in Loops, Step(l)
    PROVE  Kept \/ Insert(l)
BY AbandonStep, ResumeStep, DispatchRefusedStep, DispatchStep, BeginBaseStep, RecordBaseStep,
   EndBaseStep, LoadContextStep, NoContextStep, SettlePreviousStep, SettleRefusedStep,
   InsertRefusedStep, AttachStep,
   SessionResumedStep, SessionEndsStep, SessionTerminatedStep, ValidateOutputStep,
   PrDiscoveredStep, ReadPullStep, NoPullStep, ValidatePullStep, BeginHeadStep, EndHeadStep,
   EnterCiStep, BeginPollStep, NoPollStep, EndPollStep
DEF Step

LEMMA NextKeeps ==
    ASSUME PipeInv, Next
    PROVE  Kept \/ \E l \in Loops : Insert(l)
BY StepKeeps, ClaimStep, PollRefusedStep, AbandonStep, JobRaisesStep, CrashStep,
   LeaseLapsesStep, DeadlinePassesStep, PeopleStep, RecheckStep
DEF Next, Operator

LEMMA StutterKeeps ==
    ASSUME PipeInv, UNCHANGED vars
    PROVE  PipeInv'
<1>1. UNCHANGED <<state, why, claim, attempts, ci_status, policy, registered, snapshots, decided,
                  runs, pr, job>>
  BY DEF vars
<1>2. Typed'
  BY <1>1 DEF PipeInv, Typed
<1> QED
  BY <1>1, <1>2, Outside DEF Kept

LEMMA Inductive ==
    ASSUME PipeInv, [Next]_vars
    PROVE  PipeInv'
<1>1. CASE Next
  BY <1>1, NextKeeps, InsertStep DEF Kept
<1>2. CASE UNCHANGED vars
  BY <1>2, StutterKeeps
<1> QED
  BY <1>1, <1>2

LEMMA Invariance == Spec => []PipeInv
<1>1. Init => PipeInv
  BY InitHolds
<1>2. PipeInv /\ [Next]_vars => PipeInv'
  BY Inductive
<1> QED
  BY <1>1, <1>2, PTL DEF Spec
-----------------------------------------------------------------------------
(***************************************************************************)
(* Loops that renew their lease in time: no lease lapses under a running    *)
(* job, so a loop that does anything has the claim.                         *)
(***************************************************************************)
Budgets == [faults : Nat, crashes : Nat, lapses : {0}, operator : Nat]

Punctual ==
    /\ budget \in Budgets
    /\ \A l \in Loops : job[l].pc # "idle" => claim.by = l /\ ~claim.lapsed
    /\ \A l \in Loops : job[l].pc = "start" /\ job[l].run # 0 => runs[job[l].run].attempt = 0
    /\ SpendIsAuthorised

LEMMA SpendKeeps ==
    ASSUME budget \in Budgets, NEW b \in {"faults", "crashes", "operator"}, Spend(b)
    PROVE  budget' \in Budgets
BY DEF Spend, Budgets

LEMMA NoLapse ==
    ASSUME budget \in Budgets
    PROVE  ~Spend("lapses")
BY DEF Spend, Budgets

\* A step of one loop's job that does not have it load what an attempt needs.
Alone(l) ==
    /\ \A n \in Loops : n # l => job'[n] = job[n]
    /\ claim' = claim \/ job'[l].pc = "idle"
    /\ job'[l].pc # "start" \/ job'[l] = job[l]

Sober(l) ==
    /\ job[l].pc # "idle" /\ Alone(l)
    /\ budget' = budget \/ Spend("faults") \/ Spend("crashes")

LEMMA EndsAlone ==
    ASSUME Typed, NEW l \in Loops, EndJob(l) \/ job' = [job EXCEPT ![l] = Idle]
    PROVE  Alone(l)
BY IdleType DEF Typed, Alone, EndJob

LEMMA MovesAlone ==
    ASSUME Typed, NEW l \in Loops, NEW s \in REMEDIATION_PHASE_STATES, MoveTo(l, s)
    PROVE  Alone(l)
<1>1. CASE EndJob(l)
  BY <1>1, EndsAlone
<1>2. CASE ~EndJob(l)
  <2> DEFINE j == [Idle EXCEPT !.pc = "run", !.state = s]
  <2>1. j.pc = "run"
    BY IdleType
  <2>2. job' = [job EXCEPT ![l] = j] /\ claim' = claim
    BY <1>2 DEF MoveTo
  <2> HIDE DEF j
  <2> QED
    BY <2>1, <2>2 DEF Typed, Alone
<1> QED
  BY <1>1, <1>2

LEMMA LoadsAlone ==
    ASSUME Typed, NEW l \in Loops, NEW j \in Jobs, j.pc # "start", job' = [job EXCEPT ![l] = j],
           UNCHANGED claim
    PROVE  Alone(l)
BY DEF Typed, Alone

\* Steps that end the job.
LEMMA EndingSteps ==
    ASSUME Typed, NEW l \in Loops,
           \/ Abandon(l) \/ Transient(l) \/ JobRaises(l) \/ Crash(l) \/ NoContext(l)
           \/ SettleRefused(l) \/ InsertRefused(l) \/ NoPull(l) \/ NoPoll(l) \/ PollRefused(l)
    PROVE  Sober(l)
<1>1. EndJob(l) \/ job' = [job EXCEPT ![l] = Idle]
  BY DEF Abandon, Transient, JobRaises, Crash, NoContext, SettleRefused, InsertRefused, NoPull,
         NoPoll, PollRefused, FailAt, fail_case
<1>2. job[l].pc # "idle" /\ (budget' = budget \/ Spend("faults") \/ Spend("crashes"))
  BY DEF Abandon, Transient, JobRaises, Crash, NoContext, SettleRefused, InsertRefused, NoPull,
         NoPoll, PollRefused, At
<1> QED
  BY <1>1, <1>2, EndsAlone DEF Sober

\* Steps that move the case.
LEMMA DispatchSteps ==
    ASSUME Typed, NEW l \in Loops,
           \/ Resume(l) \/ DispatchRefused(l) \/ Dispatch(l) \/ EndBase(l) \/ PrDiscovered(l)
           \/ EnterCi(l)
    PROVE  Sober(l)
<1>1. EndJob(l) \/ \E s \in REMEDIATION_PHASE_STATES : MoveTo(l, s)
  BY DEF Resume, DispatchRefused, Dispatch, EndBase, PrDiscovered, EnterCi, Block, fail_case,
         REMEDIATION_PHASE_STATES
<1>2. job[l].pc # "idle" /\ budget' = budget
  BY DEF Resume, DispatchRefused, Dispatch, EndBase, PrDiscovered, EnterCi, At
<1> QED
  BY <1>1, <1>2, EndsAlone, MovesAlone DEF Sober

LEMMA WithdrawingStep ==
    ASSUME Typed, NEW l \in Loops, SettlePrevious(l)
    PROVE  Sober(l)
BY DEF SettlePrevious, Sober, Alone

LEMMA SettlingSteps ==
    ASSUME Typed, NEW l \in Loops, SessionEnds(l) \/ SessionTerminated(l)
    PROVE  Sober(l)
<1>1. \E s \in REMEDIATION_PHASE_STATES : MoveTo(l, s)
  BY DEF SessionEnds, SessionTerminated, Settle, REMEDIATION_PHASE_STATES
<1>2. job[l].pc # "idle" /\ budget' = budget
  BY DEF SessionEnds, SessionTerminated, At
<1> QED
  BY <1>1, <1>2, MovesAlone DEF Sober

LEMMA VerifyingSteps ==
    ASSUME Typed, NEW l \in Loops,
           ValidateOutput(l) \/ ValidatePull(l) \/ EndHead(l) \/ EndPoll(l)
    PROVE  Sober(l)
<1>1. job[l].pc # "idle" /\ budget' = budget
  BY DEF ValidateOutput, ValidatePull, EndHead, EndPoll, At
<1>2. ASSUME ValidateOutput(l) PROVE EndJob(l) \/ \E s \in REMEDIATION_PHASE_STATES : MoveTo(l, s)
  BY <1>2 DEF ValidateOutput, FailAt, BlockAt, Block, fail_case, REMEDIATION_PHASE_STATES
<1>3. ASSUME ValidatePull(l) PROVE EndJob(l) \/ \E s \in REMEDIATION_PHASE_STATES : MoveTo(l, s)
  <2>1. ASSUME Corroborated(l) PROVE \E s \in REMEDIATION_PHASE_STATES : MoveTo(l, s)
    BY <2>1 DEF Corroborated, REMEDIATION_PHASE_STATES
  <2> QED
    BY <1>3, <2>1 DEF ValidatePull, FailAt, BlockAt, Block, fail_case, REMEDIATION_PHASE_STATES
<1>4. ASSUME EndHead(l) PROVE EndJob(l) \/ \E s \in REMEDIATION_PHASE_STATES : MoveTo(l, s)
  BY <1>4 DEF EndHead, FailAt, fail_case, REMEDIATION_PHASE_STATES
<1>5. ASSUME EndPoll(l) PROVE EndJob(l) \/ \E s \in REMEDIATION_PHASE_STATES : MoveTo(l, s)
  BY <1>5 DEF EndPoll, REMEDIATION_PHASE_STATES
<1> QED
  BY <1>1, <1>2, <1>3, <1>4, <1>5, EndsAlone, MovesAlone DEF Sober

\* Steps that go on with the job.
LEMMA AskingSteps ==
    ASSUME Typed, NEW l \in Loops, BeginBase(l) \/ BeginHead(l)
    PROVE  Sober(l)
<1>1. job[l].pc # "idle" /\ (budget' = budget \/ Spend("faults"))
  BY DEF BeginBase, BeginHead, Ask, At
<1>2. CASE EndJob(l)
  BY <1>1, <1>2, EndsAlone DEF Sober
<1>3. CASE ~EndJob(l)
  <2>1. PICK k \in Jobs, pc \in {"base", "head"}, v \in Verdicts :
          job' = [job EXCEPT ![l] = [k EXCEPT !.pc = pc, !.verdict = v]]
    <3>1. CASE BeginBase(l)
      <4>1. [job[l] EXCEPT !.snap = snapshots] \in Jobs
        BY DEF Typed, Jobs
      <4> QED
        BY <3>1, <4>1 DEF BeginBase, Ask
    <3>2. CASE BeginHead(l)
      <4>1. [job[l] EXCEPT !.attempt = Newest] \in Jobs
        <5>1. Newest \in Attempts \cup {0} /\ job[l] \in Jobs
          BY NewestFacts, ConstantsAssumption DEF Typed, Attempts
        <5> QED
          BY <5>1 DEF Jobs
      <4> QED
        BY <1>3, <3>2, <4>1 DEF BeginHead, Ask, FailAt, fail_case
    <3> QED
      BY <3>1, <3>2
  <2> DEFINE j == [k EXCEPT !.pc = pc, !.verdict = v]
  <2>2. j \in Jobs /\ j.pc # "start"
    BY DEF Jobs, PCs
  <2>3. UNCHANGED claim
    BY <1>3 DEF BeginBase, BeginHead, FailAt, fail_case
  <2> HIDE DEF j
  <2>4. job' = [job EXCEPT ![l] = j]
    BY <2>1 DEF j
  <2> QED
    BY <1>1, <2>2, <2>3, <2>4, LoadsAlone DEF Sober
<1> QED
  BY <1>2, <1>3

LEMMA ReadingSteps ==
    ASSUME Typed, NEW l \in Loops, RecordBase(l) \/ ReadPull(l) \/ BeginPoll(l)
    PROVE  Sober(l)
<1>1. job[l].pc # "idle" /\ budget' = budget /\ UNCHANGED claim
  BY DEF RecordBase, ReadPull, BeginPoll, At
<1>2. job[l] \in Jobs
  BY DEF Typed
<1>3. ASSUME RecordBase(l) PROVE Alone(l)
  <2> DEFINE j == [job[l] EXCEPT !.pc = "based"]
  <2>1. j \in Jobs /\ j.pc # "start" /\ job' = [job EXCEPT ![l] = j]
    BY <1>2, <1>3 DEF Jobs, PCs, RecordBase
  <2> QED
    BY <1>1, <2>1, LoadsAlone
<1>4. ASSUME ReadPull(l) \/ BeginPoll(l) PROVE Alone(l)
  <2>1. /\ \A n \in Loops : n # l => job'[n] = job[n]
        /\ job'[l].pc \in {"pull", "poll"}
    BY <1>2, <1>4 DEF ReadPull, BeginPoll, Typed, Jobs
  <2> QED
    BY <1>1, <2>1 DEF Alone
<1> QED
  BY <1>1, <1>3, <1>4 DEF Sober

LEMMA AttachingSteps ==
    ASSUME Typed, NEW l \in Loops, Attach(l) \/ SessionResumed(l)
    PROVE  Sober(l)
<1>1. job[l].pc # "idle" /\ budget' = budget
  BY DEF Attach, SessionResumed, At
<1>2. CASE EndJob(l)
  BY <1>1, <1>2, EndsAlone DEF Sober
<1>3. CASE \E s \in REMEDIATION_PHASE_STATES : MoveTo(l, s)
  BY <1>1, <1>3, MovesAlone DEF Sober
<1>4. ASSUME NEW a, job' = [job EXCEPT ![l] = [Idle EXCEPT !.pc = "session",
                              !.state = "REMEDIATING", !.attempt = a]], UNCHANGED claim
      PROVE  Sober(l)
  <2> DEFINE j == [Idle EXCEPT !.pc = "session", !.state = "REMEDIATING", !.attempt = a]
  <2>1. j.pc = "session"
    BY DEF Idle
  <2>2. job' = [job EXCEPT ![l] = j]
    BY <1>4
  <2> HIDE DEF j
  <2> QED
    BY <1>1, <1>4, <2>1, <2>2 DEF Sober, Alone, Typed
<1>5. CASE job' = [job EXCEPT ![l].pc = "session", ![l].attempt = Newest] /\ UNCHANGED claim
  <2>1. job[l] \in Jobs
    BY DEF Typed
  <2>2. (\A n \in Loops : n # l => job'[n] = job[n]) /\ job'[l].pc = "session"
    BY <1>5, <2>1 DEF Typed, Jobs
  <2> QED
    BY <1>1, <1>5, <2>2 DEF Sober, Alone
<1>6. ASSUME NEW a, NEW status, NEW s \in REMEDIATION_PHASE_STATES, Settle(l, a, status, s)
      PROVE  Sober(l)
  BY <1>3, <1>6 DEF Settle
<1>7. ASSUME NEW a, AttachTo(l, a)
      PROVE  Sober(l)
  BY <1>2, <1>4, <1>7 DEF AttachTo
<1>8. "REMEDIATION_FAILED" \in REMEDIATION_PHASE_STATES
      /\ "REMEDIATION_HUMAN_BLOCKED" \in REMEDIATION_PHASE_STATES
  BY DEF REMEDIATION_PHASE_STATES
<1>9. ASSUME Attach(l) PROVE Sober(l)
  BY <1>2, <1>6, <1>7, <1>8, <1>9 DEF Attach
<1>10. ASSUME SessionResumed(l) PROVE Sober(l)
  BY <1>5, <1>6, <1>7, <1>8, <1>10 DEF SessionResumed
<1> QED
  BY <1>9, <1>10

\* What authorised an attempt stays on record.
LEMMA AuthorisedKept ==
    ASSUME PipeInv, Kept, SpendIsAuthorised
    PROVE  SpendIsAuthorised'
<1> SUFFICES ASSUME NEW a \in DOMAIN attempts
             PROVE  IF attempts'[a].snap = 0 THEN decided' ELSE Matched(a, "BASE")'
  BY DEF SpendIsAuthorised, Kept, Fixed
<1>1. attempts'[a].snap = attempts[a].snap /\ (decided => decided')
  BY DEF Kept, Grows
<1>2. ASSUME Matched(a, "BASE") PROVE Matched(a, "BASE")'
  BY <1>1, <1>2 DEF Matched, Kept, Fixed
<1> QED
  BY <1>1, <1>2 DEF SpendIsAuthorised

\* A run a job has loaded stays as it was loaded.
LEMMA RunKept ==
    ASSUME PipeInv, Kept, NEW l \in Loops, job[l].run # 0
    PROVE  runs'[job[l].run] = runs[job[l].run]
<1>1. job[l].run \in DOMAIN runs
  BY RunFacts DEF PipeInv, Desks, Desk
<1> QED
  BY <1>1 DEF Kept, Fixed

LEMMA SoberPunctual ==
    ASSUME PipeInv, Punctual, NEW l \in Loops, Sober(l), Kept
    PROVE  Punctual'
<1>1. budget' \in Budgets
  BY SpendKeeps DEF Sober, Punctual
<1>2. \A m \in Loops : job'[m].pc # "idle" => claim'.by = m /\ ~claim'.lapsed
  BY DEF Sober, Alone, Punctual
<1>3. ASSUME NEW m \in Loops, job'[m].pc = "start", job'[m].run # 0
      PROVE  runs'[job'[m].run].attempt = 0
  <2>1. job'[m] = job[m]
    BY <1>3 DEF Sober, Alone
  <2> QED
    BY <1>3, <2>1, RunKept DEF Punctual
<1>4. SpendIsAuthorised'
  BY AuthorisedKept DEF Punctual
<1> QED
  BY <1>1, <1>2, <1>3, <1>4 DEF Punctual

\* The run that is loaded belongs to nobody, ...
LEMMA LoadContextPunctual ==
    ASSUME PipeInv, Punctual, NEW l \in Loops, LoadContext(l)
    PROVE  Punctual'
<1>1. Typed /\ job[l] \in Jobs /\ job[l].pc # "idle" /\ HasContext
  BY DEF PipeInv, Typed, LoadContext, Starts
<1>2. UNCHANGED <<budget, claim, runs>>
  BY DEF LoadContext, rows
<1>3. PICK i \in Nat : /\ job' = [job EXCEPT ![l].pc = "start", ![l].run = i]
                       /\ i # 0 => runs[i].attempt = 0
  <2>1. CASE snapshots = 0
    BY <2>1 DEF LoadContext
  <2>2. CASE snapshots # 0
    <3>1. snapshots > 0 /\ Authorising # {}
      BY <1>1, <2>2, ConstantsAssumption DEF HasContext, Typed
    <3>2. PICK i \in Authorising : i = CHOOSE k \in Authorising : \A j \in Authorising : j <= k
      BY <1>1, <3>1, NewestRun
    <3>3. job' = [job EXCEPT ![l].pc = "start", ![l].run = i]
      BY <2>2, <3>2 DEF LoadContext
    <3>4. i \in Nat /\ runs[i].attempt = 0
      BY <1>1, RunFacts DEF Authorising, Unclaimed
    <3> QED
      BY <3>3, <3>4
  <2> QED
    BY <2>1, <2>2
<1>4. \A m \in Loops : m # l => job'[m] = job[m]
  BY <1>1, <1>3 DEF Typed
<1>5. job'[l].run = i
  BY <1>1, <1>3 DEF Typed, Jobs
<1>6. \A m \in Loops : job'[m].pc # "idle" => claim'.by = m /\ ~claim'.lapsed
  BY <1>1, <1>2, <1>4 DEF Punctual
<1>7. \A m \in Loops : job'[m].pc = "start" /\ job'[m].run # 0 => runs'[job'[m].run].attempt = 0
  BY <1>2, <1>3, <1>4, <1>5 DEF Punctual
<1>8. SpendIsAuthorised'
  BY LoadContextStep, AuthorisedKept DEF Punctual
<1> QED
  BY <1>2, <1>6, <1>7, <1>8 DEF Punctual

\* ... and still does when the attempt is inserted, for nobody else was at work.
LEMMA InsertPunctual ==
    ASSUME PipeInv, Punctual, NEW l \in Loops, Insert(l)
    PROVE  Punctual'
<1>1. Typed /\ Desk(l) /\ job[l] \in Jobs /\ job[l].pc = "start"
  BY DEF PipeInv, Typed, Desks, Insert
<1>2. UNCHANGED <<budget, claim, decided>>
  BY DEF Insert
<1>3. /\ \A m \in Loops : m # l => job'[m] = job[m]
      /\ job'[l].pc = "attach"
  BY <1>1 DEF Insert, Typed, Jobs
<1>4. \A m \in Loops : job'[m].pc # "idle" => claim'.by = m /\ ~claim'.lapsed
  BY <1>1, <1>2, <1>3 DEF Punctual
<1>5. \A m \in Loops : job'[m].pc = "start" => FALSE
  BY <1>1, <1>3 DEF Punctual
<1>6. PICK s \in 0..MaxSnapshots :
        /\ attempts' = Append(attempts, NewAttempt(s))
        /\ IF job[l].run = 0 THEN s = 0 ELSE s = runs[job[l].run].snap
  <2>1. job[l].run # 0 => runs[job[l].run].snap \in 0..MaxSnapshots
    BY <1>1, RunFacts DEF Desk, Runs
  <2>2. 0 \in 0..MaxSnapshots
    BY ConstantsAssumption
  <2> QED
    BY <2>1, <2>2 DEF Insert
<1>7. /\ DOMAIN attempts = 1..Newest /\ DOMAIN attempts' = 1..(Newest + 1) /\ Newest \in Nat
      /\ \A a \in DOMAIN attempts : attempts'[a] = attempts[a]
      /\ attempts'[Newest + 1].snap = s
  BY <1>1, <1>6, Inserted
<1>8. /\ DOMAIN runs' = DOMAIN runs
      /\ \A i \in DOMAIN runs :
           /\ runs'[i].snap = runs[i].snap /\ runs'[i].head = runs[i].head
           /\ runs'[i].target = runs[i].target /\ runs'[i].verdict = runs[i].verdict
           /\ i # job[l].run => runs'[i] = runs[i]
           /\ i = job[l].run => runs'[i].attempt = Newest + 1
  BY Relinked
<1>9. ASSUME NEW a \in DOMAIN attempts', a \in DOMAIN attempts
      PROVE  IF attempts'[a].snap = 0 THEN decided' ELSE Matched(a, "BASE")'
  <2>1. attempts'[a].snap = attempts[a].snap /\ a # 0
    BY <1>7, <1>9
  <2>2. ASSUME Matched(a, "BASE") PROVE Matched(a, "BASE")'
    <3>1. PICK i \in DOMAIN runs : /\ runs[i].attempt = a /\ runs[i].snap = attempts[a].snap
                                   /\ runs[i].target = "BASE" /\ runs[i].verdict = "MATCHED"
      BY <2>2 DEF Matched
    <3>2. i # job[l].run
      BY <1>1, <2>1, <3>1, RunFacts DEF Punctual
    <3> QED
      BY <1>8, <2>1, <3>1, <3>2 DEF Matched
  <2> QED
    BY <1>2, <1>9, <2>1, <2>2 DEF Punctual, SpendIsAuthorised
<1>10. ASSUME NEW a \in DOMAIN attempts', a = Newest + 1
       PROVE  IF attempts'[a].snap = 0 THEN decided' ELSE Matched(a, "BASE")'
  <2>1. CASE job[l].run = 0
    BY <1>1, <1>2, <1>6, <1>7, <1>10, <2>1 DEF Desk
  <2>2. CASE job[l].run # 0
    <3> DEFINE i == job[l].run
    <3>1. i \in DOMAIN runs /\ runs[i].target = "BASE" /\ runs[i].verdict = "MATCHED"
          /\ runs[i].snap # 0
      BY <1>1, <2>2, RunFacts DEF Desk
    <3>2. i \in DOMAIN runs' /\ runs'[i].attempt = a /\ runs'[i].snap = attempts'[a].snap
          /\ runs'[i].target = "BASE" /\ runs'[i].verdict = "MATCHED" /\ attempts'[a].snap # 0
      BY <1>6, <1>7, <1>8, <1>10, <2>2, <3>1
    <3> HIDE DEF i
    <3>3. Matched(a, "BASE")'
      BY <3>2 DEF Matched
    <3> QED
      BY <3>2, <3>3
  <2> QED
    BY <2>1, <2>2
<1>11. SpendIsAuthorised'
  <2>1. \A a \in DOMAIN attempts' : a \in DOMAIN attempts \/ a = Newest + 1
    BY <1>7
  <2> QED
    BY <1>9, <1>10, <2>1 DEF SpendIsAuthorised
<1> QED
  BY <1>2, <1>4, <1>5, <1>11 DEF Punctual

LEMMA ClaimPunctual ==
    ASSUME PipeInv, Punctual, NEW l \in Loops, Claim(l)
    PROVE  Punctual'
<1>1. /\ UNCHANGED <<budget, runs>> /\ claim'.by = l /\ ~claim'.lapsed
      /\ claim.by = "none" \/ claim.lapsed
  BY DEF Claim, rows
<1>2. \A m \in Loops : job[m].pc = "idle"
  BY <1>1, ConstantsAssumption DEF Punctual
<1> DEFINE j == [Idle EXCEPT !.pc = "run", !.state = state]
<1>3. j.pc = "run"
  BY IdleType DEF PipeInv, Typed
<1>4. job' = [job EXCEPT ![l] = j]
  BY DEF Claim
<1> HIDE DEF j
<1>5. \A m \in Loops : (m # l => job'[m].pc = "idle") /\ job'[m].pc # "start"
  BY <1>2, <1>3, <1>4 DEF PipeInv, Typed
<1>6. SpendIsAuthorised'
  BY ClaimStep, AuthorisedKept DEF Punctual
<1> QED
  BY <1>1, <1>5, <1>6 DEF Punctual

LEMMA LeaseLapsesPunctual ==
    ASSUME PipeInv, Punctual, LeaseLapses
    PROVE  Punctual'
<1>1. /\ UNCHANGED <<budget, runs, job>> /\ job[claim.by].pc = "idle"
      /\ \A m \in Loops : job[m].pc = "idle"
  BY NoLapse DEF LeaseLapses, rows, Punctual
<1>2. SpendIsAuthorised'
  BY LeaseLapsesStep, AuthorisedKept DEF Punctual
<1> QED
  BY <1>1, <1>2 DEF Punctual

LEMMA OutsidePunctual ==
    ASSUME PipeInv, Punctual, Kept, UNCHANGED <<job, claim>>,
           budget' = budget \/ Spend("operator")
    PROVE  Punctual'
<1>1. budget' \in Budgets
  BY SpendKeeps DEF Punctual
<1>2. SpendIsAuthorised'
  BY AuthorisedKept DEF Punctual
<1>3. \A m \in Loops : job[m].pc = "start" /\ job[m].run # 0 => runs'[job[m].run].attempt = 0
  BY RunKept DEF Punctual
<1> QED
  BY <1>1, <1>2, <1>3 DEF Punctual

LEMMA LoopPunctual ==
    ASSUME PipeInv, Punctual, NEW l \in Loops,
           Step(l) \/ PollRefused(l) \/ Transient(l) \/ JobRaises(l) \/ Crash(l)
    PROVE  Punctual'
<1>1. Kept \/ Insert(l)
  BY StepKeeps, PollRefusedStep, AbandonStep, JobRaisesStep, CrashStep
<1>2. Sober(l) \/ LoadContext(l) \/ Insert(l)
  BY EndingSteps, DispatchSteps, WithdrawingStep, SettlingSteps, VerifyingSteps, AskingSteps,
     ReadingSteps, AttachingSteps DEF Step, PipeInv
<1> QED
  BY <1>1, <1>2, SoberPunctual, LoadContextPunctual, InsertPunctual

LEMMA PunctualInductive ==
    ASSUME PipeInv, Punctual, [Next]_vars
    PROVE  Punctual'
<1>1. ASSUME LeaseLapses \/ DeadlinePasses \/ Push \/ Operator
      PROVE  Punctual'
  <2>1. ASSUME DeadlinePasses \/ Push \/ Operator
        PROVE  Kept /\ UNCHANGED <<job, claim>> /\ (budget' = budget \/ Spend("operator"))
    <3>1. Kept
      BY <2>1, DeadlinePassesStep, PeopleStep, RecheckStep DEF Operator
    <3>2. UNCHANGED <<job, claim>> /\ (budget' = budget \/ Spend("operator"))
      BY <2>1 DEF DeadlinePasses, Push, Operator, RetryCase, CancelCase, RetryCi,
                  RetryHeadProbe, RetryBaseProbe, Recheck, Reconfigure
    <3> QED
      BY <3>1, <3>2
  <2> QED
    BY <1>1, <2>1, LeaseLapsesPunctual, OutsidePunctual
<1>2. ASSUME UNCHANGED vars PROVE Punctual'
  <2>1. UNCHANGED <<budget, job, claim, runs, attempts, decided>>
    BY <1>2 DEF vars
  <2> QED
    BY <2>1 DEF Punctual, SpendIsAuthorised, Matched
<1> QED
  BY <1>1, <1>2, LoopPunctual, ClaimPunctual DEF Next

LEMMA PunctualInit ==
    ASSUME Init, MaxLapses = 0
    PROVE  Punctual
<1>1. budget \in Budgets
  BY ConstantsAssumption DEF Init, Budgets
<1>2. \A l \in Loops : job[l].pc = "idle"
  BY IdleType DEF Init
<1>3. SpendIsAuthorised
  BY DEF Init, SpendIsAuthorised
<1> QED
  BY <1>1, <1>2, <1>3 DEF Punctual
-----------------------------------------------------------------------------
(***************************************************************************)
(* What the runs check, for every instance.                                 *)
(***************************************************************************)
\* Every step of the pipeline keeps its variables within their types.
THEOREM TypeCorrect == Spec => []TypeOK
<1>1. PipeInv => TypeOK
  <2> SUFFICES ASSUME PipeInv PROVE TypeOK
    OBVIOUS
  <2>1. Typed /\ Desks
    BY DEF PipeInv
  <2>2. \A l \in Loops : job[l].pc \in PCs /\ job[l].attempt \in 0..Len(attempts)
                          /\ job[l].run \in DOMAIN runs \cup {0}
    BY <2>1, RunFacts DEF Typed, Jobs, Desks, Desk, Newest
  <2>3. \A i \in DOMAIN runs : runs[i] \in Runs
    BY <2>1, RunFacts
  <2>4. \A a \in DOMAIN attempts : attempts[a] \in AttemptRows
    BY <2>1, NewestFacts
  <2> QED
    BY <2>1, <2>2, <2>3, <2>4 DEF Typed, TypeOK, Claims
<1> QED
  BY <1>1, Invariance, PTL

\* When loops renew their leases in time (MaxLapses = 0), no session is paid for without
\* a BASE run of its own that reproduced the defect, however often the case is dispatched,
\* probed, crashed and retried (_matched_base_execution(), _create()).  With leases that
\* lapse under a running job it does not hold: the insert is not fenced.
THEOREM EverySessionAuthorised ==
    ASSUME MaxLapses = 0
    PROVE  Spec => []SpendIsAuthorised
<1>1. Init => Punctual
  BY PunctualInit
<1>2. PipeInv /\ Punctual /\ [Next]_vars => Punctual'
  BY PunctualInductive
<1>3. Punctual => SpendIsAuthorised
  BY DEF Punctual
<1> QED
  BY <1>1, <1>2, <1>3, Invariance, PTL DEF Spec

\* A case never gets a second verified pull request, whatever is retried, dispatched
\* again or inserted by a loop that lost its claim (_dispatch()).
THEOREM AtMostOneVerifiedPR == Spec => []OneVerifiedPR
<1>1. PipeInv => OneVerifiedPR
  <2> SUFFICES ASSUME PipeInv PROVE OneVerifiedPR
    OBVIOUS
  <2> DEFINE S == {a \in DOMAIN attempts : attempts[a].evidence = "valid"}
  <2>1. Typed /\ Deliveries /\ DOMAIN attempts = 1..Newest /\ Newest \in Nat
    BY NewestFacts DEF PipeInv, Rows
  <2>2. \A a, b \in S : a = b
    BY <2>1 DEF Deliveries, Valid
  <2>3. S = {} \/ \E a : S = {a}
    BY <2>2
  <2>4. Cardinality(S) <= 1
    <3>1. Cardinality(S) = 0 \/ Cardinality(S) = 1
      BY <2>3, FS_EmptySet, FS_Singleton
    <3> QED
      BY <3>1
  <2> QED
    BY <2>4 DEF OneVerifiedPR
<1> QED
  BY <1>1, Invariance, PTL

\* CI_PASSED is the end of an unbroken chain of evidence about one commit, lapsed claims
\* and the attempts of stale loops included: the head the session named, GitHub had, the
\* probe passed at and CI was green for.
THEOREM EveryPassEarned == Spec => []PassedIsEarned
<1>1. PipeInv => PassedIsEarned
  <2> SUFFICES ASSUME PipeInv, state = "CI_PASSED" PROVE PassedIsEarned
    BY DEF PassedIsEarned
  <2>1. Deliveries /\ Probes
    BY DEF PipeInv, Rows
  <2>2. PICK a \in DOMAIN attempts : Verified(a) /\ Clean(a)
    BY <2>1 DEF Deliveries
  <2>3. attempts[a].head # 0 /\ attempts[a].evidence = "valid" /\ attempts[a].of = attempts[a].head
    BY <2>1, <2>2 DEF Deliveries, Verified, Valid
  <2>4. IF attempts[a].snap = 0 THEN decided ELSE Reproduced(a) /\ Matched(a, "HEAD")
    BY <2>1, <2>2 DEF Probes, Verified
  <2> QED
    BY <2>2, <2>3, <2>4 DEF PassedIsEarned, Clean
<1> QED
  BY <1>1, Invariance, PTL

\* A verdict on record at head is the last one there: no retry, crash, lapsed claim or
\* second loop puts another run behind one that MATCHED or MISMATCHED.  It is about what
\* is recorded: an answer lost on its way is recorded as INFRASTRUCTURE and may be retried.
THEOREM HeadVerdictIsFinal == Spec => []HeadVerdictStands
<1>1. PipeInv => HeadVerdictStands
  BY DEF PipeInv, Rows, Probes
<1> QED
  BY <1>1, Invariance, PTL
=============================================================================
