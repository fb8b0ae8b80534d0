---------------------------- MODULE VerifierProofs ----------------------------
(***************************************************************************)
(* Theorems about Verifier for any set of cases and any number of handlers, *)
(* retries and faults: what probes start does not outlive them, a request   *)
(* id is run once, a verdict on the product is the outcome of a run of the  *)
(* approved probe under the parameters asked for, and a busy verifier is    *)
(* not taken for a broken one.                                              *)
(***************************************************************************)
EXTENDS Verifier, SequenceTheorems, TLAPS

Rows == [verdict : {"INFRASTRUCTURE", "PRODUCT"}, params : Params, answer : Answers]

HandlerRows ==
    [pc : {"free", "spec", "wait", "run", "done"}, id : Ids \cup {None},
     params : Params \cup {None}, live : BOOLEAN, on : Handlers \cup {None},
     answer : Answers]

TaskRows ==
    [pc : TaskPcs, outcome : Outcomes \cup Refusals \cup {"none"},
     version : Versions \cup {None}, clean : BOOLEAN]

Typed ==
    /\ rows \in [Cases -> Seq(Rows)]
    /\ wanted \in [Cases -> BOOLEAN]
    /\ settings \in Params
    /\ registry \in Versions
    /\ handler \in [Handlers -> HandlerRows]
    /\ done \in [Ids -> Answers]
    /\ inflight \in [Ids -> Handlers \cup {None}]
    /\ bound \in [Ids -> Params \cup {None}]
    /\ task \in [Handlers -> TaskRows]
    /\ slot \in Handlers \cup {None}
    /\ procs \subseteq Handlers \X ProcKinds
    /\ ran \in [Ids -> Nat]
    /\ retries \in 0 .. MaxRetries
    /\ faults \in 0 .. MaxFaults
-----------------------------------------------------------------------------
(***************************************************************************)
(* The executor.                                                            *)
(***************************************************************************)
Running == {"prepare", "execute", "cleanup", "sweep"}

\* The slot is held by the one task that runs, and every process is that task's; what is
\* left of it shrinks as the task comes to its end.
Slots ==
    /\ \A h \in Handlers : task[h].pc \in Running <=> slot = h
    /\ \A p \in procs : p[1] = slot
    /\ \A h \in Handlers :
         /\ task[h].pc \in {"prepare", "cleanup", "sweep"} => <<h, "main">> \notin procs
         /\ task[h].pc = "sweep" => <<h, "marked">> \notin procs

\* A task runs the approved probe, no sweep of another run hits it, and it has an outcome
\* when it has ended.
TaskOk(t) ==
    /\ t.clean
    /\ t.pc \in Running => t.version = "approved"
    /\ t.outcome = "exit" => t.version = "approved"
    /\ t.pc \in {"free", "spec", "prepare", "execute"} => t.outcome = "none"
    /\ t.pc \in {"cleanup", "sweep"} => t.outcome \in {"infra", "exit"}
    /\ t.pc = "done" => t.outcome \in {"infra", "exit", "busy"}

Tasks == \A h \in Handlers : TaskOk(task[h])
-----------------------------------------------------------------------------
(***************************************************************************)
(* The front.                                                               *)
(***************************************************************************)
\* The task has been given the slot, or has at least not been refused it.
Admitted(h) == task[h].pc # "spec" /\ task[h].outcome # "busy"

Working(h) == handler[h].pc \in {"spec", "run"}

\* At most one handler works on an id, and while it does the id has no result; the future
\* of an id is that of the handler at work, and who waits for it waits for an admitted run
\* under parameters of its own.
Futures ==
    /\ \A h \in Handlers :
         /\ handler[h].pc # "free" => handler[h].id \in Ids /\ handler[h].params \in Params
         /\ handler[h].pc = "spec" => task[h].pc = "free"
         /\ handler[h].pc = "run" => task[h].pc # "free" /\ inflight[handler[h].id] = h
         /\ Working(h) => /\ done[handler[h].id].outcome = "none"
                          /\ bound[handler[h].id] = handler[h].params
         /\ handler[h].pc = "wait" => /\ inflight[handler[h].id] # None
                                      /\ handler[h].on = inflight[handler[h].id]
                                      /\ bound[handler[h].id] = handler[h].params
                                      /\ Admitted(handler[h].on)
    /\ \A g, h \in Handlers : Working(g) /\ Working(h) /\ handler[g].id = handler[h].id => g = h
    /\ \A id \in Ids : inflight[id] # None =>
         handler[inflight[id]].pc = "run" /\ handler[inflight[id]].id = id

Genuine(a, params) ==
    a.outcome = "exit" => a.params = params /\ a.version = "approved" /\ a.clean

\* Results, stored and handed out, are genuine for the parameters they are bound to.
Results ==
    /\ \A id \in Ids : /\ done[id].outcome \in {"none", "infra", "exit"}
                       /\ Genuine(done[id], bound[id])
                       /\ done[id].outcome = "exit" => bound[id] # None
    /\ \A h \in Handlers : handler[h].pc = "done" =>
         /\ handler[h].answer.outcome \in {"infra", "exit", "busy"}
         /\ Genuine(handler[h].answer, handler[h].params)

\* An id has been run only if it has its result, or its run is under way.
Runs ==
    \A id \in Ids :
        /\ ran[id] <= 1
        /\ ran[id] # 0 => \/ done[id].outcome # "none"
                          \/ inflight[id] # None /\ Admitted(inflight[id])
-----------------------------------------------------------------------------
(***************************************************************************)
(* The worker.                                                              *)
(***************************************************************************)
\* A worker that listens asks for the next execution of a case that wants one, and is alone.
Listeners ==
    /\ \A h \in Handlers : handler[h].live =>
         /\ handler[h].pc # "free"
         /\ wanted[handler[h].id[1]]
         /\ handler[h].id[2] = Len(rows[handler[h].id[1]])
    /\ \A g, h \in Handlers :
         handler[g].live /\ handler[h].live /\ handler[g].id[1] = handler[h].id[1] => g = h

\* What is recorded, and how much: a retry pays for every row but the first.
Recorded ==
    \A c \in Cases :
        /\ \A i \in DOMAIN rows[c] :
             /\ rows[c][i].answer.outcome \in {"infra", "exit"}
             /\ rows[c][i].verdict = VerdictOf(rows[c][i].answer)
             /\ Genuine(rows[c][i].answer, rows[c][i].params)
        /\ Len(rows[c]) <= retries + 1
        /\ wanted[c] => Len(rows[c]) <= retries

\* The inductive invariant.
VerifierInv ==
    Typed /\ Slots /\ Tasks /\ Futures /\ Results /\ Runs /\ Listeners /\ Recorded
-----------------------------------------------------------------------------
(***************************************************************************)
(* The executor's steps.                                                    *)
(***************************************************************************)
\* A task that does not run becomes another that does not run.
LEMMA TaskSet ==
    ASSUME Typed, Slots, Tasks, NEW h \in Handlers, NEW t \in TaskRows, TaskOk(t),
           t.pc \notin Running, task[h].pc \notin Running,
           task' = [task EXCEPT ![h] = t], UNCHANGED <<slot, procs>>
    PROVE  Slots' /\ Tasks' /\ task' \in [Handlers -> TaskRows]
<1>1. task' \in [Handlers -> TaskRows] /\ task'[h] = t
      /\ \A g \in Handlers : g # h => task'[g] = task[g]
  BY DEF Typed
<1>2. Tasks'
  BY <1>1 DEF Tasks
<1>3. Slots'
  BY <1>1 DEF Slots, Running
<1> QED
  BY <1>1, <1>2, <1>3

LEMMA FreeTaskOk == FreeTask \in TaskRows /\ TaskOk(FreeTask) /\ FreeTask.pc = "free"
BY DEF FreeTask, TaskRows, TaskOk, TaskPcs, Running

\* The one task that runs makes a step of its own.
LEMMA RunSet ==
    ASSUME Typed, Slots, Tasks, NEW h \in Handlers, NEW t \in TaskRows, TaskOk(t),
           t.pc \in Running, task[h].pc \in Running,
           task' = [task EXCEPT ![h] = t], UNCHANGED slot,
           procs' \subseteq procs \cup {<<h, "main">>, <<h, "marked">>, <<h, "escaped">>},
           t.pc # "execute" => <<h, "main">> \notin procs',
           t.pc = "sweep" => <<h, "marked">> \notin procs'
    PROVE  Slots' /\ Tasks' /\ task' \in [Handlers -> TaskRows]
           /\ procs' \subseteq Handlers \X ProcKinds
<1>1. task' \in [Handlers -> TaskRows] /\ task'[h] = t
      /\ \A g \in Handlers : g # h => task'[g] = task[g]
  BY DEF Typed
<1>2. slot = h /\ \A g \in Handlers : task[g].pc \in Running <=> slot = g
  BY DEF Slots
<1>3. procs' \subseteq Handlers \X ProcKinds
  BY DEF Typed, ProcKinds
<1>4. \A p \in procs' : p[1] = slot
  BY <1>2 DEF Slots
<1>5. Tasks'
  BY <1>1 DEF Tasks
<1>6. \A g \in Handlers : task'[g].pc \in Running <=> slot' = g
  BY <1>1, <1>2
<1>7. \A g \in Handlers :
        /\ task'[g].pc \in {"prepare", "cleanup", "sweep"} => <<g, "main">> \notin procs'
        /\ task'[g].pc = "sweep" => <<g, "marked">> \notin procs'
  <2> SUFFICES ASSUME NEW g \in Handlers, task'[g].pc \in {"prepare", "cleanup", "sweep"}
               PROVE  /\ <<g, "main">> \notin procs'
                      /\ task'[g].pc = "sweep" => <<g, "marked">> \notin procs'
    OBVIOUS
  <2>1. g = h
    BY <1>2, <1>6 DEF Running
  <2> QED
    BY <1>1, <2>1
<1> QED
  BY <1>1, <1>3, <1>4, <1>5, <1>6, <1>7 DEF Slots
-----------------------------------------------------------------------------
(***************************************************************************)
(* What a step leaves alone.                                                *)
(***************************************************************************)
\* A step of the executor takes a task on, and gives nobody back.
Advances(h) ==
    /\ task[h].pc = "free" => task'[h].pc = "free"
    /\ handler[h].pc = "run" /\ task[h].pc # "free" => task'[h].pc # "free"
    /\ Admitted(h) => Admitted(h)'

LEMMA FrontKept ==
    ASSUME Typed, Futures, Results, UNCHANGED frontVars, \A h \in Handlers : Advances(h)
    PROVE  Futures' /\ Results'
<1>1. UNCHANGED <<handler, done, inflight, bound>>
  BY DEF frontVars
<1>2. Results'
  BY <1>1 DEF Results, Genuine
<1>3. \A h \in Handlers : handler[h].pc = "wait" => Admitted(handler[h].on)'
  <2> SUFFICES ASSUME NEW h \in Handlers, handler[h].pc = "wait" PROVE Admitted(handler[h].on)'
    OBVIOUS
  <2>1. PICK g \in Handlers : g = handler[h].on
    BY DEF Futures, Typed, HandlerRows
  <2>2. Admitted(g)'
    BY <2>1 DEF Futures, Advances
  <2> QED
    BY <1>1, <2>1, <2>2 DEF Admitted
<1>4. Futures'
  BY <1>1, <1>3 DEF Futures, Working, Advances
<1> QED
  BY <1>2, <1>4

LEMMA RunsKept ==
    ASSUME Typed, Runs, UNCHANGED <<inflight, done, ran>>, \A h \in Handlers : Advances(h)
    PROVE  Runs'
<1> SUFFICES ASSUME NEW id \in Ids
             PROVE  (ran[id] <= 1 /\ (ran[id] # 0 =>
                       \/ done[id].outcome # "none"
                       \/ inflight[id] # None /\ Admitted(inflight[id])))'
  BY DEF Runs
<1>1. CASE inflight[id] = None
  BY <1>1 DEF Runs
<1>2. CASE inflight[id] # None
  <2>1. PICK g \in Handlers : g = inflight[id]
    BY <1>2 DEF Typed
  <2>2. Admitted(g) => Admitted(g)'
    BY DEF Advances
  <2> QED
    BY <2>1, <2>2 DEF Runs, Admitted
<1> QED
  BY <1>1, <1>2

LEMMA ClientKept ==
    ASSUME Typed, Listeners, Recorded, UNCHANGED <<rows, wanted, retries>>,
           \A h \in Handlers : handler'[h].live =>
             handler[h].live /\ handler'[h].id = handler[h].id /\ handler'[h].pc # "free"
    PROVE  Listeners' /\ Recorded'
<1>1. Recorded'
  BY DEF Recorded, VerdictOf, Genuine
<1>2. Listeners'
  BY DEF Listeners
<1> QED
  BY <1>1, <1>2
-----------------------------------------------------------------------------
(***************************************************************************)
(* A run, from the slot to the sweep.                                       *)
(***************************************************************************)
LEMMA RunGoesOn ==
    ASSUME VerifierInv, NEW h \in Handlers, NEW t \in TaskRows, TaskOk(t),
           t.pc \in Running, task[h].pc \in Running,
           task' = [task EXCEPT ![h] = t], UNCHANGED <<clientVars, registry, frontVars, slot, ran>>,
           faults' \in 0 .. MaxFaults,
           procs' \subseteq procs \cup {<<h, "main">>, <<h, "marked">>, <<h, "escaped">>},
           t.pc # "execute" => <<h, "main">> \notin procs',
           t.pc = "sweep" => <<h, "marked">> \notin procs'
    PROVE  VerifierInv'
<1>1. Slots' /\ Tasks' /\ task' \in [Handlers -> TaskRows] /\ procs' \subseteq Handlers \X ProcKinds
  BY RunSet DEF VerifierInv
<1>2. \A g \in Handlers : Advances(g)
  BY DEF VerifierInv, Typed, Advances, Admitted, TaskOk, Running
<1>3. UNCHANGED <<handler, done, inflight, bound, rows, wanted, settings, retries, registry,
                  slot, ran>>
  BY DEF frontVars, clientVars
<1>4. Futures' /\ Results' /\ Runs'
  BY <1>2, <1>3, FrontKept, RunsKept DEF VerifierInv
<1>5. Listeners' /\ Recorded'
  BY <1>3, ClientKept DEF VerifierInv, Listeners
<1>6. Typed'
  BY <1>1, <1>3 DEF VerifierInv, Typed
<1> QED
  BY <1>1, <1>4, <1>5, <1>6 DEF VerifierInv

LEMMA FaultType ==
    ASSUME Typed, Fault
    PROVE  faults' \in 0 .. MaxFaults
BY VerifierAssumption DEF Typed, Fault

LEMMA PrepareStep ==
    ASSUME VerifierInv, NEW h \in Handlers, Prepare(h)
    PROVE  VerifierInv'
<1>1. /\ task[h].pc = "prepare" /\ task[h].pc \in Running /\ task[h] \in TaskRows
      /\ TaskOk(task[h]) /\ <<h, "main">> \notin procs
      /\ UNCHANGED <<clientVars, registry, frontVars, slot, ran>>
  BY DEF Prepare, VerifierInv, Typed, Tasks, Slots, Running
<1>2. CASE /\ task' = [task EXCEPT ![h].pc = "execute"]
           /\ procs' = procs \cup {<<h, "main">>} /\ UNCHANGED faults
  <2> DEFINE t == [task[h] EXCEPT !.pc = "execute"]
  <2>1. t \in TaskRows /\ TaskOk(t) /\ t.pc = "execute" /\ t.pc \in Running
    BY <1>1 DEF TaskRows, TaskPcs, TaskOk, Running
  <2>2. task' = [task EXCEPT ![h] = t] /\ faults' \in 0 .. MaxFaults
    BY <1>2 DEF VerifierInv, Typed
  <2> HIDE DEF t
  <2> QED
    BY <1>1, <1>2, <2>1, <2>2, RunGoesOn
<1>3. CASE Unprepared(h) /\ UNCHANGED procs
  <2> DEFINE t == [task[h] EXCEPT !.pc = "cleanup", !.outcome = "infra"]
  <2>1. t \in TaskRows /\ TaskOk(t) /\ t.pc = "cleanup" /\ t.pc \in Running
    BY <1>1 DEF TaskRows, TaskPcs, Outcomes, TaskOk, Running
  <2>2. task' = [task EXCEPT ![h] = t] /\ faults' \in 0 .. MaxFaults
    BY <1>3, FaultType DEF Unprepared, Conclude, VerifierInv, Typed
  <2> HIDE DEF t
  <2> QED
    BY <1>1, <1>3, <2>1, <2>2, RunGoesOn
<1> QED
  BY <1>2, <1>3 DEF Prepare

LEMMA ForkStep ==
    ASSUME VerifierInv, NEW h \in Handlers, Fork(h)
    PROVE  VerifierInv'
<1>1. PICK t : t = task[h]
  OBVIOUS
<1>2. /\ t.pc \in {"prepare", "execute"} /\ t.pc \in Running /\ t \in TaskRows /\ TaskOk(t)
      /\ t.pc = "prepare" => <<h, "main">> \notin procs
      /\ UNCHANGED <<clientVars, registry, frontVars, task, slot, ran, faults>>
  BY <1>1 DEF Fork, VerifierInv, Typed, Tasks, Slots, Running
<1>3. task' = [task EXCEPT ![h] = t] /\ faults' \in 0 .. MaxFaults
  BY <1>1, <1>2 DEF VerifierInv, Typed
<1>4. PICK kind \in {"marked", "escaped"} : procs' = procs \cup {<<h, kind>>}
  BY DEF Fork
<1> QED
  BY <1>1, <1>2, <1>3, <1>4, RunGoesOn

LEMMA ScriptStep ==
    ASSUME VerifierInv, NEW h \in Handlers, ScriptEnds(h) \/ ScriptTimeout(h)
    PROVE  VerifierInv'
<1> DEFINE t == [task[h] EXCEPT !.pc = "cleanup", !.outcome = "exit"]
<1>1. /\ task[h].pc = "execute" /\ task[h].pc \in Running /\ task[h] \in TaskRows
      /\ TaskOk(task[h]) /\ UNCHANGED <<clientVars, registry, frontVars, slot, ran, faults>>
  BY DEF ScriptEnds, ScriptTimeout, Overdue, VerifierInv, Typed, Tasks, Running
<1>2. t \in TaskRows /\ TaskOk(t) /\ t.pc = "cleanup" /\ t.pc \in Running
  BY <1>1 DEF TaskRows, TaskPcs, Outcomes, TaskOk, Running
<1>3. task' = [task EXCEPT ![h] = t] /\ faults' \in 0 .. MaxFaults
  BY <1>1 DEF ScriptEnds, ScriptTimeout, Conclude, VerifierInv, Typed
<1>4. procs' \subseteq procs /\ <<h, "main">> \notin procs'
  BY DEF ScriptEnds, ScriptTimeout
<1> HIDE DEF t
<1> QED
  BY <1>1, <1>2, <1>3, <1>4, RunGoesOn

LEMMA CleanupStep ==
    ASSUME VerifierInv, NEW h \in Handlers, Cleanup(h)
    PROVE  VerifierInv'
<1> DEFINE t == [task[h] EXCEPT !.pc = "sweep"]
<1>1. /\ task[h].pc = "cleanup" /\ task[h].pc \in Running /\ task[h] \in TaskRows
      /\ TaskOk(task[h]) /\ UNCHANGED <<clientVars, registry, frontVars, slot, ran, faults>>
      /\ <<h, "main">> \notin procs
  BY DEF Cleanup, VerifierInv, Typed, Tasks, Slots, Running
<1>2. t \in TaskRows /\ TaskOk(t) /\ t.pc = "sweep" /\ t.pc \in Running
  BY <1>1 DEF TaskRows, TaskPcs, TaskOk, Running
<1>3. task' = [task EXCEPT ![h] = t] /\ faults' \in 0 .. MaxFaults
  BY <1>1 DEF Cleanup, VerifierInv, Typed
<1>4. procs' \subseteq procs /\ <<h, "marked">> \notin procs'
  BY DEF Cleanup, Marked
<1> HIDE DEF t
<1> QED
  BY <1>1, <1>2, <1>3, <1>4, RunGoesOn

\* The response of a task that has ended.
LEMMA Responds ==
    ASSUME VerifierInv, NEW h \in Handlers, NEW o \in {"infra", "exit", "busy"},
           o = "exit" => task[h].version = "approved"
    PROVE  LET t == Respond(h, o)
           IN  /\ t \in TaskRows /\ TaskOk(t) /\ t.pc \in {"free", "done"}
               /\ handler[h].pc = "run" => t.pc = "done" /\ t.outcome = o
<1>1. task[h] \in TaskRows /\ TaskOk(task[h])
  BY DEF VerifierInv, Typed, Tasks
<1>2. CASE handler[h].pc = "run"
  <2> DEFINE t == [task[h] EXCEPT !.pc = "done", !.outcome = o]
  <2>1. t \in TaskRows /\ TaskOk(t) /\ t.pc = "done" /\ t.outcome = o
    BY <1>1 DEF TaskRows, TaskPcs, TaskOk, Running, Outcomes, Refusals
  <2> HIDE DEF t
  <2>2. Respond(h, o) = t
    BY <1>2 DEF Respond, t
  <2> QED
    BY <2>1, <2>2
<1>3. CASE handler[h].pc # "run"
  BY <1>3, FreeTaskOk DEF Respond
<1> QED
  BY <1>2, <1>3

\* The sweep kills the processes of its own run and of no other.
LEMMA SweepStep ==
    ASSUME VerifierInv, NEW h \in Handlers, Sweep(h)
    PROVE  VerifierInv'
<1>1. /\ task[h].pc = "sweep" /\ task[h].pc \in Running /\ TaskOk(task[h]) /\ Typed
      /\ UNCHANGED <<clientVars, registry, frontVars, ran, faults>>
  BY DEF Sweep, VerifierInv, Tasks, Running
<1>2. slot = h /\ slot' = None /\ procs' = {}
  BY <1>1 DEF Sweep, Strays, VerifierInv, Slots
<1>3. PICK t : t = Respond(h, task[h].outcome)
  OBVIOUS
<1>4. /\ t \in TaskRows /\ TaskOk(t) /\ t.pc \in {"free", "done"}
      /\ handler[h].pc = "run" => t.pc = "done"
      /\ t.outcome # "busy"
  <2>1. task[h].outcome \in {"infra", "exit"}
    BY <1>1 DEF TaskOk
  <2>2. /\ t \in TaskRows /\ TaskOk(t) /\ t.pc \in {"free", "done"}
        /\ handler[h].pc = "run" => t.pc = "done" /\ t.outcome = task[h].outcome
    BY <1>1, <1>3, <2>1, Responds DEF TaskOk
  <2>3. handler[h].pc # "run" => t = FreeTask
    BY <1>3 DEF Respond
  <2> QED
    BY <2>1, <2>2, <2>3 DEF FreeTask
<1>5. \A g \in Handlers : g # h => <<g, "main">> \notin procs
  BY <1>2 DEF VerifierInv, Slots
<1>6. \A g \in Handlers : g # h => task'[g] = task[g]
  <2> SUFFICES ASSUME NEW g \in Handlers, g # h PROVE task'[g] = task[g]
    OBVIOUS
  <2>1. task'[g] = [task[g] EXCEPT !.clean = @ /\ <<g, "main">> \notin Strays]
    BY DEF Sweep
  <2>2. task[g].clean = TRUE /\ task[g] \in TaskRows
    BY <1>1 DEF VerifierInv, Tasks, TaskOk, Typed, TaskRows
  <2>3. (task[g].clean /\ <<g, "main">> \notin Strays) = TRUE
    BY <1>5, <2>2 DEF Strays
  <2> QED
    BY <2>1, <2>2, <2>3 DEF TaskRows
<1>7. task'[h] = t
  BY <1>3 DEF Sweep
<1>8. task' \in [Handlers -> TaskRows]
  <2>1. task' = [g \in Handlers |-> task'[g]]
    BY DEF Sweep
  <2> QED
    BY <1>1, <1>4, <1>6, <1>7, <2>1 DEF Typed
<1>9. Tasks'
  BY <1>4, <1>6, <1>7 DEF VerifierInv, Tasks
<1>10. Slots'
  <2>1. \A g \in Handlers : task'[g].pc \notin Running
    BY <1>2, <1>4, <1>6, <1>7 DEF VerifierInv, Slots, Running
  <2> QED
    BY <1>2, <2>1, VerifierAssumption DEF Slots, Running
<1>11. \A g \in Handlers : Advances(g)
  BY <1>1, <1>4, <1>6, <1>7 DEF Advances, Admitted
<1>12. UNCHANGED <<handler, done, inflight, bound, rows, wanted, settings, retries>>
  BY <1>1 DEF frontVars, clientVars
<1>13. Futures' /\ Results' /\ Runs'
  BY <1>1, <1>11, <1>12, FrontKept, RunsKept DEF VerifierInv
<1>14. Listeners' /\ Recorded'
  BY <1>12, ClientKept DEF VerifierInv, Listeners
<1>15. Typed'
  BY <1>1, <1>2, <1>8, <1>12 DEF Typed
<1> QED
  BY <1>9, <1>10, <1>13, <1>14, <1>15 DEF VerifierInv

\* The test of the slot and its acquisition are one step: an id is run for the first time.
LEMMA AdmitStep ==
    ASSUME VerifierInv, NEW h \in Handlers, Admit(h)
    PROVE  VerifierInv'
<1>1. /\ task[h].pc = "spec" /\ task[h].pc \notin Running /\ TaskOk(task[h])
      /\ task[h] \in TaskRows /\ Typed
      /\ UNCHANGED <<clientVars, registry, frontVars, procs, faults>>
  BY DEF Admit, VerifierInv, Typed, Tasks, Running
<1>2. UNCHANGED <<handler, done, inflight, bound, rows, wanted, settings, retries, registry>>
  BY <1>1 DEF frontVars, clientVars
<1>3. Listeners' /\ Recorded'
  BY <1>2, ClientKept DEF VerifierInv, Listeners
<1>4. CASE ~Approved \/ slot # None
  <2>1. PICK o \in {"busy", "infra"} :
          task' = [task EXCEPT ![h] = Respond(h, o)] /\ UNCHANGED <<slot, ran>>
    BY <1>4 DEF Admit
  <2>2. PICK t : t = Respond(h, o)
    OBVIOUS
  <2>3. /\ t \in TaskRows /\ TaskOk(t) /\ t.pc \in {"free", "done"}
        /\ handler[h].pc = "run" => t.pc = "done"
    BY <2>2, Responds
  <2>4. Slots' /\ Tasks' /\ task' \in [Handlers -> TaskRows]
    BY <1>1, <2>1, <2>2, <2>3, TaskSet DEF VerifierInv, Running
  <2>5. \A g \in Handlers : Advances(g)
    BY <1>1, <2>1, <2>2, <2>3 DEF Typed, Advances, Admitted
  <2>6. Futures' /\ Results' /\ Runs'
    BY <1>1, <1>2, <2>1, <2>5, FrontKept, RunsKept DEF VerifierInv
  <2>7. Typed'
    BY <1>1, <1>2, <2>1, <2>4 DEF Typed
  <2> QED
    BY <1>3, <2>4, <2>6, <2>7 DEF VerifierInv
<1>5. CASE Approved /\ slot = None
  <2> DEFINE t == [task[h] EXCEPT !.pc = "prepare", !.version = registry]
  <2>1. /\ t \in TaskRows /\ TaskOk(t) /\ t.pc = "prepare" /\ t.pc \in Running
        /\ t.outcome = "none"
    BY <1>1, <1>5 DEF TaskRows, TaskPcs, TaskOk, Running, Approved, Versions
  <2>2. task' = [task EXCEPT ![h] = t] /\ slot' = h
    BY <1>1, <1>5 DEF Admit, Typed
  <2> HIDE DEF t
  <2>3. /\ task' \in [Handlers -> TaskRows] /\ task'[h] = t
        /\ \A g \in Handlers : g # h => task'[g] = task[g]
    BY <1>1, <2>1, <2>2 DEF Typed
  <2>4. procs = {} /\ \A g \in Handlers : task[g].pc \notin Running
    <3>1. \A g \in Handlers : g # None
      BY VerifierAssumption
    <3>2. \A p \in procs : p[1] \in Handlers
      BY <1>1 DEF Typed
    <3> QED
      BY <1>5, <3>1, <3>2 DEF VerifierInv, Slots
  <2>5. Slots' /\ Tasks'
    BY <1>1, <2>1, <2>2, <2>3, <2>4 DEF VerifierInv, Slots, Tasks
  <2>6. \A g \in Handlers : Advances(g)
    BY <1>1, <2>1, <2>3 DEF Advances, Admitted
  <2>7. Futures' /\ Results'
    BY <1>1, <2>6, FrontKept DEF VerifierInv
  <2>8. Runs' /\ ran' \in [Ids -> Nat]
    <3>1. CASE handler[h].pc # "run"
      <4>1. UNCHANGED ran
        BY <1>5, <3>1 DEF Admit
      <4> QED
        BY <1>1, <1>2, <2>6, <4>1, RunsKept DEF VerifierInv, Typed
    <3>2. CASE handler[h].pc = "run"
      <4>1. PICK i \in Ids : i = handler[h].id
        BY <3>2 DEF VerifierInv, Futures
      <4>2. inflight[i] = h /\ done[i].outcome = "none"
        BY <3>2, <4>1 DEF VerifierInv, Futures, Working
      <4>3. ran[i] = 0
        BY <1>1, <4>2 DEF VerifierInv, Runs, Admitted
      <4>4. ran' = [ran EXCEPT ![i] = Min({2, @ + 1})]
        BY <1>5, <3>2, <4>1 DEF Admit
      <4>5. Min({2, 1}) = 1
        <5>1. 1 \in {2, 1} /\ \A y \in {2, 1} : 1 =< y
          OBVIOUS
        <5>2. \A x \in {2, 1} : (\A y \in {2, 1} : x =< y) => x = 1
          OBVIOUS
        <5> QED
          BY <5>1, <5>2 DEF Min
      <4>6. ran' = [ran EXCEPT ![i] = 1]
        <5>1. {2, ran[i] + 1} = {2, 1}
          BY <4>3
        <5>2. Min({2, ran[i] + 1}) = 1
          BY <4>5, <5>1
        <5> HIDE DEF Min
        <5> QED
          BY <1>1, <4>4, <5>2 DEF Typed
      <4>7. ran'[i] = 1 /\ ran' \in [Ids -> Nat] /\ \A j \in Ids : j # i => ran'[j] = ran[j]
        BY <1>1, <4>6 DEF Typed
      <4>8. inflight'[i] # None /\ Admitted(inflight[i])'
        <5>1. Admitted(h)' /\ h # None
          BY <2>1, <2>3, VerifierAssumption DEF Admitted
        <5> QED
          BY <1>2, <4>2, <5>1 DEF Admitted
      <4>9. ASSUME NEW j \in Ids, j # i, ran[j] # 0
            PROVE  done'[j].outcome # "none" \/ (inflight'[j] # None /\ Admitted(inflight[j])')
        <5>1. CASE done[j].outcome # "none"
          BY <1>2, <5>1
        <5>2. CASE inflight[j] # None /\ Admitted(inflight[j])
          <6>1. PICK g \in Handlers : g = inflight[j]
            BY <1>1, <5>2 DEF Typed
          <6>2. Admitted(g)'
            BY <2>6, <5>2, <6>1 DEF Advances
          <6> QED
            BY <1>2, <5>2, <6>1, <6>2 DEF Admitted
        <5> QED
          BY <4>9, <5>1, <5>2 DEF VerifierInv, Runs
      <4> QED
        BY <4>7, <4>8, <4>9 DEF VerifierInv, Runs
    <3> QED
      BY <3>1, <3>2
  <2>9. Typed'
    BY <1>1, <1>2, <2>2, <2>3, <2>8 DEF Typed
  <2> QED
    BY <1>3, <2>5, <2>7, <2>8, <2>9 DEF VerifierInv
<1> QED
  BY <1>4, <1>5

LEMMA ExecutorRestartStep ==
    ASSUME VerifierInv, ExecutorRestart
    PROVE  VerifierInv'
<1>1. /\ Typed /\ slot' = None /\ procs' = {} /\ Fault
      /\ UNCHANGED <<clientVars, registry, frontVars, ran>>
  BY DEF ExecutorRestart, VerifierInv
<1>2. UNCHANGED <<handler, done, inflight, bound, rows, wanted, settings, retries, registry>>
  BY <1>1 DEF frontVars, clientVars
<1>3. \A h \in Handlers : /\ task'[h] \in TaskRows /\ TaskOk(task'[h])
                          /\ task'[h].pc \in {"free", "done"} /\ Advances(h)
  <2> SUFFICES ASSUME NEW h \in Handlers
               PROVE  /\ task'[h] \in TaskRows /\ TaskOk(task'[h])
                      /\ task'[h].pc \in {"free", "done"} /\ Advances(h)
    OBVIOUS
  <2>1. CASE task[h].pc \in {"free", "done"}
    <3>1. task'[h] = task[h]
      BY <2>1 DEF ExecutorRestart
    <3> QED
      BY <1>1, <2>1, <3>1 DEF VerifierInv, Typed, Tasks, Advances, Admitted
  <2>2. CASE task[h].pc \notin {"free", "done"}
    <3>1. task'[h] = Respond(h, "infra")
      BY <2>2 DEF ExecutorRestart
    <3>2. /\ task'[h] \in TaskRows /\ TaskOk(task'[h]) /\ task'[h].pc \in {"free", "done"}
          /\ handler[h].pc = "run" => task'[h].pc = "done" /\ task'[h].outcome = "infra"
      BY <3>1, Responds
    <3>3. handler[h].pc # "run" => task'[h].outcome = "none"
      BY <3>1 DEF Respond, FreeTask
    <3> QED
      BY <2>2, <3>2, <3>3 DEF Advances, Admitted
  <2> QED
    BY <2>1, <2>2
<1>4. task' \in [Handlers -> TaskRows]
  <2>1. task' = [h \in Handlers |-> task'[h]]
    BY DEF ExecutorRestart
  <2> QED
    BY <1>3, <2>1
<1>5. Slots' /\ Tasks'
  BY <1>1, <1>3, VerifierAssumption DEF Slots, Tasks, Running
<1>6. Futures' /\ Results' /\ Runs'
  BY <1>1, <1>2, <1>3, FrontKept, RunsKept DEF VerifierInv
<1>7. Listeners' /\ Recorded'
  BY <1>2, ClientKept DEF VerifierInv, Listeners
<1>8. Typed'
  BY <1>1, <1>2, <1>4, FaultType DEF Typed
<1> QED
  BY <1>5, <1>6, <1>7, <1>8 DEF VerifierInv

LEMMA RegistryChangesStep ==
    ASSUME VerifierInv, RegistryChanges
    PROVE  VerifierInv'
<1>1. /\ Typed /\ Fault /\ registry' \in Versions
      /\ UNCHANGED <<clientVars, frontVars, execVars>>
  BY DEF RegistryChanges, VerifierInv, Versions
<1>2. UNCHANGED <<handler, done, inflight, bound, rows, wanted, settings, retries,
                  task, slot, procs, ran>>
  BY <1>1 DEF frontVars, clientVars, execVars
<1>3. \A h \in Handlers : Advances(h)
  BY <1>2 DEF Advances, Admitted
<1>4. Slots' /\ Tasks'
  BY <1>2 DEF VerifierInv, Slots, Tasks
<1>5. Futures' /\ Results' /\ Runs'
  BY <1>1, <1>2, <1>3, FrontKept, RunsKept DEF VerifierInv
<1>6. Listeners' /\ Recorded'
  BY <1>2, ClientKept DEF VerifierInv, Listeners
<1>7. Typed'
  BY <1>1, <1>2, FaultType DEF Typed
<1> QED
  BY <1>4, <1>5, <1>6, <1>7 DEF VerifierInv
-----------------------------------------------------------------------------
(***************************************************************************)
(* The front's steps.                                                       *)
(***************************************************************************)
LEMMA NoRunType ==
    ASSUME NEW o \in Outcomes \cup Refusals \cup {"none"}
    PROVE  NoRun(o) \in Answers /\ NoRun(o).outcome = o
BY DEF NoRun, Answers

LEMMA AnsweredType ==
    ASSUME Typed, NEW h \in Handlers, NEW a \in Answers
    PROVE  /\ Answered(h, a) \in HandlerRows
           /\ Answered(h, a).pc = "done" /\ Answered(h, a).answer = a
           /\ Answered(h, a).id = handler[h].id /\ Answered(h, a).params = handler[h].params
           /\ Answered(h, a).live = handler[h].live
<1>1. handler[h] \in HandlerRows
  BY DEF Typed
<1> QED
  BY <1>1 DEF Answered, HandlerRows

\* The handler at work on an id answers, and so do those that wait for it: finish() and
\* abort().
LEMMA Resolved ==
    ASSUME VerifierInv, NEW h \in Handlers, handler[h].pc = "run", NEW a \in Answers,
           NEW v \in Answers, Resolve(h, a, v), UNCHANGED <<rows, wanted, retries, ran>>,
           a.outcome \in {"infra", "exit", "busy"}, Genuine(a, handler[h].params),
           NEW i \in Ids, i = handler[h].id,
           \A g \in Handlers : g # h => task'[g] = task[g],
           \A j \in Ids : j # i => done'[j] = done[j] /\ bound'[j] = bound[j],
           \/ v = a /\ a.outcome # "busy" /\ done'[i] = a /\ bound'[i] = bound[i]
           \/ ~Admitted(h) /\ done'[i] = done[i] /\ bound'[i] = None
    PROVE  /\ Futures' /\ Results' /\ Runs' /\ Listeners' /\ Recorded'
           /\ handler' \in [Handlers -> HandlerRows]
           /\ inflight' \in [Ids -> Handlers \cup {None}]
<1>1. /\ Typed /\ inflight[i] = h /\ done[i].outcome = "none" /\ bound[i] = handler[h].params
      /\ bound[i] # None /\ h # None
  BY VerifierAssumption DEF VerifierInv, Futures, Working
<1>2. /\ inflight' \in [Ids -> Handlers \cup {None}] /\ inflight'[i] = None
      /\ \A j \in Ids : j # i => inflight'[j] = inflight[j]
  BY <1>1 DEF Resolve, Typed
<1>3. \A g \in Handlers : handler[g].pc = "wait" =>
        /\ handler[g].id \in Ids /\ handler[g].on \in Handlers
        /\ handler[g].on = h <=> handler[g].id = i
  <2> SUFFICES ASSUME NEW g \in Handlers, handler[g].pc = "wait"
               PROVE  /\ handler[g].id \in Ids /\ handler[g].on \in Handlers
                      /\ handler[g].on = h <=> handler[g].id = i
    OBVIOUS
  <2>1. handler[g].id \in Ids /\ handler[g].on = inflight[handler[g].id] /\ handler[g].on # None
    BY DEF VerifierInv, Futures
  <2>2. handler[handler[g].on].id = handler[g].id
    BY <2>1 DEF VerifierInv, Futures
  <2>3. handler[g].on \in Handlers
    BY <1>1, <2>1 DEF Typed
  <2> QED
    BY <1>1, <2>1, <2>2, <2>3
<1> DEFINE Wakes(g) == handler[g].pc = "wait" /\ handler[g].id = i
<1>4. /\ handler'[h] = Answered(h, a)
      /\ \A g \in Handlers : g # h /\ Wakes(g) => handler'[g] = Answered(g, v)
      /\ \A g \in Handlers : g # h /\ ~Wakes(g) => handler'[g] = handler[g]
  BY <1>1, <1>3 DEF Resolve
<1>5. \A g \in Handlers : g # h /\ Wakes(g) => Admitted(h) /\ handler[g].params = bound[i]
  BY <1>1, <1>3 DEF VerifierInv, Futures
<1>6. \A g \in Handlers : g = h \/ Wakes(g) =>
        /\ handler'[g] \in HandlerRows /\ handler'[g].pc = "done"
        /\ handler'[g].id = i /\ handler'[g].params = handler[h].params
        /\ handler'[g].live = handler[g].live
        /\ handler'[g].answer = a
  BY <1>1, <1>4, <1>5, AnsweredType
<1>7. \A g \in Handlers : g # h /\ ~Wakes(g) =>
        handler'[g] = handler[g] /\ (handler[g].pc \in {"spec", "run", "wait"} => handler[g].id # i)
  BY <1>4 DEF VerifierInv, Futures, Working
<1> HIDE DEF Wakes
<1>8. handler' \in [Handlers -> HandlerRows]
  <2>1. handler' = [g \in Handlers |-> handler'[g]]
    BY DEF Resolve
  <2>2. \A g \in Handlers : handler'[g] \in HandlerRows
    BY <1>1, <1>6, <1>7 DEF Typed
  <2> QED
    BY <2>1, <2>2
<1>9. handler[h].params \in Params
  BY DEF VerifierInv, Futures
<1>10. Futures'
  <2>1. ASSUME NEW g \in Handlers, handler'[g].pc # "done"
        PROVE  handler'[g] = handler[g] /\ task'[g] = task[g] /\ g # h
               /\ (handler[g].pc \in {"spec", "run", "wait"} => handler[g].id # i)
    BY <1>6, <1>7, <2>1
  <2>2. \A g \in Handlers : handler'[g].pc # "free" =>
          handler'[g].id \in Ids /\ handler'[g].params \in Params
    BY <1>6, <1>7, <1>9 DEF VerifierInv, Futures
  <2>3. ASSUME NEW g \in Handlers
        PROVE  /\ handler'[g].pc = "spec" => task'[g].pc = "free"
               /\ handler'[g].pc = "run" => task'[g].pc # "free" /\ inflight'[handler'[g].id] = g
               /\ handler'[g].pc \in {"spec", "run"} =>
                    /\ done'[handler'[g].id].outcome = "none"
                    /\ bound'[handler'[g].id] = handler'[g].params
    BY <1>2, <2>1, <2>2 DEF VerifierInv, Futures, Working
  <2>4. ASSUME NEW g \in Handlers, handler'[g].pc = "wait"
        PROVE  /\ inflight'[handler'[g].id] # None
               /\ handler'[g].on = inflight'[handler'[g].id]
               /\ bound'[handler'[g].id] = handler'[g].params
               /\ Admitted(handler[g].on)'
    <3>1. handler'[g] = handler[g] /\ handler[g].pc = "wait" /\ handler[g].id # i
      BY <2>1, <2>4
    <3>2. PICK k \in Handlers : k = handler[g].on
      BY <1>3, <3>1
    <3>3. k # h /\ Admitted(k)
      BY <1>3, <3>1, <3>2 DEF VerifierInv, Futures
    <3>4. Admitted(k)'
      BY <3>3 DEF Admitted
    <3>5. Admitted(handler[g].on)'
      BY <3>1, <3>2, <3>4 DEF Admitted
    <3> QED
      BY <1>2, <1>3, <3>1, <3>5 DEF VerifierInv, Futures
  <2>5. \A g, k \in Handlers : Working(g)' /\ Working(k)' /\ handler'[g].id = handler'[k].id => g = k
    BY <2>1 DEF VerifierInv, Futures, Working
  <2>6. \A j \in Ids : inflight'[j] # None =>
          handler'[inflight'[j]].pc = "run" /\ handler'[inflight'[j]].id = j
    <3> SUFFICES ASSUME NEW j \in Ids, inflight'[j] # None
                 PROVE  handler'[inflight'[j]].pc = "run" /\ handler'[inflight'[j]].id = j
      OBVIOUS
    <3>1. j # i /\ inflight'[j] = inflight[j]
      BY <1>2
    <3>2. PICK k \in Handlers : k = inflight[j]
      BY <1>1, <3>1 DEF Typed
    <3>3. handler[k].pc = "run" /\ handler[k].id = j /\ k # h
      BY <3>1, <3>2 DEF VerifierInv, Futures
    <3>4. handler'[k] = handler[k]
      BY <1>7, <3>3 DEF Wakes
    <3> QED
      BY <3>1, <3>2, <3>3, <3>4
  <2> QED
    BY <2>2, <2>3, <2>4, <2>5, <2>6 DEF Futures, Working
<1>11. Results'
  <2>1. \A g \in Handlers : handler'[g].pc = "done" =>
          /\ handler'[g].answer.outcome \in {"infra", "exit", "busy"}
          /\ Genuine(handler'[g].answer, handler'[g].params)
    BY <1>6, <1>7 DEF VerifierInv, Results
  <2>2. \A j \in Ids : /\ done'[j].outcome \in {"none", "infra", "exit"}
                       /\ Genuine(done'[j], bound'[j])
                       /\ done'[j].outcome = "exit" => bound'[j] # None
    <3> SUFFICES ASSUME NEW j \in Ids
                 PROVE  /\ done'[j].outcome \in {"none", "infra", "exit"}
                        /\ Genuine(done'[j], bound'[j])
                        /\ done'[j].outcome = "exit" => bound'[j] # None
      OBVIOUS
    <3>1. CASE j # i
      BY <3>1 DEF VerifierInv, Results
    <3>2. CASE j = i
      BY <1>1, <3>2 DEF Genuine
    <3> QED
      BY <3>1, <3>2
  <2> QED
    BY <2>1, <2>2 DEF Results, Genuine
<1>12. Runs'
  <2> SUFFICES ASSUME NEW j \in Ids
               PROVE  (ran[j] <= 1 /\ (ran[j] # 0 =>
                         \/ done[j].outcome # "none"
                         \/ inflight[j] # None /\ Admitted(inflight[j])))'
    BY DEF Runs
  <2>1. ran[j] <= 1 /\ (ran[j] # 0 => \/ done[j].outcome # "none"
                                      \/ inflight[j] # None /\ Admitted(inflight[j]))
    BY DEF VerifierInv, Runs
  <2>2. CASE j = i
    BY <1>1, <2>1, <2>2
  <2>3. CASE j # i /\ inflight[j] = None
    BY <1>2, <2>1, <2>3
  <2>4. CASE j # i /\ inflight[j] # None
    <3>1. PICK k \in Handlers : k = inflight[j]
      BY <1>1, <2>4 DEF Typed
    <3>2. k # h
      BY <1>1, <2>4, <3>1 DEF VerifierInv, Futures
    <3>3. Admitted(k) => Admitted(k)'
      BY <3>2 DEF Admitted
    <3>4. inflight'[j] = inflight[j]
      BY <1>2, <2>4
    <3>5. Admitted(k)' => Admitted(inflight[j])'
      BY <3>1, <3>4 DEF Admitted
    <3> QED
      BY <2>1, <2>4, <3>1, <3>3, <3>4, <3>5
  <2> QED
    BY <2>2, <2>3, <2>4
<1>13. Listeners' /\ Recorded'
  <2>1. \A g \in Handlers : handler'[g].live =>
          handler[g].live /\ handler'[g].id = handler[g].id /\ handler'[g].pc # "free"
    BY <1>6, <1>7 DEF VerifierInv, Listeners, Wakes
  <2> QED
    BY <1>1, <2>1, ClientKept DEF VerifierInv
<1> QED
  BY <1>2, <1>8, <1>10, <1>11, <1>12, <1>13

LEMMA FinishStep ==
    ASSUME VerifierInv, NEW h \in Handlers, handler[h].pc = "run", NEW a \in Answers,
           a.outcome \in {"infra", "exit"}, Genuine(a, handler[h].params), finish(h, a),
           \A g \in Handlers : g # h => task'[g] = task[g],
           UNCHANGED <<rows, wanted, retries, ran>>
    PROVE  /\ Futures' /\ Results' /\ Runs' /\ Listeners' /\ Recorded'
           /\ handler' \in [Handlers -> HandlerRows]
           /\ inflight' \in [Ids -> Handlers \cup {None}]
           /\ done' \in [Ids -> Answers] /\ UNCHANGED bound
<1>1. PICK i \in Ids : i = handler[h].id
  BY DEF VerifierInv, Futures
<1>2. /\ done' = [done EXCEPT ![i] = a] /\ UNCHANGED bound /\ Resolve(h, a, a)
      /\ done \in [Ids -> Answers]
  BY <1>1 DEF finish, VerifierInv, Typed
<1>3. /\ done' \in [Ids -> Answers] /\ done'[i] = a /\ bound'[i] = bound[i]
      /\ \A j \in Ids : j # i => done'[j] = done[j] /\ bound'[j] = bound[j]
  BY <1>2
<1> QED
  BY <1>1, <1>2, <1>3, Resolved

LEMMA ExecutorAnswersStep ==
    ASSUME VerifierInv, NEW h \in Handlers, ExecutorAnswers(h)
    PROVE  VerifierInv'
<1>1. /\ handler[h].pc = "run" /\ task[h].pc = "done" /\ TaskOk(task[h]) /\ Typed
      /\ task' = [task EXCEPT ![h] = FreeTask] /\ handler[h].params \in Params
      /\ UNCHANGED <<clientVars, registry, slot, procs, ran, faults>>
  BY DEF ExecutorAnswers, VerifierInv, Tasks, Futures
<1>2. \A g \in Handlers : g # h => task'[g] = task[g]
  BY <1>1 DEF Typed
<1>3. UNCHANGED <<rows, wanted, settings, retries>>
  BY <1>1 DEF clientVars
<1>4. Slots' /\ Tasks' /\ task' \in [Handlers -> TaskRows]
  BY <1>1, FreeTaskOk, TaskSet DEF VerifierInv, Running
<1>5. CASE task[h].outcome = "busy" /\ abort(h)
  <2>1. PICK i \in Ids : i = handler[h].id
    BY <1>1 DEF VerifierInv, Futures
  <2>2. PICK a \in Answers, v \in Answers : a = NoRun("busy") /\ v = NoRun("error")
    BY NoRunType DEF Refusals
  <2>3. a.outcome = "busy" /\ Genuine(a, handler[h].params) /\ Resolve(h, a, v)
    BY <1>5, <2>2, NoRunType DEF Refusals, Genuine, abort
  <2>4. /\ bound' = [bound EXCEPT ![i] = None] /\ UNCHANGED done
        /\ bound \in [Ids -> Params \cup {None}]
    BY <1>1, <1>5, <2>1 DEF abort, Typed
  <2>5. /\ bound' \in [Ids -> Params \cup {None}] /\ bound'[i] = None /\ done'[i] = done[i]
        /\ \A j \in Ids : j # i => done'[j] = done[j] /\ bound'[j] = bound[j]
    BY <2>4
  <2>6. ~Admitted(h)
    BY <1>5 DEF Admitted
  <2>7. /\ Futures' /\ Results' /\ Runs' /\ Listeners' /\ Recorded'
        /\ handler' \in [Handlers -> HandlerRows]
        /\ inflight' \in [Ids -> Handlers \cup {None}]
    BY <1>1, <1>2, <1>3, <2>1, <2>3, <2>5, <2>6, Resolved
  <2>8. Typed'
    BY <1>1, <1>3, <1>4, <2>4, <2>5, <2>7 DEF Typed
  <2> QED
    BY <1>4, <2>7, <2>8 DEF VerifierInv
<1>6. CASE task[h].outcome # "busy" /\ finish(h, ResultOf(h))
  <2>1. PICK a : a = ResultOf(h)
    OBVIOUS
  <2>2. task[h].outcome \in {"infra", "exit"} /\ task[h] \in TaskRows
    BY <1>1, <1>6 DEF TaskOk, Typed
  <2>3. a \in Answers /\ a.outcome \in {"infra", "exit"} /\ Genuine(a, handler[h].params)
    <3>1. CASE task[h].outcome = "infra"
      BY <2>1, <3>1, NoRunType DEF ResultOf, Genuine, Outcomes
    <3>2. CASE task[h].outcome = "exit"
      <4>1. a = [outcome |-> "exit", params |-> handler[h].params,
                 version |-> task[h].version, clean |-> task[h].clean]
        BY <2>1, <3>2 DEF ResultOf
      <4>2. task[h].version = "approved" /\ task[h].clean
        BY <1>1, <3>2 DEF TaskOk
      <4>3. a \in Answers
        BY <1>1, <2>2, <4>1 DEF Answers, TaskRows, Outcomes
      <4>4. Genuine(a, handler[h].params)
        BY <4>1, <4>2 DEF Genuine
      <4> QED
        BY <4>1, <4>3, <4>4
    <3> QED
      BY <2>2, <3>1, <3>2
  <2>4. /\ Futures' /\ Results' /\ Runs' /\ Listeners' /\ Recorded'
        /\ handler' \in [Handlers -> HandlerRows]
        /\ inflight' \in [Ids -> Handlers \cup {None}]
        /\ done' \in [Ids -> Answers] /\ UNCHANGED bound
    BY <1>1, <1>2, <1>3, <1>6, <2>1, <2>3, FinishStep
  <2>5. Typed'
    BY <1>1, <1>3, <1>4, <2>4 DEF Typed
  <2> QED
    BY <1>4, <2>4, <2>5 DEF VerifierInv
<1> QED
  BY <1>5, <1>6 DEF ExecutorAnswers

LEMMA ExecutorTimeoutStep ==
    ASSUME VerifierInv, NEW h \in Handlers, ExecutorTimeout(h)
    PROVE  VerifierInv'
<1>1. /\ handler[h].pc = "run" /\ Typed
      /\ UNCHANGED <<clientVars, registry, execVars, faults>>
  BY DEF ExecutorTimeout, VerifierInv
<1>2. UNCHANGED <<rows, wanted, settings, retries, task, slot, procs, ran, registry, faults>>
  BY <1>1 DEF clientVars, execVars
<1>3. PICK a \in Answers : a = NoRun("infra") /\ a.outcome = "infra"
  BY NoRunType DEF Outcomes
<1>4. Genuine(a, handler[h].params) /\ finish(h, a)
  BY <1>3 DEF ExecutorTimeout, Genuine
<1>5. /\ Futures' /\ Results' /\ Runs' /\ Listeners' /\ Recorded'
      /\ handler' \in [Handlers -> HandlerRows]
      /\ inflight' \in [Ids -> Handlers \cup {None}]
      /\ done' \in [Ids -> Answers] /\ UNCHANGED bound
  BY <1>1, <1>2, <1>3, <1>4, FinishStep
<1>6. Slots' /\ Tasks'
  BY <1>2 DEF VerifierInv, Slots, Tasks
<1>7. Typed'
  BY <1>1, <1>2, <1>5 DEF Typed
<1> QED
  BY <1>5, <1>6, <1>7 DEF VerifierInv

\* An id that is forgotten has a result, so nobody works on it.
LEMMA EvictStep ==
    ASSUME VerifierInv, NEW i \in Ids, Evict(i)
    PROVE  VerifierInv'
<1>1. /\ Typed /\ Fault /\ done[i].outcome # "none"
      /\ UNCHANGED <<clientVars, registry, handler, inflight, task, slot, procs>>
  BY DEF Evict, VerifierInv
<1>2. UNCHANGED <<rows, wanted, settings, retries, registry, handler, inflight, task, slot, procs>>
  BY <1>1 DEF clientVars
<1>3. Nothing \in Answers /\ Nothing.outcome = "none"
  BY NoRunType DEF Nothing
<1>4. /\ done' \in [Ids -> Answers] /\ done'[i] = Nothing
      /\ bound' \in [Ids -> Params \cup {None}] /\ bound'[i] = None
      /\ ran' \in [Ids -> Nat] /\ ran'[i] = 0
      /\ \A j \in Ids : j # i => done'[j] = done[j] /\ bound'[j] = bound[j] /\ ran'[j] = ran[j]
  BY <1>1, <1>3 DEF Evict, Typed
<1>5. Slots' /\ Tasks'
  BY <1>2 DEF VerifierInv, Slots, Tasks
<1>6. \A h \in Handlers : handler[h].pc \in {"spec", "run", "wait"} => handler[h].id # i
  <2>1. \A h \in Handlers : handler[h].pc \in {"spec", "run"} => handler[h].id # i
    BY <1>1 DEF VerifierInv, Futures, Working
  <2>2. ASSUME NEW h \in Handlers, handler[h].pc = "wait", handler[h].id = i PROVE FALSE
    <3>1. PICK g \in Handlers : g = inflight[i]
      BY <1>1, <2>2 DEF VerifierInv, Futures, Typed
    <3>2. handler[g].pc = "run" /\ handler[g].id = i
      BY <2>2, <3>1 DEF VerifierInv, Futures
    <3> QED
      BY <2>1, <3>2
  <2> QED
    BY <2>1, <2>2
<1>7. Futures'
  BY <1>2, <1>4, <1>6 DEF VerifierInv, Futures, Working, Admitted
<1>8. Results'
  <2>1. \A j \in Ids : /\ done'[j].outcome \in {"none", "infra", "exit"}
                       /\ Genuine(done'[j], bound'[j])
                       /\ done'[j].outcome = "exit" => bound'[j] # None
    BY <1>3, <1>4 DEF VerifierInv, Results, Genuine
  <2> QED
    BY <1>2, <2>1 DEF VerifierInv, Results, Genuine
<1>9. Runs'
  BY <1>2, <1>4 DEF VerifierInv, Runs, Admitted
<1>10. Listeners' /\ Recorded'
  BY <1>1, <1>2, ClientKept DEF VerifierInv, Listeners
<1>11. Typed'
  BY <1>1, <1>2, <1>4, FaultType DEF Typed
<1> QED
  BY <1>5, <1>7, <1>8, <1>9, <1>10, <1>11 DEF VerifierInv

LEMMA FrontRestartStep ==
    ASSUME VerifierInv, FrontRestart
    PROVE  VerifierInv'
<1>1. /\ Typed /\ Fault /\ UNCHANGED <<clientVars, registry, slot, procs>>
      /\ inflight' = [i \in Ids |-> None] /\ bound' = [i \in Ids |-> None]
      /\ done' = [i \in Ids |-> Nothing] /\ ran' = [i \in Ids |-> 0]
  BY DEF FrontRestart, VerifierInv
<1>2. UNCHANGED <<rows, wanted, settings, retries, registry, slot, procs>>
  BY <1>1 DEF clientVars
<1>3. Nothing \in Answers /\ Nothing.outcome = "none"
  BY NoRunType DEF Nothing
<1>4. PICK a \in Answers : a = NoRun("infra") /\ a.outcome = "infra"
  BY NoRunType DEF Outcomes
<1>5. \A h \in Handlers :
        /\ handler'[h] \in HandlerRows /\ handler'[h].pc \in {"free", "done"}
        /\ handler[h].pc = "free" => handler'[h] = handler[h]
        /\ handler[h].pc # "free" =>
             /\ handler'[h].pc = "done" /\ handler'[h].answer = a
             /\ handler'[h].id = handler[h].id /\ handler'[h].params = handler[h].params
             /\ handler'[h].live = handler[h].live
  <2> SUFFICES ASSUME NEW h \in Handlers
               PROVE  /\ handler'[h] \in HandlerRows /\ handler'[h].pc \in {"free", "done"}
                      /\ handler[h].pc = "free" => handler'[h] = handler[h]
                      /\ handler[h].pc # "free" =>
                           /\ handler'[h].pc = "done" /\ handler'[h].answer = a
                           /\ handler'[h].id = handler[h].id
                           /\ handler'[h].params = handler[h].params
                           /\ handler'[h].live = handler[h].live
    OBVIOUS
  <2>1. CASE handler[h].pc = "free"
    BY <1>1, <2>1 DEF FrontRestart, Typed
  <2>2. CASE handler[h].pc # "free"
    <3>1. handler'[h] = Answered(h, a)
      BY <1>4, <2>2 DEF FrontRestart
    <3> QED
      BY <1>1, <2>2, <3>1, AnsweredType
  <2> QED
    BY <2>1, <2>2
<1>6. handler' \in [Handlers -> HandlerRows]
  <2>1. handler' = [h \in Handlers |-> handler'[h]]
    BY DEF FrontRestart
  <2> QED
    BY <1>5, <2>1
<1>7. \A h \in Handlers : task'[h] = IF task[h].pc = "done" THEN FreeTask ELSE task[h]
  BY DEF FrontRestart
<1>8. task' \in [Handlers -> TaskRows]
  <2>1. task' = [h \in Handlers |-> task'[h]]
    BY DEF FrontRestart
  <2> QED
    BY <1>1, <1>7, <2>1, FreeTaskOk DEF Typed
<1>9. Slots' /\ Tasks'
  <2>1. Tasks'
    BY <1>7, FreeTaskOk DEF VerifierInv, Tasks
  <2>2. \A h \in Handlers : \/ task'[h].pc = task[h].pc
                            \/ task'[h].pc = "free" /\ task[h].pc = "done"
    BY <1>7, FreeTaskOk
  <2>3. Slots'
    BY <1>2, <2>2 DEF VerifierInv, Slots, Running
  <2> QED
    BY <2>1, <2>3
<1>10. Futures' /\ Results' /\ Runs'
  <2>1. Futures'
    BY <1>1, <1>5 DEF VerifierInv, Futures, Working
  <2>2. Results'
    BY <1>1, <1>3, <1>4, <1>5 DEF Results, Genuine
  <2>3. Runs'
    BY <1>1 DEF Runs
  <2> QED
    BY <2>1, <2>2, <2>3
<1>11. Listeners' /\ Recorded'
  <2>1. \A h \in Handlers : handler'[h].live =>
          handler[h].live /\ handler'[h].id = handler[h].id /\ handler'[h].pc # "free"
    BY <1>5 DEF VerifierInv, Listeners
  <2> QED
    BY <1>1, <1>2, <2>1, ClientKept DEF VerifierInv
<1>12. Typed'
  BY <1>1, <1>2, <1>3, <1>6, <1>8, FaultType DEF Typed
<1> QED
  BY <1>9, <1>10, <1>11, <1>12 DEF VerifierInv

\* start(): the id the handler has bound has no future yet.
LEMMA StartStep ==
    ASSUME VerifierInv, NEW h \in Handlers, Start(h)
    PROVE  VerifierInv'
<1>1. /\ Typed /\ handler[h].pc = "spec" /\ handler[h] \in HandlerRows
      /\ UNCHANGED <<clientVars, registry, done, bound, slot, procs, ran, faults>>
  BY DEF Start, VerifierInv, Typed
<1>2. UNCHANGED <<rows, wanted, settings, retries, registry>>
  BY <1>1 DEF clientVars
<1>3. PICK i \in Ids : i = handler[h].id
  BY <1>1 DEF VerifierInv, Futures
<1>4. /\ done[i].outcome = "none" /\ bound[i] = handler[h].params /\ task[h].pc = "free"
      /\ handler[h].params \in Params /\ h # None
  BY <1>1, <1>3, VerifierAssumption DEF VerifierInv, Futures, Working
<1>5. \A g \in Handlers : handler[g].pc \in {"spec", "run"} /\ handler[g].id = i => g = h
  BY <1>1, <1>3 DEF VerifierInv, Futures, Working
<1>6. inflight[i] = None
  <2>1. CASE inflight[i] # None
    <3>1. PICK g \in Handlers : g = inflight[i]
      BY <1>1, <2>1 DEF Typed
    <3>2. handler[g].pc = "run" /\ handler[g].id = i
      BY <2>1, <3>1 DEF VerifierInv, Futures
    <3> QED
      BY <1>1, <1>5, <3>2
  <2> QED
    BY <2>1
<1>7. \A g \in Handlers : handler[g].pc = "wait" => handler[g].id # i /\ handler[g].on \in Handlers
  BY <1>1, <1>6 DEF VerifierInv, Futures, Typed
<1>8. CASE Approved
  <2> DEFINE r == [handler[h] EXCEPT !.pc = "run"]
             t == [task[h] EXCEPT !.pc = "spec"]
  <2>1. /\ r \in HandlerRows /\ r.pc = "run" /\ r.id = i /\ r.params = handler[h].params
        /\ r.live = handler[h].live
    BY <1>1, <1>3 DEF HandlerRows
  <2>2. t \in TaskRows /\ TaskOk(t) /\ t.pc = "spec" /\ t.pc \notin Running
    <3>1. task[h] \in TaskRows /\ TaskOk(task[h])
      BY <1>1 DEF VerifierInv, Typed, Tasks
    <3> QED
      BY <1>4, <3>1 DEF TaskRows, TaskPcs, TaskOk, Running
  <2>3. /\ handler' = [handler EXCEPT ![h] = r] /\ inflight' = [inflight EXCEPT ![i] = h]
        /\ task' = [task EXCEPT ![h] = t]
    BY <1>1, <1>3, <1>8 DEF Start, Typed
  <2> HIDE DEF r, t
  <2>4. /\ handler' \in [Handlers -> HandlerRows] /\ handler'[h] = r
        /\ \A g \in Handlers : g # h => handler'[g] = handler[g] /\ task'[g] = task[g]
        /\ inflight' \in [Ids -> Handlers \cup {None}] /\ inflight'[i] = h
        /\ \A j \in Ids : j # i => inflight'[j] = inflight[j]
        /\ task'[h] = t
    BY <1>1, <2>1, <2>2, <2>3 DEF Typed
  <2>5. Slots' /\ Tasks' /\ task' \in [Handlers -> TaskRows]
    BY <1>1, <1>4, <2>2, <2>3, TaskSet DEF VerifierInv, Running
  <2>6. ASSUME NEW g \in Handlers, handler'[g].pc = "wait"
        PROVE  /\ inflight'[handler'[g].id] # None
               /\ handler'[g].on = inflight'[handler'[g].id]
               /\ bound'[handler'[g].id] = handler'[g].params
               /\ Admitted(handler[g].on)'
    <3>1. g # h /\ handler'[g] = handler[g] /\ handler[g].pc = "wait"
      BY <2>1, <2>4, <2>6
    <3>2. PICK k \in Handlers : k = handler[g].on
      BY <1>7, <3>1
    <3>3. k # h /\ Admitted(k) /\ handler[g].id \in Ids /\ handler[g].id # i
      BY <1>1, <1>7, <3>1, <3>2 DEF VerifierInv, Futures
    <3>4. Admitted(k)'
      BY <2>4, <3>3 DEF Admitted
    <3>5. Admitted(handler[g].on)'
      BY <3>1, <3>2, <3>4 DEF Admitted
    <3> QED
      BY <1>1, <2>4, <3>1, <3>3, <3>5 DEF VerifierInv, Futures
  <2>7. ASSUME NEW g \in Handlers
        PROVE  /\ handler'[g].pc # "free" => handler'[g].id \in Ids /\ handler'[g].params \in Params
               /\ handler'[g].pc = "spec" => task'[g].pc = "free"
               /\ handler'[g].pc = "run" => task'[g].pc # "free" /\ inflight'[handler'[g].id] = g
               /\ handler'[g].pc \in {"spec", "run"} =>
                    /\ done'[handler'[g].id].outcome = "none"
                    /\ bound'[handler'[g].id] = handler'[g].params
    <3>1. CASE g = h
      BY <1>1, <1>4, <2>1, <2>2, <2>4, <3>1
    <3>2. CASE g # h
      BY <1>1, <1>5, <2>4, <3>2 DEF VerifierInv, Futures, Working
    <3> QED
      BY <3>1, <3>2
  <2>8. \A g, k \in Handlers : Working(g)' /\ Working(k)' /\ handler'[g].id = handler'[k].id => g = k
    BY <1>1, <1>5, <2>1, <2>4 DEF VerifierInv, Futures, Working
  <2>9. \A j \in Ids : inflight'[j] # None =>
          handler'[inflight'[j]].pc = "run" /\ handler'[inflight'[j]].id = j
    <3> SUFFICES ASSUME NEW j \in Ids, inflight'[j] # None
                 PROVE  handler'[inflight'[j]].pc = "run" /\ handler'[inflight'[j]].id = j
      OBVIOUS
    <3>1. CASE j = i
      BY <2>1, <2>4, <3>1
    <3>2. CASE j # i
      <4>1. PICK k \in Handlers : k = inflight[j] /\ inflight'[j] = k
        BY <1>1, <2>4, <3>2 DEF Typed
      <4>2. handler[k].pc = "run" /\ handler[k].id = j
        BY <2>4, <3>2, <4>1 DEF VerifierInv, Futures
      <4> QED
        BY <1>1, <2>4, <4>1, <4>2
    <3> QED
      BY <3>1, <3>2
  <2>10. Futures'
    BY <2>6, <2>7, <2>8, <2>9 DEF Futures, Working
  <2>11. Results'
    BY <1>1, <2>1, <2>4 DEF VerifierInv, Results, Genuine
  <2>12. Runs'
    <3> SUFFICES ASSUME NEW j \in Ids
                 PROVE  (ran[j] <= 1 /\ (ran[j] # 0 =>
                           \/ done[j].outcome # "none"
                           \/ inflight[j] # None /\ Admitted(inflight[j])))'
      BY DEF Runs
    <3>1. ran[j] <= 1 /\ (ran[j] # 0 => \/ done[j].outcome # "none"
                                        \/ inflight[j] # None /\ Admitted(inflight[j]))
      BY DEF VerifierInv, Runs
    <3>2. CASE j = i
      BY <1>1, <1>4, <1>6, <3>1, <3>2
    <3>3. CASE j # i /\ inflight[j] = None
      BY <1>1, <2>4, <3>1, <3>3
    <3>4. CASE j # i /\ inflight[j] # None
      <4>1. PICK k \in Handlers : k = inflight[j]
        BY <1>1, <3>4 DEF Typed
      <4>2. k # h
        BY <1>1, <3>4, <4>1 DEF VerifierInv, Futures
      <4>3. Admitted(k) => Admitted(k)'
        BY <2>4, <4>2 DEF Admitted
      <4>4. inflight'[j] = inflight[j]
        BY <2>4, <3>4
      <4>5. Admitted(k)' => Admitted(inflight[j])'
        BY <4>1, <4>4 DEF Admitted
      <4> QED
        BY <1>1, <3>1, <3>4, <4>1, <4>3, <4>4, <4>5
    <3> QED
      BY <3>2, <3>3, <3>4
  <2>13. Listeners' /\ Recorded'
    <3>1. \A g \in Handlers : handler'[g].live =>
            handler[g].live /\ handler'[g].id = handler[g].id /\ handler'[g].pc # "free"
      BY <1>3, <2>1, <2>4 DEF VerifierInv, Listeners
    <3> QED
      BY <1>1, <1>2, <3>1, ClientKept DEF VerifierInv
  <2>14. Typed'
    BY <1>1, <1>2, <2>4, <2>5 DEF Typed
  <2> QED
    BY <2>5, <2>10, <2>11, <2>12, <2>13, <2>14 DEF VerifierInv
<1>9. CASE ~Approved
  <2>1. PICK a \in Answers : a = NoRun("infra") /\ a.outcome = "infra"
    BY NoRunType DEF Outcomes
  <2>2. PICK r : r = Answered(h, a)
    OBVIOUS
  <2>3. /\ r \in HandlerRows /\ r.pc = "done" /\ r.answer = a /\ r.id = i
        /\ r.params = handler[h].params /\ r.live = handler[h].live
    BY <1>1, <1>3, <2>2, AnsweredType
  <2>4. handler' = [handler EXCEPT ![h] = r] /\ UNCHANGED <<inflight, task>>
    BY <1>9, <2>1, <2>2 DEF Start, Answer
  <2>5. /\ handler' \in [Handlers -> HandlerRows] /\ handler'[h] = r
        /\ \A g \in Handlers : g # h => handler'[g] = handler[g]
    BY <1>1, <2>3, <2>4 DEF Typed
  <2>6. Slots' /\ Tasks'
    BY <1>1, <2>4 DEF VerifierInv, Slots, Tasks
  <2>7. \A j \in Ids : inflight[j] # h
    BY <1>1, <1>4 DEF VerifierInv, Futures
  <2>8. Futures'
    <3>1. \A j \in Ids : inflight'[j] # None =>
            handler'[inflight'[j]].pc = "run" /\ handler'[inflight'[j]].id = j
      BY <1>1, <2>4, <2>5, <2>7 DEF VerifierInv, Futures, Typed
    <3> QED
      BY <1>1, <1>4, <2>3, <2>4, <2>5, <3>1 DEF VerifierInv, Futures, Working, Admitted
  <2>9. Results'
    BY <1>1, <2>1, <2>3, <2>5 DEF VerifierInv, Results, Genuine
  <2>10. Runs'
    BY <1>1, <2>4 DEF VerifierInv, Runs, Admitted
  <2>11. Listeners' /\ Recorded'
    <3>1. \A g \in Handlers : handler'[g].live =>
            handler[g].live /\ handler'[g].id = handler[g].id /\ handler'[g].pc # "free"
      BY <1>3, <2>3, <2>5 DEF VerifierInv, Listeners
    <3> QED
      BY <1>1, <1>2, <3>1, ClientKept DEF VerifierInv
  <2>12. Typed'
    BY <1>1, <1>2, <2>4, <2>5 DEF Typed
  <2> QED
    BY <2>6, <2>8, <2>9, <2>10, <2>11, <2>12 DEF VerifierInv
<1> QED
  BY <1>8, <1>9

\* The id a case asks with.
LEMMA NextId ==
    ASSUME VerifierInv, NEW c \in Cases, wanted[c]
    PROVE  /\ request_id(c) \in Ids /\ request_id(c)[1] = c /\ request_id(c)[2] = Len(rows[c])
           /\ \A h \in Handlers : handler[h].live /\ handler[h].id[1] = c
                                  => handler[h].id = request_id(c)
<1>1. Len(rows[c]) \in 0 .. MaxRetries
  <2>1. rows[c] \in Seq(Rows) /\ retries \in 0 .. MaxRetries /\ Len(rows[c]) <= retries
    BY DEF VerifierInv, Typed, Recorded
  <2>2. Len(rows[c]) \in Nat
    BY <2>1, LenProperties
  <2> QED
    BY <2>1, <2>2, VerifierAssumption
<1>2. request_id(c) \in Ids /\ request_id(c)[1] = c /\ request_id(c)[2] = Len(rows[c])
  BY <1>1 DEF request_id, Ids
<1>3. ASSUME NEW h \in Handlers, handler[h].live, handler[h].id[1] = c
      PROVE  handler[h].id = request_id(c)
  <2>1. handler[h].id \in Ids
    BY <1>3 DEF VerifierInv, Listeners, Futures
  <2>2. handler[h].id[2] = Len(rows[c])
    BY <1>3 DEF VerifierInv, Listeners
  <2> QED
    BY <1>3, <2>1, <2>2 DEF Ids, request_id
<1> QED
  BY <1>2, <1>3

\* What Receive() makes of a request, and what it binds.
LEMMA Received ==
    ASSUME VerifierInv, NEW h \in Handlers, NEW i \in Ids, NEW p \in Params, Receive(h, i, p),
           ~Binding(i)
    PROVE  /\ bound' \in [Ids -> Params \cup {None}]
           /\ \A j \in Ids : j # i => bound'[j] = bound[j]
           /\ bound[i] # None => bound'[i] = bound[i]
           /\ bound[i] = None => bound'[i] = p
           /\ \E r \in HandlerRows :
                /\ handler' = [handler EXCEPT ![h] = r]
                /\ r.id = i /\ r.params = p /\ r.live
                /\ \/ /\ r.pc = "done" /\ r.answer.outcome \in {"infra", "exit"}
                      /\ Genuine(r.answer, p)
                   \/ /\ r.pc = "wait" /\ inflight[i] # None /\ r.on = inflight[i]
                      /\ bound'[i] = p /\ Admitted(r.on)
                   \/ /\ r.pc = "spec" /\ inflight[i] = None /\ done[i].outcome = "none"
                      /\ bound'[i] = p
<1>1. Typed /\ FreeHandler \in HandlerRows
  BY NoRunType DEF VerifierInv, FreeHandler, HandlerRows, Nothing
<1>2. /\ bound' \in [Ids -> Params \cup {None}]
      /\ \A j \in Ids : j # i => bound'[j] = bound[j]
      /\ bound[i] # None => bound'[i] = bound[i]
      /\ bound[i] = None => bound'[i] = p
  BY <1>1 DEF Receive, Typed
<1> DEFINE new == [FreeHandler EXCEPT !.id = i, !.params = p, !.live = TRUE]
<1>3. /\ new \in HandlerRows /\ new.id = i /\ new.params = p /\ new.live
  BY <1>1 DEF HandlerRows, FreeHandler
<1>4. handler' = [handler EXCEPT ![h] =
             IF ~CanBind(i, p)
             THEN [new EXCEPT !.pc = "done", !.answer = NoRun("infra")]
             ELSE IF done[i].outcome # "none"
             THEN [new EXCEPT !.pc = "done", !.answer = done[i]]
             ELSE IF inflight[i] # None
             THEN [new EXCEPT !.pc = "wait", !.on = inflight[i]]
             ELSE [new EXCEPT !.pc = "spec"]]
  BY DEF Receive
<1> HIDE DEF new
<1>5. CASE ~CanBind(i, p)
  <2>1. PICK r : r = [new EXCEPT !.pc = "done", !.answer = NoRun("infra")]
    OBVIOUS
  <2>2. NoRun("infra") \in Answers /\ NoRun("infra").outcome = "infra"
    BY NoRunType DEF Outcomes
  <2>3. /\ r \in HandlerRows /\ r.id = i /\ r.params = p /\ r.live /\ r.pc = "done"
        /\ r.answer = NoRun("infra")
    BY <1>3, <2>1, <2>2 DEF HandlerRows
  <2>4. r.answer.outcome \in {"infra", "exit"} /\ Genuine(r.answer, p)
    BY <2>2, <2>3 DEF Genuine
  <2> QED
    BY <1>2, <1>4, <1>5, <2>1, <2>3, <2>4
<1>6. CASE CanBind(i, p) /\ done[i].outcome # "none"
  <2>1. PICK r : r = [new EXCEPT !.pc = "done", !.answer = done[i]]
    OBVIOUS
  <2>2. /\ r \in HandlerRows /\ r.id = i /\ r.params = p /\ r.live /\ r.pc = "done"
        /\ r.answer = done[i]
    BY <1>1, <1>3, <2>1 DEF HandlerRows, Typed
  <2>3. r.answer.outcome \in {"infra", "exit"} /\ Genuine(r.answer, p)
    BY <1>6, <2>2 DEF VerifierInv, Results, Genuine, CanBind
  <2> QED
    BY <1>2, <1>4, <1>6, <2>1, <2>2, <2>3
<1>7. CASE CanBind(i, p) /\ done[i].outcome = "none" /\ inflight[i] # None
  <2>1. PICK r : r = [new EXCEPT !.pc = "wait", !.on = inflight[i]]
    OBVIOUS
  <2>2. /\ r \in HandlerRows /\ r.id = i /\ r.params = p /\ r.live /\ r.pc = "wait"
        /\ r.on = inflight[i]
    BY <1>1, <1>3, <2>1 DEF HandlerRows, Typed
  <2>3. PICK g \in Handlers : g = inflight[i]
    BY <1>1, <1>7 DEF Typed
  <2>4. handler[g].pc = "run" /\ handler[g].id = i
    BY <1>7, <2>3 DEF VerifierInv, Futures
  <2>5. Admitted(g)
    BY <2>4 DEF Binding, Admitted
  <2>6. bound[i] # None
    BY <2>4, VerifierAssumption DEF VerifierInv, Futures, Working
  <2>7. bound'[i] = p
    BY <1>2, <1>7, <2>6 DEF CanBind
  <2> QED
    BY <1>2, <1>4, <1>7, <2>1, <2>2, <2>3, <2>5, <2>7
<1>8. CASE CanBind(i, p) /\ done[i].outcome = "none" /\ inflight[i] = None
  <2>1. PICK r : r = [new EXCEPT !.pc = "spec"]
    OBVIOUS
  <2>2. r \in HandlerRows /\ r.id = i /\ r.params = p /\ r.live /\ r.pc = "spec"
    BY <1>3, <2>1 DEF HandlerRows
  <2>3. bound'[i] = p
    BY <1>2, <1>8 DEF CanBind
  <2> QED
    BY <1>2, <1>4, <1>8, <2>1, <2>2, <2>3
<1> QED
  BY <1>5, <1>6, <1>7, <1>8

LEMMA AskStep ==
    ASSUME VerifierInv, NEW c \in Cases, Ask(c)
    PROVE  VerifierInv'
<1>1. /\ Typed /\ wanted[c] /\ ~Asking(c) /\ ~Binding(request_id(c)) /\ settings \in Params
      /\ UNCHANGED <<clientVars, registry, done, inflight, execVars, faults>>
  BY DEF Ask, VerifierInv, Typed
<1>2. UNCHANGED <<rows, wanted, settings, retries, registry, task, slot, procs, ran, done, inflight>>
  BY <1>1 DEF clientVars, execVars
<1>3. PICK i \in Ids : i = request_id(c) /\ i[1] = c /\ i[2] = Len(rows[c])
  BY <1>1, NextId
<1>4. PICK h \in Handlers : Unused(h) /\ Receive(h, i, settings)
  BY <1>3 DEF Ask
<1>5. /\ handler[h].pc = "free" /\ task[h].pc = "free"
      /\ \A g \in Handlers : handler[g].on # h
  BY <1>4 DEF Unused
<1>6. PICK p \in Params : p = settings
  BY <1>1
<1>7. /\ bound' \in [Ids -> Params \cup {None}]
      /\ \A j \in Ids : j # i => bound'[j] = bound[j]
      /\ bound[i] # None => bound'[i] = bound[i]
  BY <1>1, <1>3, <1>4, <1>6, Received
<1>8. PICK r \in HandlerRows :
        /\ handler' = [handler EXCEPT ![h] = r]
        /\ r.id = i /\ r.params = p /\ r.live
        /\ \/ /\ r.pc = "done" /\ r.answer.outcome \in {"infra", "exit"}
              /\ Genuine(r.answer, p)
           \/ /\ r.pc = "wait" /\ inflight[i] # None /\ r.on = inflight[i]
              /\ bound'[i] = p /\ Admitted(r.on)
           \/ /\ r.pc = "spec" /\ inflight[i] = None /\ done[i].outcome = "none"
              /\ bound'[i] = p
  BY <1>1, <1>3, <1>4, <1>6, Received
<1>9. /\ handler' \in [Handlers -> HandlerRows] /\ handler'[h] = r
      /\ \A g \in Handlers : g # h => handler'[g] = handler[g]
  BY <1>1, <1>8 DEF Typed
<1>10. \A j \in Ids : inflight[j] # h
  <2>1. \A j \in Ids : inflight[j] = h => h = None \/ handler[h].pc = "run"
    BY DEF VerifierInv, Futures
  <2> QED
    BY <1>5, <2>1, VerifierAssumption
<1>11. \A g \in Handlers : handler[g].pc \in {"spec", "run", "wait"} =>
         handler[g].id \in Ids /\ bound'[handler[g].id] = handler[g].params
  BY <1>7, VerifierAssumption DEF VerifierInv, Futures, Working
<1>12. Futures'
  <2>1. ASSUME NEW g \in Handlers
        PROVE  /\ handler'[g].pc # "free" => handler'[g].id \in Ids /\ handler'[g].params \in Params
               /\ handler'[g].pc = "spec" => task'[g].pc = "free"
               /\ handler'[g].pc = "run" => task'[g].pc # "free" /\ inflight'[handler'[g].id] = g
               /\ handler'[g].pc \in {"spec", "run"} =>
                    /\ done'[handler'[g].id].outcome = "none"
                    /\ bound'[handler'[g].id] = handler'[g].params
    <3>1. CASE g = h
      BY <1>2, <1>5, <1>8, <1>9, <3>1
    <3>2. CASE g # h
      BY <1>2, <1>9, <1>11, <3>2 DEF VerifierInv, Futures, Working
    <3> QED
      BY <3>1, <3>2
  <2>2. ASSUME NEW g \in Handlers, handler'[g].pc = "wait"
        PROVE  /\ inflight'[handler'[g].id] # None
               /\ handler'[g].on = inflight'[handler'[g].id]
               /\ bound'[handler'[g].id] = handler'[g].params
               /\ Admitted(handler[g].on)'
    <3>1. CASE g = h
      <4>1. Admitted(r.on)'
        BY <1>2, <1>8, <1>9, <2>2, <3>1 DEF Admitted
      <4> QED
        BY <1>2, <1>8, <1>9, <2>2, <3>1, <4>1 DEF Admitted
    <3>2. CASE g # h
      BY <1>2, <1>9, <1>11, <2>2, <3>2 DEF VerifierInv, Futures, Admitted
    <3> QED
      BY <3>1, <3>2
  <2>3. ASSUME NEW g \in Handlers, g # h, Working(g), handler[g].id = i PROVE r.pc # "spec"
    BY <1>1, <1>3, <1>8, <2>3, VerifierAssumption DEF Working, Binding, VerifierInv, Futures
  <2>4. \A g, k \in Handlers : Working(g)' /\ Working(k)' /\ handler'[g].id = handler'[k].id => g = k
    <3>1. \A g \in Handlers : g # h => (Working(g)' <=> Working(g))
      BY <1>9 DEF Working
    <3>2. Working(h)' => r.pc = "spec"
      BY <1>8, <1>9 DEF Working
    <3> QED
      BY <1>8, <1>9, <2>3, <3>1, <3>2 DEF VerifierInv, Futures
  <2>5. \A j \in Ids : inflight'[j] # None =>
          handler'[inflight'[j]].pc = "run" /\ handler'[inflight'[j]].id = j
    BY <1>1, <1>2, <1>9, <1>10 DEF VerifierInv, Futures, Typed
  <2> QED
    BY <2>1, <2>2, <2>4, <2>5 DEF Futures, Working
<1>13. Results'
  <2>1. \A g \in Handlers : handler'[g].pc = "done" =>
          /\ handler'[g].answer.outcome \in {"infra", "exit", "busy"}
          /\ Genuine(handler'[g].answer, handler'[g].params)
    BY <1>8, <1>9 DEF VerifierInv, Results
  <2>2. \A j \in Ids : /\ done'[j].outcome \in {"none", "infra", "exit"}
                       /\ Genuine(done'[j], bound'[j])
                       /\ done'[j].outcome = "exit" => bound'[j] # None
    BY <1>2, <1>7 DEF VerifierInv, Results, Genuine
  <2> QED
    BY <2>1, <2>2 DEF Results, Genuine
<1>14. Runs' /\ Slots' /\ Tasks'
  BY <1>2 DEF VerifierInv, Runs, Admitted, Slots, Tasks
<1>15. Listeners'
  <2>1. \A g \in Handlers : handler[g].live => handler[g].id[1] # c
    BY <1>1, NextId DEF Asking
  <2>2. \A g \in Handlers : handler'[g].live =>
          /\ handler'[g].pc # "free" /\ wanted[handler'[g].id[1]]
          /\ handler'[g].id[2] = Len(rows[handler'[g].id[1]])
    BY <1>1, <1>3, <1>8, <1>9 DEF VerifierInv, Listeners
  <2>3. \A g, k \in Handlers : handler'[g].live /\ handler'[k].live
                               /\ handler'[g].id[1] = handler'[k].id[1] => g = k
    BY <1>3, <1>8, <1>9, <2>1 DEF VerifierInv, Listeners
  <2> QED
    BY <1>2, <2>2, <2>3 DEF Listeners
<1>16. Recorded'
  BY <1>2 DEF VerifierInv, Recorded, Genuine, VerdictOf
<1>17. Typed'
  BY <1>1, <1>2, <1>7, <1>9 DEF Typed
<1> QED
  BY <1>12, <1>13, <1>14, <1>15, <1>16, <1>17 DEF VerifierInv
-----------------------------------------------------------------------------
(***************************************************************************)
(* The worker's steps.                                                      *)
(***************************************************************************)
\* A row is appended for a case that wants one.
LEMMA RowRecorded ==
    ASSUME VerifierInv, NEW c \in Cases, NEW p \in Params, NEW a \in Answers, Record(c, p, a),
           wanted[c], a.outcome \in {"infra", "exit"}, Genuine(a, p), UNCHANGED retries
    PROVE  /\ Recorded' /\ rows' \in [Cases -> Seq(Rows)] /\ wanted' \in [Cases -> BOOLEAN]
           /\ \A d \in Cases : d # c => rows'[d] = rows[d] /\ wanted'[d] = wanted[d]
<1> DEFINE row == [verdict |-> VerdictOf(a), params |-> p, answer |-> a]
<1>1. row \in Rows /\ row.verdict = VerdictOf(a) /\ row.params = p /\ row.answer = a
  BY DEF Rows, VerdictOf
<1>2. rows' = [rows EXCEPT ![c] = Append(rows[c], row)] /\ wanted' = [wanted EXCEPT ![c] = FALSE]
  BY DEF Record
<1> HIDE DEF row
<1>3. rows[c] \in Seq(Rows) /\ retries \in Nat /\ Len(rows[c]) <= retries
  BY VerifierAssumption DEF VerifierInv, Typed, Recorded
<1>4. PICK s : s = Append(rows[c], row)
  OBVIOUS
<1>5. /\ s \in Seq(Rows) /\ Len(s) = Len(rows[c]) + 1 /\ Len(rows[c]) \in Nat
      /\ \A i \in DOMAIN s : \/ i \in DOMAIN rows[c] /\ s[i] = rows[c][i]
                             \/ s[i] = row
  BY <1>1, <1>3, <1>4, AppendProperties, LenProperties
<1>6. /\ rows' \in [Cases -> Seq(Rows)] /\ wanted' \in [Cases -> BOOLEAN]
      /\ rows'[c] = s /\ ~wanted'[c]
      /\ \A d \in Cases : d # c => rows'[d] = rows[d] /\ wanted'[d] = wanted[d]
  BY <1>2, <1>4, <1>5 DEF VerifierInv, Typed
<1>7. Recorded'
  <2> SUFFICES ASSUME NEW d \in Cases
               PROVE  /\ \A i \in DOMAIN rows'[d] :
                           /\ rows'[d][i].answer.outcome \in {"infra", "exit"}
                           /\ rows'[d][i].verdict = VerdictOf(rows'[d][i].answer)
                           /\ Genuine(rows'[d][i].answer, rows'[d][i].params)
                      /\ Len(rows'[d]) <= retries' + 1
                      /\ wanted'[d] => Len(rows'[d]) <= retries'
    BY DEF Recorded, VerdictOf, Genuine
  <2>1. CASE d # c
    BY <1>6, <2>1 DEF VerifierInv, Recorded
  <2>2. CASE d = c
    <3>1. \A i \in DOMAIN s :
            /\ s[i].answer.outcome \in {"infra", "exit"}
            /\ s[i].verdict = VerdictOf(s[i].answer)
            /\ Genuine(s[i].answer, s[i].params)
      BY <1>1, <1>5 DEF VerifierInv, Recorded
    <3> QED
      BY <1>3, <1>5, <1>6, <2>2, <3>1
  <2> QED
    BY <2>1, <2>2
<1> QED
  BY <1>6, <1>7

\* A handler is let go, or its client is gone.
LEMMA LetGo ==
    ASSUME VerifierInv, NEW h \in Handlers, NEW r \in HandlerRows,
           handler' = [handler EXCEPT ![h] = r],
           \/ r.pc = "free" /\ handler[h].pc = "done"
           \/ /\ r.pc = handler[h].pc /\ r.id = handler[h].id /\ r.params = handler[h].params
              /\ r.on = handler[h].on /\ r.answer = handler[h].answer,
           UNCHANGED <<registry, done, inflight, bound, execVars>>
    PROVE  /\ Slots' /\ Tasks' /\ Futures' /\ Results' /\ Runs'
           /\ handler' \in [Handlers -> HandlerRows] /\ handler'[h] = r
           /\ \A g \in Handlers : g # h => handler'[g] = handler[g]
<1>1. UNCHANGED <<task, slot, procs, ran>> /\ Typed
  BY DEF execVars, VerifierInv
<1>2. /\ handler' \in [Handlers -> HandlerRows] /\ handler'[h] = r
      /\ \A g \in Handlers : g # h => handler'[g] = handler[g]
  BY <1>1 DEF Typed
<1>3. Slots' /\ Tasks' /\ Runs'
  BY <1>1 DEF VerifierInv, Slots, Tasks, Runs, Admitted
<1>4. \A j \in Ids : inflight[j] # None /\ inflight[j] = h => r.pc = "run" /\ r.id = j
  BY DEF VerifierInv, Futures
<1>5. Futures'
  <2>1. \A j \in Ids : inflight'[j] # None =>
          handler'[inflight'[j]].pc = "run" /\ handler'[inflight'[j]].id = j
    BY <1>1, <1>2, <1>4 DEF VerifierInv, Futures, Typed
  <2>2. \A g \in Handlers : handler'[g].pc # "free" =>
          /\ handler'[g].pc = handler[g].pc /\ handler'[g].id = handler[g].id
          /\ handler'[g].params = handler[g].params /\ handler'[g].on = handler[g].on
          /\ handler'[g].answer = handler[g].answer
    BY <1>2
  <2>3. \A g \in Handlers : Working(g)' => Working(g) /\ handler'[g].pc # "free"
    BY <2>2 DEF Working
  <2> QED
    BY <1>1, <2>1, <2>2, <2>3 DEF VerifierInv, Futures, Admitted
<1>6. Results'
  BY <1>2 DEF VerifierInv, Results, Genuine
<1> QED
  BY <1>2, <1>3, <1>5, <1>6

\* Whoever still listens listens for another case.
LEMMA OthersListen ==
    ASSUME VerifierInv, NEW c \in Cases,
           \A d \in Cases : d # c => rows'[d] = rows[d] /\ wanted'[d] = wanted[d],
           \A g \in Handlers : handler'[g].live =>
             /\ handler[g].live /\ handler[g].id[1] # c
             /\ handler'[g].id = handler[g].id /\ handler'[g].pc = handler[g].pc
    PROVE  Listeners'
<1>1. \A g \in Handlers : handler[g].live => handler[g].id[1] \in Cases
  BY DEF VerifierInv, Listeners, Futures, Ids
<1> QED
  BY <1>1 DEF VerifierInv, Listeners

LEMMA ClientTimeoutStep ==
    ASSUME VerifierInv, NEW h \in Handlers, ClientTimeout(h)
    PROVE  VerifierInv'
<1>1. /\ Typed /\ handler[h].live /\ handler[h].pc \in {"wait", "run"}
      /\ handler[h] \in HandlerRows /\ handler[h].id \in Ids /\ handler[h].params \in Params
      /\ wanted[handler[h].id[1]] /\ UNCHANGED <<settings, retries, registry, done, inflight,
                                                 bound, execVars, faults>>
  BY DEF ClientTimeout, VerifierInv, Typed, Futures, Listeners
<1>2. PICK c \in Cases, p \in Params, a \in Answers :
        /\ c = handler[h].id[1] /\ p = handler[h].params
        /\ a = NoRun("infra") /\ a.outcome = "infra"
  BY <1>1, NoRunType DEF Ids, Outcomes
<1>3. Record(c, p, a) /\ Genuine(a, p)
  BY <1>2 DEF ClientTimeout, Genuine
<1>4. /\ Recorded' /\ rows' \in [Cases -> Seq(Rows)] /\ wanted' \in [Cases -> BOOLEAN]
      /\ \A d \in Cases : d # c => rows'[d] = rows[d] /\ wanted'[d] = wanted[d]
  BY <1>1, <1>2, <1>3, RowRecorded
<1> DEFINE r == [handler[h] EXCEPT !.live = FALSE]
<1>5. /\ r \in HandlerRows /\ ~r.live /\ r.pc = handler[h].pc /\ r.id = handler[h].id
      /\ r.params = handler[h].params /\ r.on = handler[h].on /\ r.answer = handler[h].answer
  BY <1>1 DEF HandlerRows
<1>6. handler' = [handler EXCEPT ![h] = r]
  BY <1>1 DEF ClientTimeout, Typed
<1> HIDE DEF r
<1>7. /\ Slots' /\ Tasks' /\ Futures' /\ Results' /\ Runs'
      /\ handler' \in [Handlers -> HandlerRows] /\ handler'[h] = r
      /\ \A g \in Handlers : g # h => handler'[g] = handler[g]
  BY <1>1, <1>5, <1>6, LetGo
<1>8. \A g \in Handlers : g # h /\ handler[g].live => handler[g].id[1] # c
  BY <1>1, <1>2 DEF VerifierInv, Listeners
<1>9. Listeners'
  BY <1>4, <1>5, <1>7, <1>8, OthersListen
<1>10. Typed'
  BY <1>1, <1>4, <1>7 DEF Typed, execVars
<1> QED
  BY <1>4, <1>7, <1>9, <1>10 DEF VerifierInv

LEMMA DeliverStep ==
    ASSUME VerifierInv, NEW h \in Handlers, Deliver(h)
    PROVE  VerifierInv'
<1>1. /\ Typed /\ handler[h].pc = "done" /\ handler' = [handler EXCEPT ![h] = FreeHandler]
      /\ UNCHANGED <<settings, retries, registry, done, inflight, bound, execVars, faults>>
  BY DEF Deliver, VerifierInv
<1>2. FreeHandler \in HandlerRows /\ FreeHandler.pc = "free" /\ ~FreeHandler.live
  BY NoRunType DEF FreeHandler, HandlerRows, Nothing
<1>3. /\ Slots' /\ Tasks' /\ Futures' /\ Results' /\ Runs'
      /\ handler' \in [Handlers -> HandlerRows] /\ handler'[h] = FreeHandler
      /\ \A g \in Handlers : g # h => handler'[g] = handler[g]
  BY <1>1, <1>2, LetGo
<1>4. CASE handler[h].live /\ ~Busy(handler[h].answer)
  <2>1. /\ handler[h].id \in Ids /\ handler[h].params \in Params /\ wanted[handler[h].id[1]]
        /\ handler[h].answer \in Answers
    BY <1>1, <1>4 DEF VerifierInv, Futures, Listeners, Typed, HandlerRows
  <2>2. PICK c \in Cases, p \in Params, a \in Answers :
          c = handler[h].id[1] /\ p = handler[h].params /\ a = handler[h].answer
    BY <2>1 DEF Ids
  <2>3. a.outcome \in {"infra", "exit"} /\ Genuine(a, p) /\ Record(c, p, a)
    BY <1>1, <1>4, <2>2 DEF VerifierInv, Results, Busy, Deliver
  <2>4. /\ Recorded' /\ rows' \in [Cases -> Seq(Rows)] /\ wanted' \in [Cases -> BOOLEAN]
        /\ \A d \in Cases : d # c => rows'[d] = rows[d] /\ wanted'[d] = wanted[d]
    BY <1>1, <2>1, <2>2, <2>3, RowRecorded
  <2>5. \A g \in Handlers : g # h /\ handler[g].live => handler[g].id[1] # c
    BY <1>4, <2>2 DEF VerifierInv, Listeners
  <2>6. Listeners'
    BY <1>2, <1>3, <2>4, <2>5, OthersListen
  <2>7. Typed'
    BY <1>1, <1>3, <2>4 DEF Typed, execVars
  <2> QED
    BY <1>3, <2>4, <2>6, <2>7 DEF VerifierInv
<1>5. CASE ~(handler[h].live /\ ~Busy(handler[h].answer))
  <2>1. UNCHANGED <<rows, wanted>>
    BY <1>5 DEF Deliver
  <2>2. \A g \in Handlers : handler'[g].live =>
          handler[g].live /\ handler'[g].id = handler[g].id /\ handler'[g].pc # "free"
    BY <1>2, <1>3 DEF VerifierInv, Listeners
  <2>3. Listeners' /\ Recorded'
    BY <1>1, <2>1, <2>2, ClientKept DEF VerifierInv
  <2>4. Typed'
    BY <1>1, <1>3, <2>1 DEF Typed, execVars
  <2> QED
    BY <1>3, <2>3, <2>4 DEF VerifierInv
<1> QED
  BY <1>4, <1>5

LEMMA WorkerCrashStep ==
    ASSUME VerifierInv, NEW h \in Handlers, WorkerCrash(h)
    PROVE  VerifierInv'
<1>1. /\ Typed /\ Fault /\ handler[h] \in HandlerRows /\ settings' \in Params
      /\ UNCHANGED <<rows, wanted, retries, registry, done, inflight, bound, execVars>>
  BY DEF WorkerCrash, VerifierInv, Typed
<1> DEFINE r == [handler[h] EXCEPT !.live = FALSE]
<1>2. /\ r \in HandlerRows /\ ~r.live /\ r.pc = handler[h].pc /\ r.id = handler[h].id
      /\ r.params = handler[h].params /\ r.on = handler[h].on /\ r.answer = handler[h].answer
  BY <1>1 DEF HandlerRows
<1>3. handler' = [handler EXCEPT ![h] = r]
  BY <1>1 DEF WorkerCrash, Typed
<1> HIDE DEF r
<1>4. /\ Slots' /\ Tasks' /\ Futures' /\ Results' /\ Runs'
      /\ handler' \in [Handlers -> HandlerRows] /\ handler'[h] = r
      /\ \A g \in Handlers : g # h => handler'[g] = handler[g]
  BY <1>1, <1>2, <1>3, LetGo
<1>5. \A g \in Handlers : handler'[g].live =>
        handler[g].live /\ handler'[g].id = handler[g].id /\ handler'[g].pc # "free"
  BY <1>2, <1>4 DEF VerifierInv, Listeners
<1>6. Listeners' /\ Recorded'
  BY <1>1, <1>5, ClientKept DEF VerifierInv
<1>7. Typed'
  BY <1>1, <1>4, FaultType DEF Typed, execVars
<1> QED
  BY <1>4, <1>6, <1>7 DEF VerifierInv

LEMMA CapabilitiesRefuseStep ==
    ASSUME VerifierInv, NEW c \in Cases, CapabilitiesRefuse(c)
    PROVE  VerifierInv'
<1>1. /\ Typed /\ Fault /\ wanted[c] /\ ~Asking(c) /\ settings \in Params
      /\ UNCHANGED <<settings, retries, registry, frontVars, execVars>>
  BY DEF CapabilitiesRefuse, VerifierInv, Typed
<1>2. UNCHANGED <<handler, done, inflight, bound, task, slot, procs, ran>>
  BY <1>1 DEF frontVars, execVars
<1>3. PICK p \in Params, a \in Answers : p = settings /\ a = NoRun("infra") /\ a.outcome = "infra"
  BY <1>1, NoRunType DEF Outcomes
<1>4. Record(c, p, a) /\ Genuine(a, p)
  BY <1>3 DEF CapabilitiesRefuse, Genuine
<1>5. /\ Recorded' /\ rows' \in [Cases -> Seq(Rows)] /\ wanted' \in [Cases -> BOOLEAN]
      /\ \A d \in Cases : d # c => rows'[d] = rows[d] /\ wanted'[d] = wanted[d]
  BY <1>1, <1>3, <1>4, RowRecorded
<1>6. \A g \in Handlers : handler[g].live => handler[g].id[1] # c
  BY <1>1, NextId DEF Asking
<1>7. Listeners'
  BY <1>2, <1>5, <1>6, OthersListen
<1>8. \A h \in Handlers : Advances(h)
  BY <1>2 DEF Advances, Admitted
<1>9. Futures' /\ Results' /\ Runs' /\ Slots' /\ Tasks'
  BY <1>1, <1>2, <1>8, FrontKept, RunsKept DEF VerifierInv, Slots, Tasks
<1>10. Typed'
  BY <1>1, <1>2, <1>5, FaultType DEF Typed
<1> QED
  BY <1>5, <1>7, <1>9, <1>10 DEF VerifierInv

LEMMA RetryProbeStep ==
    ASSUME VerifierInv, NEW c \in Cases, RetryProbe(c)
    PROVE  VerifierInv'
<1>1. /\ Typed /\ ~wanted[c] /\ wanted' = [wanted EXCEPT ![c] = TRUE] /\ retries' = retries + 1
      /\ retries' \in 0 .. MaxRetries
      /\ UNCHANGED <<rows, settings, registry, frontVars, execVars, faults>>
  BY VerifierAssumption DEF RetryProbe, VerifierInv, Typed
<1>2. UNCHANGED <<handler, done, inflight, bound, task, slot, procs, ran>>
  BY <1>1 DEF frontVars, execVars
<1>3. /\ wanted' \in [Cases -> BOOLEAN] /\ wanted'[c]
      /\ \A d \in Cases : d # c => wanted'[d] = wanted[d]
  BY <1>1 DEF Typed
<1>4. Recorded'
  <2>1. \A d \in Cases : Len(rows[d]) \in Nat /\ retries \in Nat
    BY <1>1, LenProperties DEF Typed
  <2>2. \A d \in Cases : /\ Len(rows'[d]) <= retries' + 1
                         /\ wanted'[d] => Len(rows'[d]) <= retries'
    BY <1>1, <1>3, <2>1 DEF VerifierInv, Recorded
  <2> QED
    BY <1>1, <2>2 DEF VerifierInv, Recorded, VerdictOf, Genuine
<1>5. \A g \in Handlers : handler[g].live => handler[g].id[1] # c
  BY <1>1 DEF VerifierInv, Listeners
<1>6. Listeners'
  BY <1>1, <1>2, <1>3, <1>5, OthersListen
<1>7. \A h \in Handlers : Advances(h)
  BY <1>2 DEF Advances, Admitted
<1>8. Futures' /\ Results' /\ Runs' /\ Slots' /\ Tasks'
  BY <1>1, <1>2, <1>7, FrontKept, RunsKept DEF VerifierInv, Slots, Tasks
<1>9. Typed'
  BY <1>1, <1>2, <1>3 DEF Typed
<1> QED
  BY <1>4, <1>6, <1>8, <1>9 DEF VerifierInv
-----------------------------------------------------------------------------
(***************************************************************************)
(* The inductive invariant, and what follows from it.                       *)
(***************************************************************************)
LEMMA InitHolds ==
    ASSUME Init
    PROVE  VerifierInv
<1>1. /\ rows = [c \in Cases |-> <<>>] /\ wanted = [c \in Cases |-> TRUE]
      /\ handler = [h \in Handlers |-> FreeHandler] /\ task = [h \in Handlers |-> FreeTask]
      /\ done = [i \in Ids |-> Nothing] /\ inflight = [i \in Ids |-> None]
      /\ bound = [i \in Ids |-> None] /\ ran = [i \in Ids |-> 0]
      /\ slot = None /\ procs = {} /\ retries = 0 /\ faults = 0
      /\ settings = "old" /\ registry = "approved"
  BY DEF Init
<1>2. FreeHandler \in HandlerRows /\ FreeHandler.pc = "free" /\ ~FreeHandler.live
  BY NoRunType DEF FreeHandler, HandlerRows, Nothing
<1>3. Nothing \in Answers /\ Nothing.outcome = "none"
  BY NoRunType DEF Nothing
<1>4. Typed
  <2>1. rows \in [Cases -> Seq(Rows)]
    BY <1>1
  <2> QED
    BY <1>1, <1>2, <1>3, <2>1, FreeTaskOk, VerifierAssumption DEF Typed, Params, Versions
<1>5. Slots /\ Tasks
  BY <1>1, FreeTaskOk, VerifierAssumption DEF Slots, Tasks, Running
<1>6. Futures /\ Results /\ Runs /\ Listeners
  BY <1>1, <1>2, <1>3 DEF Futures, Results, Runs, Listeners, Working, Genuine
<1>7. Recorded
  BY <1>1 DEF Recorded
<1> QED
  BY <1>4, <1>5, <1>6, <1>7 DEF VerifierInv

LEMMA NextHolds ==
    ASSUME VerifierInv, [Next]_vars
    PROVE  VerifierInv'
<1>1. CASE \E c \in Cases : Ask(c) \/ CapabilitiesRefuse(c) \/ RetryProbe(c)
  BY <1>1, AskStep, CapabilitiesRefuseStep, RetryProbeStep
<1>2. ASSUME NEW h \in Handlers,
             \/ FrontStep(h) \/ RunStep(h)
             \/ ClientTimeout(h) \/ WorkerCrash(h) \/ ExecutorTimeout(h)
             \/ Fork(h) \/ ScriptEnds(h)
      PROVE  VerifierInv'
  <2>1. CASE FrontStep(h)
    BY <2>1, StartStep, ExecutorAnswersStep, DeliverStep DEF FrontStep
  <2>2. CASE RunStep(h)
    BY <2>2, AdmitStep, PrepareStep, ScriptStep, CleanupStep, SweepStep DEF RunStep
  <2> QED
    BY <1>2, <2>1, <2>2, ClientTimeoutStep, WorkerCrashStep, ExecutorTimeoutStep, ForkStep,
       ScriptStep
<1>3. CASE \E id \in Ids : Evict(id)
  BY <1>3, EvictStep
<1>4. CASE FrontRestart \/ ExecutorRestart \/ RegistryChanges
  BY <1>4, FrontRestartStep, ExecutorRestartStep, RegistryChangesStep
<1>5. CASE UNCHANGED vars
  <2>1. UNCHANGED <<rows, wanted, settings, retries, registry, handler, done, inflight, bound,
                    task, slot, procs, ran, faults>>
    BY <1>5 DEF vars, clientVars, frontVars, execVars
  <2>2. UNCHANGED frontVars /\ \A h \in Handlers : Advances(h)
    BY <2>1 DEF frontVars, Advances, Admitted
  <2>3. Futures' /\ Results' /\ Runs' /\ Slots' /\ Tasks'
    BY <2>1, <2>2, FrontKept, RunsKept DEF VerifierInv, Slots, Tasks
  <2>4. Listeners' /\ Recorded'
    BY <2>1, ClientKept DEF VerifierInv, Listeners
  <2>5. Typed'
    BY <2>1 DEF VerifierInv, Typed
  <2> QED
    BY <2>3, <2>4, <2>5 DEF VerifierInv
<1> QED
  BY <1>1, <1>2, <1>3, <1>4, <1>5 DEF Next

LEMMA Inductive == Spec => []VerifierInv
<1>1. Init => VerifierInv
  BY InitHolds
<1>2. VerifierInv /\ [Next]_vars => VerifierInv'
  BY NextHolds
<1> QED
  BY <1>1, <1>2, PTL DEF Spec

\* Rows, handlers, stored results, tasks and processes are of their types, and a case has
\* one row more than it was retried at most.
THEOREM TypeCorrect == Spec => []TypeOK
<1>1. VerifierInv => TypeOK
  <2> SUFFICES ASSUME VerifierInv PROVE TypeOK
    OBVIOUS
  <2>1. Typed
    BY DEF VerifierInv
  <2>2. \A c \in Cases : /\ Len(rows[c]) <= MaxRetries + 1
                         /\ \A i \in DOMAIN rows[c] : rows[c][i] \in Rows
    <3> SUFFICES ASSUME NEW c \in Cases
                 PROVE  /\ Len(rows[c]) <= MaxRetries + 1
                        /\ \A i \in DOMAIN rows[c] : rows[c][i] \in Rows
      OBVIOUS
    <3>1. rows[c] \in Seq(Rows) /\ Len(rows[c]) <= retries + 1 /\ retries \in 0 .. MaxRetries
      BY <2>1 DEF Typed, VerifierInv, Recorded
    <3>2. Len(rows[c]) \in Nat /\ \A i \in DOMAIN rows[c] : rows[c][i] \in Rows
      BY <3>1, LenProperties, ElementOfSeq
    <3> QED
      BY <3>1, <3>2, VerifierAssumption
  <2>3. ran \in [Ids -> 0 .. 2]
    <3>1. \A id \in Ids : ran[id] \in 0 .. 2
      BY <2>1 DEF Typed, VerifierInv, Runs
    <3> QED
      BY <2>1, <3>1 DEF Typed
  <2> QED
    BY <2>1, <2>2, <2>3 DEF Typed, TypeOK, Rows, HandlerRows, TaskRows
<1> QED
  BY <1>1, Inductive, PTL

\* kill_marked_processes() and kill_stray_processes(), called while the slot is still held:
\* whatever probes fork, and however front, executor and worker restart, no process is left
\* when the slot is free, and none that could write into a workspace that is gone.
THEOREM NothingIsLeftBehind == Spec => []NothingOutlivesItsRun
<1>1. VerifierInv => NothingOutlivesItsRun
  <2> SUFFICES ASSUME VerifierInv PROVE NothingOutlivesItsRun
    OBVIOUS
  <2>1. \A p \in procs : p[1] = slot /\ p[1] \in Handlers
    BY DEF VerifierInv, Slots, Typed
  <2>2. slot = None => procs = {}
    BY <2>1, VerifierAssumption
  <2>3. ASSUME NEW h \in Handlers, task[h].pc \in {"sweep", "done"}
        PROVE  <<h, "main">> \notin procs /\ <<h, "marked">> \notin procs
    <3>1. CASE task[h].pc = "sweep"
      BY <3>1 DEF VerifierInv, Slots
    <3>2. CASE task[h].pc = "done"
      <4>1. slot # h
        BY <3>2 DEF VerifierInv, Slots, Running
      <4> QED
        BY <2>1, <4>1
    <3> QED
      BY <2>3, <3>1, <3>2
  <2> QED
    BY <2>2, <2>3 DEF NothingOutlivesItsRun
<1> QED
  BY <1>1, Inductive, PTL

\* run_probe and _ResultStore: however often a worker dies and asks again, an id is given
\* the slot once as long as the front has not forgotten it.
THEOREM OneRunPerRequest == Spec => []RunsOnce
<1>1. VerifierInv => RunsOnce
  BY DEF VerifierInv, Runs, RunsOnce
<1> QED
  BY <1>1, Inductive, PTL

\* fingerprint(), bind(), spec_for() and the sweep together: a verdict on the product is the
\* outcome of an undisturbed run of the approved probe under the parameters of the request.
THEOREM VerdictsGenuine == Spec => []VerdictsAreGenuine
<1>1. VerifierInv => VerdictsAreGenuine
  <2> SUFFICES ASSUME VerifierInv, NEW c \in Cases, NEW i \in DOMAIN rows[c],
                      rows[c][i].verdict # "INFRASTRUCTURE"
               PROVE  /\ rows[c][i].answer.params = rows[c][i].params
                      /\ rows[c][i].answer.version = "approved"
                      /\ rows[c][i].answer.clean
    BY DEF VerdictsAreGenuine
  <2>1. /\ rows[c][i].verdict = VerdictOf(rows[c][i].answer)
        /\ Genuine(rows[c][i].answer, rows[c][i].params)
    BY DEF VerifierInv, Recorded
  <2> QED
    BY <2>1 DEF VerdictOf, Genuine
<1> QED
  BY <1>1, Inductive, PTL

\* VerifierBusyError: the refusal of a busy executor, or the exception its other callers get,
\* is never recorded as an execution.
THEOREM BusyNeverRecorded == Spec => []BusyIsNoVerdict
<1>1. VerifierInv => BusyIsNoVerdict
  BY DEF VerifierInv, Recorded, BusyIsNoVerdict
<1> QED
  BY <1>1, Inductive, PTL
=============================================================================
