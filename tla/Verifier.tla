------------------------------ MODULE Verifier ------------------------------
(***************************************************************************)
(* The probe verifier: the worker's RemoteProbeRunner, the front service   *)
(* with its idempotency store, and the executor that runs one probe at a   *)
(* time and then kills every process of the probe user.                    *)
(*                                                                         *)
(* A request id names one execution: a case and the number of executions   *)
(* already recorded for it (the snapshot, target and commit are fixed      *)
(* here).  A handler is one POST /probe in the front; it goes on when its  *)
(* client is gone, because nothing cancels a handler on a disconnect.      *)
(* task[h] is the POST /run the front made for handler h.                  *)
(*                                                                         *)
(* The life of a case around its probes is RemediationPipeline's; here a   *)
(* case only wants a verdict, records what it is told, and may be retried. *)
(***************************************************************************)
EXTENDS Naturals, Sequences, FiniteSetsExt

CONSTANTS
    Cases,          \* cases with a probe to run
    None,           \* no handler, id, parameters or version
    MaxHandlers,    \* bound: handlers alive at once
    MaxRetries,     \* bound: operator retries, of all cases
    MaxFaults       \* bound: crashes, restarts, evictions, failed steps

Handlers == 1 .. MaxHandlers
Ids == Cases \X (0 .. MaxRetries)
Params == {"old", "new"}      \* request parameters the worker's settings give
Versions == {"approved", "changed"}

ASSUME VerifierAssumption ==
    /\ MaxHandlers \in Nat \ {0}
    /\ MaxRetries \in Nat
    /\ MaxFaults \in Nat
    /\ None \notin Handlers /\ None \notin Params /\ None \notin Versions

ProcKinds == {"main", "marked", "escaped"}

\* What a probe run comes to, and what it was a run of: a script that ended (with
\* the expected code or not) or an infrastructure error; or why there is no run:
\* 409 at capacity, or 500.
Outcomes == {"infra", "exit"}
Refusals == {"busy", "error"}
Answers == [outcome : Outcomes \cup Refusals \cup {"none"},
            params : Params \cup {None}, version : Versions \cup {None}, clean : BOOLEAN]

NoRun(why) == [outcome |-> why, params |-> None, version |-> None, clean |-> TRUE]
Nothing == NoRun("none")

VARIABLES
    rows,       \* probe_executions of each case
    wanted,     \* the case has a probe to run
    settings,   \* the parameters the worker's settings give
    registry,   \* the content of the probe registry
    handler,    \* the front's request handlers
    done,       \* _ResultStore._done
    inflight,   \* _ResultStore._inflight
    bound,      \* _ResultStore._fingerprints
    task,       \* the executor's request handlers
    slot,       \* who holds the executor's semaphore
    procs,      \* live processes of the probe user
    ran,        \* executions of an id the front has not forgotten
    retries,    \* operator retries so far
    faults      \* faults so far

clientVars == <<rows, wanted, settings, retries>>
frontVars == <<handler, done, inflight, bound>>
execVars == <<task, slot, procs, ran>>
vars == <<clientVars, registry, frontVars, execVars, faults>>

FreeHandler == [pc |-> "free", id |-> None, params |-> None, live |-> FALSE,
                on |-> None, answer |-> Nothing]
FreeTask == [pc |-> "free", outcome |-> "none", version |-> None, clean |-> TRUE]

TaskPcs == {"free", "spec", "prepare", "execute", "cleanup", "sweep", "done"}

TypeOK ==
    /\ \A c \in Cases :
         /\ Len(rows[c]) <= MaxRetries + 1
         /\ \A i \in DOMAIN rows[c] :
              rows[c][i] \in [verdict : {"INFRASTRUCTURE", "PRODUCT"},
                              params : Params, answer : Answers]
    /\ wanted \in [Cases -> BOOLEAN]
    /\ settings \in Params
    /\ registry \in Versions
    /\ handler \in [Handlers ->
         [pc : {"free", "spec", "wait", "run", "done"}, id : Ids \cup {None},
          params : Params \cup {None}, live : BOOLEAN, on : Handlers \cup {None},
          answer : Answers]]
    /\ done \in [Ids -> Answers]
    /\ inflight \in [Ids -> Handlers \cup {None}]
    /\ bound \in [Ids -> Params \cup {None}]
    /\ task \in [Handlers -> [pc : TaskPcs, outcome : Outcomes \cup Refusals \cup {"none"},
                              version : Versions \cup {None}, clean : BOOLEAN]]
    /\ slot \in Handlers \cup {None}
    /\ procs \subseteq Handlers \X ProcKinds
    /\ ran \in [Ids -> 0 .. 2]
    /\ retries \in 0 .. MaxRetries
    /\ faults \in 0 .. MaxFaults

Init ==
    /\ rows = [c \in Cases |-> <<>>]
    /\ wanted = [c \in Cases |-> TRUE]
    /\ settings = "old"
    /\ registry = "approved"
    /\ handler = [h \in Handlers |-> FreeHandler]
    /\ done = [i \in Ids |-> Nothing]
    /\ inflight = [i \in Ids |-> None]
    /\ bound = [i \in Ids |-> None]
    /\ task = [h \in Handlers |-> FreeTask]
    /\ slot = None
    /\ procs = {}
    /\ ran = [i \in Ids |-> 0]
    /\ retries = 0
    /\ faults = 0

Fault == faults < MaxFaults /\ faults' = faults + 1

(***************************************************************************)
(* The worker.                                                             *)
(***************************************************************************)

\* Deterministic per case and ordinal: as many executions as are recorded.
request_id(c) == <<c, Len(rows[c])>>

Asking(c) == \E h \in Handlers : handler[h].live /\ handler[h].id = request_id(c)

\* The front is still binding the id to the registry, or the executor is about
\* to answer that it is busy: seconds, where a dead worker's lease takes minutes.
Binding(id) ==
    \E h \in Handlers :
        /\ handler[h].id = id
        /\ \/ handler[h].pc = "spec"
           \/ handler[h].pc = "run" /\ task[h].pc = "spec"
           \/ handler[h].pc = "run" /\ task[h].outcome = "busy"

\* A handler's place may be used again once both sides are finished with it.
Unused(h) ==
    /\ handler[h].pc = "free"
    /\ task[h].pc = "free"
    /\ \A g \in Handlers : handler[g].on # h

\* The verdict: matched or mismatched by the exit code, or infrastructure.  A run
\* reports what it was a run of, and a report about something else is an
\* infrastructure failure.
VerdictOf(answer) ==
    IF answer.outcome = "exit" THEN "PRODUCT" ELSE "INFRASTRUCTURE"

Record(c, params, answer) ==
    /\ rows' = [rows EXCEPT ![c] = Append(@,
         [verdict |-> VerdictOf(answer), params |-> params, answer |-> answer])]
    /\ wanted' = [wanted EXCEPT ![c] = FALSE]

\* A mutant that treats 409 as any other failure.
Busy_Infra(answer) == FALSE

\* 409 at capacity is VerifierBusyError: nothing is recorded, the job is retried.
Busy(answer) == answer.outcome = "busy"

\* The answer reaches the worker, if it is still there.
Deliver(h) ==
    /\ handler[h].pc = "done"
    /\ handler' = [handler EXCEPT ![h] = FreeHandler]
    /\ IF handler[h].live /\ ~Busy(handler[h].answer)
       THEN Record(handler[h].id[1], handler[h].params, handler[h].answer)
       ELSE UNCHANGED <<rows, wanted>>
    /\ UNCHANGED <<settings, retries, registry, done, inflight, bound, execVars, faults>>

\* A mutant that still listens for the answer it gave up on.
ClientTimeout_Live(h) ==
    /\ handler[h].live
    /\ handler[h].pc \in {"wait", "run"}
    /\ Record(handler[h].id[1], handler[h].params, NoRun("infra"))
    /\ UNCHANGED <<settings, retries, registry, frontVars, execVars, faults>>

\* The worker's HTTP call times out; the handler in the front does not notice.
ClientTimeout(h) ==
    /\ handler[h].live
    /\ handler[h].pc \in {"wait", "run"}
    /\ handler' = [handler EXCEPT ![h].live = FALSE]
    /\ Record(handler[h].id[1], handler[h].params, NoRun("infra"))
    /\ UNCHANGED <<settings, retries, registry, done, inflight, bound, execVars, faults>>

\* The verifier's self-report cannot be trusted, or lacks what the probe needs:
\* no request is sent.
CapabilitiesRefuse(c) ==
    /\ Fault
    /\ wanted[c]
    /\ ~Asking(c)
    /\ Record(c, settings, NoRun("infra"))
    /\ UNCHANGED <<settings, retries, registry, frontVars, execVars>>

\* The worker dies; it may come back with other settings.
WorkerCrash(h) ==
    /\ Fault
    /\ handler[h].live
    /\ handler' = [handler EXCEPT ![h].live = FALSE]
    /\ settings' \in Params
    /\ UNCHANGED <<rows, wanted, retries, registry, done, inflight, bound, execVars>>

\* The operator retries an infrastructure failure.
RetryProbe(c) ==
    /\ retries < MaxRetries
    /\ ~wanted[c]
    /\ rows[c][Len(rows[c])].verdict = "INFRASTRUCTURE"
    /\ wanted' = [wanted EXCEPT ![c] = TRUE]
    /\ retries' = retries + 1
    /\ UNCHANGED <<rows, settings, registry, frontVars, execVars, faults>>

(***************************************************************************)
(* The front.                                                              *)
(***************************************************************************)

Answered(h, a) == [handler[h] EXCEPT !.pc = "done", !.on = None, !.answer = a]
Answer(h, a) == [handler EXCEPT ![h] = Answered(h, a)]

\* _ResultStore.bind: the id is new, or was bound to these very parameters.
CanBind(id, params) == bound[id] \in {None, params}

\* run_probe up to its first await: conflict, replay, wait for the run in
\* flight, or go on to the registry.
Receive(h, id, params) ==
    LET new == [FreeHandler EXCEPT !.id = id, !.params = params, !.live = TRUE]
    IN  /\ bound' = IF bound[id] = None THEN [bound EXCEPT ![id] = params] ELSE bound
        /\ handler' = [handler EXCEPT ![h] =
             IF ~CanBind(id, params)
             THEN [new EXCEPT !.pc = "done", !.answer = NoRun("infra")]
             ELSE IF done[id].outcome # "none"
             THEN [new EXCEPT !.pc = "done", !.answer = done[id]]
             ELSE IF inflight[id] # None
             THEN [new EXCEPT !.pc = "wait", !.on = inflight[id]]
             ELSE [new EXCEPT !.pc = "spec"]]

\* _execute_probe and run: ask the verifier for the execution after the recorded
\* ones.  The front's handler runs up to its first await as the request arrives.
Ask(c) ==
    /\ wanted[c]
    /\ ~Asking(c)
    /\ ~Binding(request_id(c))
    /\ \E h \in Handlers :
         /\ Unused(h)
         /\ \A g \in Handlers : g < h => ~Unused(g)
         /\ Receive(h, request_id(c), settings)
    /\ UNCHANGED <<clientVars, registry, done, inflight, execVars, faults>>

\* spec_for: the registry holds exactly the content the request names.
Approved == registry = "approved"

\* spec_for in the front, then start() and the POST to the executor.
Start(h) ==
    /\ handler[h].pc = "spec"
    /\ IF Approved
       THEN /\ handler' = [handler EXCEPT ![h].pc = "run"]
            /\ inflight' = [inflight EXCEPT ![handler[h].id] = h]
            /\ task' = [task EXCEPT ![h].pc = "spec"]
       ELSE /\ handler' = Answer(h, NoRun("infra"))
            /\ UNCHANGED <<inflight, task>>
    /\ UNCHANGED <<clientVars, registry, done, bound, slot, procs, ran, faults>>

\* Handler h answers a.  The id's future is popped, whoever started it, and
\* every handler waiting on that future wakes up with v.
Resolve(h, a, v) ==
    LET id == handler[h].id
    IN  /\ inflight' = [inflight EXCEPT ![id] = None]
        /\ handler' = [g \in Handlers |->
             IF g = h THEN Answered(g, a)
             ELSE IF handler[g].pc = "wait" /\ handler[g].on = inflight[id]
             THEN Answered(g, v)
             ELSE handler[g]]

\* A mutant that answers without storing the result.
finish_Forgets(h, result) ==
    /\ Resolve(h, result, result)
    /\ UNCHANGED <<bound, done>>

\* _ResultStore.finish
finish(h, result) ==
    /\ Resolve(h, result, result)
    /\ done' = [done EXCEPT ![handler[h].id] = result]
    /\ UNCHANGED bound

\* _ResultStore.abort: who waits gets the exception, and the id is free again.
abort(h) ==
    /\ Resolve(h, NoRun("busy"), NoRun("error"))
    /\ bound' = [bound EXCEPT ![handler[h].id] = None]
    /\ UNCHANGED done

\* What the executor reports, checked against what was asked; or _infra.
ResultOf(h) ==
    IF task[h].outcome = "infra" THEN NoRun("infra")
    ELSE [outcome |-> task[h].outcome, params |-> handler[h].params,
          version |-> task[h].version, clean |-> task[h].clean]

\* The executor's response arrives.
ExecutorAnswers(h) ==
    /\ handler[h].pc = "run"
    /\ task[h].pc = "done"
    /\ \/ task[h].outcome = "busy" /\ abort(h)
       \/ task[h].outcome # "busy" /\ finish(h, ResultOf(h))
    /\ task' = [task EXCEPT ![h] = FreeTask]
    /\ UNCHANGED <<clientVars, registry, slot, procs, ran, faults>>

\* The front gives up on the executor and stores an infrastructure failure; the
\* executor goes on.
ExecutorTimeout(h) ==
    /\ handler[h].pc = "run"
    /\ task[h].pc \in {"prepare", "execute", "cleanup", "sweep"}
    /\ finish(h, NoRun("infra"))
    /\ UNCHANGED <<clientVars, registry, execVars, faults>>

\* _evict: a result is too old, or one too many.
Evict(id) ==
    /\ Fault
    /\ done[id].outcome # "none"
    /\ done' = [done EXCEPT ![id] = Nothing]
    /\ bound' = [bound EXCEPT ![id] = None]
    /\ ran' = [ran EXCEPT ![id] = 0]
    /\ UNCHANGED <<clientVars, registry, handler, inflight, task, slot, procs>>

\* The front restarts with an empty store; its clients see the call fail.
FrontRestart ==
    /\ Fault
    /\ handler' = [h \in Handlers |->
         IF handler[h].pc = "free" THEN handler[h]
         ELSE Answered(h, NoRun("infra"))]
    /\ done' = [i \in Ids |-> Nothing]
    /\ inflight' = [i \in Ids |-> None]
    /\ bound' = [i \in Ids |-> None]
    /\ ran' = [i \in Ids |-> 0]
    /\ task' = [h \in Handlers |-> IF task[h].pc = "done" THEN FreeTask ELSE task[h]]
    /\ UNCHANGED <<clientVars, registry, slot, procs>>

(***************************************************************************)
(* The executor.                                                           *)
(***************************************************************************)

\* The task's outcome is settled and its cleanup begins.
Conclude(h, outcome) ==
    task' = [task EXCEPT ![h].pc = "cleanup", ![h].outcome = outcome]

\* The response of POST /run, which nobody reads once the front has given up.
Respond(h, outcome) ==
    IF handler[h].pc = "run" THEN [task[h] EXCEPT !.pc = "done", !.outcome = outcome]
    ELSE FreeTask

\* POST /run: bind to the registry again, then take the slot or refuse.  The
\* test and the acquisition have no await between them.
Admit(h) ==
    /\ task[h].pc = "spec"
    /\ IF ~Approved \/ slot # None
       THEN /\ task' = [task EXCEPT ![h] = Respond(h, IF Approved THEN "busy" ELSE "infra")]
            /\ UNCHANGED <<slot, ran>>
       ELSE /\ slot' = h
            /\ task' = [task EXCEPT ![h].pc = "prepare", ![h].version = registry]
            /\ ran' = IF handler[h].pc = "run"
                      THEN [ran EXCEPT ![handler[h].id] = Min({2, @ + 1})] ELSE ran
    /\ UNCHANGED <<clientVars, registry, frontVars, procs, faults>>

\* A tool is missing, the commit cannot be fetched or is not the one asked for, or
\* a setup step fails or runs out of time: never a verdict on the product.
Unprepared(h) == Fault /\ Conclude(h, "infra")

\* Preflight, the fetch of the exact commit, the check of its identity and the
\* manifest's setup steps; then the script starts.  Any of them may fail.
Prepare(h) ==
    /\ task[h].pc = "prepare"
    /\ \/ /\ task' = [task EXCEPT ![h].pc = "execute"]
          /\ procs' = procs \cup {<<h, "main">>}
          /\ UNCHANGED faults
       \/ Unprepared(h) /\ UNCHANGED procs
    /\ UNCHANGED <<clientVars, registry, frontVars, slot, ran>>

\* Repository code leaves a process behind: in a session of its own but still
\* carrying the run's marker, or with neither.
Fork(h) ==
    /\ task[h].pc \in {"prepare", "execute"}
    /\ \E kind \in {"marked", "escaped"} : procs' = procs \cup {<<h, kind>>}
    /\ UNCHANGED <<clientVars, registry, frontVars, task, slot, ran, faults>>

\* The script ends; one that somebody killed reports an exit code as well.
ScriptEnds(h) ==
    /\ task[h].pc = "execute"
    /\ Conclude(h, "exit")
    /\ procs' = procs \ {<<h, "main">>}
    /\ UNCHANGED <<clientVars, registry, frontVars, slot, ran, faults>>

\* A mutant whose deadline covers the output only: a script that closed it and
\* stays is never killed.
Overdue_Output(h) == FALSE

\* The deadline covers the script's exit, whatever it did with its output.
Overdue(h) == task[h].pc = "execute"

\* The timeout kills the script's group and whatever carries the marker.
ScriptTimeout(h) ==
    /\ Overdue(h)
    /\ procs' = procs \ {<<h, "main">>, <<h, "marked">>}
    /\ Conclude(h, "exit")
    /\ UNCHANGED <<clientVars, registry, frontVars, slot, ran, faults>>

\* kill_marked_processes: what still carries the run's marker.
Marked(h) == {<<h, "marked">>}

\* A mutant that gives the slot back before the sweep.
Cleanup_Releases(h) ==
    /\ task[h].pc = "cleanup"
    /\ task' = [task EXCEPT ![h].pc = "sweep"]
    /\ procs' = procs \ Marked(h)
    /\ slot' = None
    /\ UNCHANGED <<clientVars, registry, frontVars, ran, faults>>

\* run()'s finally: kill the marked processes, remove the workspace.
Cleanup(h) ==
    /\ task[h].pc = "cleanup"
    /\ task' = [task EXCEPT ![h].pc = "sweep"]
    /\ procs' = procs \ Marked(h)
    /\ UNCHANGED <<clientVars, registry, frontVars, slot, ran, faults>>

\* A mutant that only knows the run's marker.
Strays_Marked == {p \in procs : p[2] = "marked"}

\* kill_stray_processes: every process of the probe user.
Strays == procs

\* /run's finally, still holding the slot; then the slot is released.
Sweep(h) ==
    /\ task[h].pc = "sweep"
    /\ procs' = procs \ Strays
    /\ task' = [g \in Handlers |->
         IF g = h THEN Respond(h, task[h].outcome)
         ELSE [task[g] EXCEPT !.clean = @ /\ <<g, "main">> \notin Strays]]
    /\ slot' = IF slot = h THEN None ELSE slot
    /\ UNCHANGED <<clientVars, registry, frontVars, ran, faults>>

\* The executor restarts: its container takes every process with it, and the
\* front sees its calls fail.
ExecutorRestart ==
    /\ Fault
    /\ task' = [h \in Handlers |->
         IF task[h].pc \in {"free", "done"} THEN task[h] ELSE Respond(h, "infra")]
    /\ slot' = None
    /\ procs' = {}
    /\ UNCHANGED <<clientVars, registry, frontVars, ran>>

\* Somebody changes the registered probe after the case took its snapshot.
RegistryChanges ==
    /\ Fault
    /\ registry' = "changed"
    /\ registry = "approved"
    /\ UNCHANGED <<clientVars, frontVars, execVars>>

(***************************************************************************)
(* The specification.                                                      *)
(***************************************************************************)

FrontStep(h) == Start(h) \/ ExecutorAnswers(h) \/ Deliver(h)

RunStep(h) == Admit(h) \/ Prepare(h) \/ ScriptTimeout(h) \/ Cleanup(h)
              \/ Sweep(h)

Next ==
    \/ \E c \in Cases : Ask(c) \/ CapabilitiesRefuse(c) \/ RetryProbe(c)
    \/ \E h \in Handlers :
         \/ FrontStep(h) \/ RunStep(h)
         \/ ClientTimeout(h) \/ WorkerCrash(h) \/ ExecutorTimeout(h)
         \/ Fork(h) \/ ScriptEnds(h)
    \/ \E id \in Ids : Evict(id)
    \/ FrontRestart \/ ExecutorRestart \/ RegistryChanges

Spec == Init /\ [][Next]_vars

\* Handlers and tasks go on, every subprocess is killed at its deadline, every
\* HTTP call ends at its timeout, and the worker comes back to a case that wants
\* its verdict.
FairSpec ==
    /\ Spec
    /\ \A h \in Handlers :
         /\ WF_vars(FrontStep(h)) /\ WF_vars(RunStep(h))
         /\ WF_vars(ExecutorTimeout(h)) /\ WF_vars(ClientTimeout(h))
    /\ \A c \in Cases : WF_vars(Ask(c))

(***************************************************************************)
(* Properties.                                                             *)
(***************************************************************************)

\* A verdict on the product recorded for a case is the outcome of a run of the
\* probe the case took its snapshot of, under the parameters the case asked
\* with, that no other run's sweep has killed (verifier/__init__.py 20-29,
\* executor.py 106-112).
VerdictsAreGenuine ==
    \A c \in Cases : \A i \in DOMAIN rows[c] :
        rows[c][i].verdict # "INFRASTRUCTURE" =>
            /\ rows[c][i].answer.params = rows[c][i].params
            /\ rows[c][i].answer.version = "approved"
            /\ rows[c][i].answer.clean

\* Nothing repository code started outlives its run: no process while the slot
\* is free, and none that writes into the workspace when it is removed
\* (runner.py 415-418, executor.py 324-326).
NothingOutlivesItsRun ==
    /\ slot = None => procs = {}
    /\ \A h \in Handlers : task[h].pc \in {"sweep", "done"} =>
         {<<h, "main">>, <<h, "marked">>} \cap procs = {}

\* A request id runs once: a worker that died and asks again gets the stored
\* verdict or waits for the run in flight, as long as the front has not
\* forgotten the id (remediation.py 1322-1324, verifier/__init__.py 31-34).
RunsOnce == \A id \in Ids : ran[id] <= 1

\* A verifier that was busy is never recorded as an infrastructure failure
\* (remote.py 38-40).
BusyIsNoVerdict ==
    \A c \in Cases : \A i \in DOMAIN rows[c] : rows[c][i].answer.outcome \notin {"busy", "error"}

\* A case that wants a verdict gets a row in the end, whoever holds the slot,
\* hangs, crashes or restarts.
EveryProbeSettles == \A c \in Cases : wanted[c] ~> ~wanted[c]
=============================================================================
