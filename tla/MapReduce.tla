----------------------------- MODULE MapReduce ------------------------------
(***************************************************************************)
(* The MapReduce coordinator and its workers (mr/coordinator.go,           *)
(* mr/worker.go).                                                          *)
(*                                                                         *)
(* The coordinator's goroutines are counted per task: those that block on  *)
(* taskCh with the task to hand out (sending), those in traceTask          *)
(* (tracing), and those that block on the task's traceCh with a report     *)
(* (reporting).  Map and reduce functions are deterministic, so a file is  *)
(* the fact that it exists: a second rename replaces it by the same.       *)
(***************************************************************************)
EXTENDS Integers, FiniteSets

CONSTANTS mM, nR,       \* the number of map and of reduce tasks
          Worker,
          Crashing,     \* the workers that may die
          MaxTimeouts   \* bound on the timeouts of tasks that are not lost

ASSUME MapReduceAssumption ==
    /\ mM \in Nat /\ nR \in Nat /\ MaxTimeouts \in Nat
    /\ Crashing \subseteq Worker

VARIABLES phase, taskQuantity, taskFinished,
          sending, tracing, reporting,
          handler,      \* per worker: its GetTask call inside the coordinator
          worker,       \* per worker: what it does and on which task
          todo,         \* per worker: the temp files it has yet to rename
          files,        \* the intermediate files mr-<map>-<reduce>
          outputs,      \* the output files mr-out-<reduce>
          running,      \* whether the coordinator process is alive
          timeouts

phaseVars == <<phase, taskQuantity, taskFinished>>
fileVars == <<todo, files, outputs>>
jobVars == <<phaseVars, sending, tracing, reporting, handler, worker, fileVars, running, timeouts>>

MapPhase == "Map"
ReducePhase == "Reduce"
FinishedPhase == "Finished"

Tasks(type, quantity) == {<<type, id>> : id \in 0..(quantity - 1)}
FinishedTask == <<FinishedPhase, -1>>
Task == Tasks(MapPhase, mM) \union Tasks(ReducePhase, nR) \union {FinishedTask}
NoTask == <<"", 0>>

\* What a worker is doing.
AtRest == [on |-> "idle", task |-> NoTask]
Asking == [on |-> "asking", task |-> NoTask]
Gone == [on |-> "gone", task |-> NoTask]

\* One goroutine more, and one less, for task t.
Add(count, t) == [count EXCEPT ![t] = @ + 1]
Take(count, t) == [count EXCEPT ![t] = @ - 1]

\* The goroutines that execPhase starts.
Queued(type, quantity) ==
    IF quantity = -1 THEN {FinishedTask} ELSE Tasks(type, quantity)
-----------------------------------------------------------------------------
\* MakeCoordinator
JobInit ==
    /\ phase = MapPhase /\ taskQuantity = mM /\ taskFinished = 0
    /\ sending = [t \in Task |-> IF t \in Queued(MapPhase, mM) THEN 1 ELSE 0]
    /\ tracing = [t \in Task |-> 0]
    /\ reporting = [t \in Task |-> 0]
    /\ handler = [w \in Worker |-> "none"]
    /\ worker = [w \in Worker |-> AtRest]
    /\ todo = [w \in Worker |-> {}]
    /\ files = {} /\ outputs = {}
    /\ running = TRUE
    /\ timeouts = 0

execPhase(type, quantity) ==
    /\ phase' = type
    /\ taskQuantity' = quantity
    /\ taskFinished' = 0
    /\ sending' = [t \in Task |-> IF t \in Queued(type, quantity) THEN sending[t] + 1
                                                                  ELSE sending[t]]

\* questTask: the call reaches GetTaskHandler.
QuestTask(w) ==
    /\ running
    /\ worker[w] = AtRest
    /\ worker' = [worker EXCEPT ![w] = Asking]
    /\ handler' = [handler EXCEPT ![w] = "lock"]
    /\ UNCHANGED <<phaseVars, sending, tracing, reporting, fileVars, running, timeouts>>

\* getTask under phaseLock: the next phase begins once every task of this one is finished.
CheckPhase(w) ==
    /\ running
    /\ handler[w] = "lock"
    /\ IF taskFinished # taskQuantity THEN UNCHANGED <<phaseVars, sending>>
       ELSE IF phase = MapPhase THEN execPhase(ReducePhase, nR)
       ELSE execPhase(FinishedPhase, -1)
    /\ handler' = [handler EXCEPT ![w] = "select"]
    /\ UNCHANGED <<tracing, reporting, worker, fileVars, running, timeouts>>

\* Variant: getTask gives up after MaxRequestWaitingTime and the call is left without answer.
RequestTimeoutGivesUp(w) ==
    /\ running
    /\ handler[w] = "select"
    /\ handler' = [handler EXCEPT ![w] = "none"]
    /\ UNCHANGED <<phaseVars, sending, tracing, reporting, worker, fileVars, running, timeouts>>

\* getTask waited MaxRequestWaitingTime and starts over.
RequestTimeout(w) ==
    /\ running
    /\ handler[w] = "select"
    /\ handler' = [handler EXCEPT ![w] = "lock"]
    /\ UNCHANGED <<phaseVars, sending, tracing, reporting, worker, fileVars, running, timeouts>>

\* Variant: one temp file too many.
ReceiveOneMore(w, t) ==
    /\ worker' = [worker EXCEPT ![w] =
            IF t = FinishedTask THEN Gone
            ELSE [on |-> IF t[1] = MapPhase THEN "map" ELSE "reduce", task |-> t]]
    /\ todo' = [todo EXCEPT ![w] = IF t[1] = MapPhase THEN 0..nR ELSE {}]

\* The worker's side of a reply with task t.
Receive(w, t) ==
    /\ worker' = [worker EXCEPT ![w] =
            IF t = FinishedTask THEN Gone
            ELSE [on |-> IF t[1] = MapPhase THEN "map" ELSE "reduce", task |-> t]]
    /\ todo' = [todo EXCEPT ![w] = IF t[1] = MapPhase THEN 0..(nR - 1) ELSE {}]

\* getTask takes a task off taskCh and has it traced.  The worker that asked may be dead.
HandOut(w, t) ==
    /\ running
    /\ handler[w] = "select"
    /\ sending[t] > 0
    /\ sending' = Take(sending, t)
    /\ tracing' = IF t = FinishedTask THEN tracing ELSE Add(tracing, t)
    /\ handler' = [handler EXCEPT ![w] = "none"]
    /\ IF worker[w] = Asking THEN Receive(w, t) ELSE UNCHANGED <<worker, todo>>
    /\ UNCHANGED <<phaseVars, reporting, files, outputs, running, timeouts>>

\* MapTask: one more of its temp files is renamed.
RenameTempFile(w, r) ==
    /\ worker[w].on = "map" /\ r \in todo[w]
    /\ files' = files \union {<<worker[w].task[2], r>>}
    /\ todo' = [todo EXCEPT ![w] = @ \ {r}]
    /\ UNCHANGED <<phaseVars, sending, tracing, reporting, handler, worker, outputs, running,
                   timeouts>>

\* Variant: finished before the files have their names.
MapDoneEarly(w) ==
    /\ worker[w].on = "map"
    /\ worker' = [worker EXCEPT ![w].on = "finish"]
    /\ UNCHANGED <<phaseVars, sending, tracing, reporting, handler, fileVars, running, timeouts>>

\* MapTask returns.
MapDone(w) ==
    /\ worker[w].on = "map" /\ todo[w] = {}
    /\ worker' = [worker EXCEPT ![w].on = "finish"]
    /\ UNCHANGED <<phaseVars, sending, tracing, reporting, handler, fileVars, running, timeouts>>

\* Variant: the output file does not get its name.
ReduceTaskUnnamed(w) ==
    /\ worker[w].on = "reduce"
    /\ worker' = [worker EXCEPT ![w].on = "finish"]
    /\ UNCHANGED <<phaseVars, sending, tracing, reporting, handler, fileVars, running, timeouts>>

\* ReduceTask: log.Fatalf if an intermediate file is missing.
ReduceTask(w) ==
    LET r == worker[w].task[2]
    IN  /\ worker[w].on = "reduce"
        /\ IF \A m \in 0..(mM - 1) : <<m, r>> \in files
           THEN /\ outputs' = outputs \union {r}
                /\ worker' = [worker EXCEPT ![w].on = "finish"]
           ELSE /\ worker' = [worker EXCEPT ![w].on = "fatal"]
                /\ UNCHANGED outputs
        /\ UNCHANGED <<phaseVars, sending, tracing, reporting, handler, todo, files, running,
                       timeouts>>

\* finishTask and FinishTaskHandler, which leaves a goroutine to report on the task's traceCh.
FinishTask(w) ==
    /\ running
    /\ worker[w].on = "finish"
    /\ reporting' = Add(reporting, worker[w].task)
    /\ worker' = [worker EXCEPT ![w] = AtRest]
    /\ UNCHANGED <<phaseVars, sending, tracing, handler, fileVars, running, timeouts>>

\* traceTask receives a report, counts it, and keeps the state: its own send takes the
\* report's place.
TraceFinished(t) ==
    /\ running
    /\ tracing[t] > 0 /\ reporting[t] > 0
    /\ tracing' = Take(tracing, t)
    /\ taskFinished' = taskFinished + 1
    /\ UNCHANGED <<phase, taskQuantity, sending, reporting, handler, worker, fileVars, running,
                   timeouts>>

\* Nobody alive works on t or has reported it.
Lost(t) == reporting[t] = 0 /\ \A w \in Worker : worker[w].task # t

\* Variant: the task is handed out again while the tracer stays.
RetryTraced(t) ==
    /\ sending' = Add(sending, t)
    /\ UNCHANGED tracing

\* The task goes back to the queue.
Retry(t) ==
    /\ sending' = Add(sending, t)
    /\ tracing' = Take(tracing, t)

\* traceTask waited MaxTaskWaitingTime.
TraceTimeout(t) ==
    /\ running
    /\ tracing[t] > 0
    /\ Lost(t) \/ timeouts < MaxTimeouts
    /\ timeouts' = IF Lost(t) THEN timeouts ELSE timeouts + 1
    /\ Retry(t)
    /\ UNCHANGED <<phaseVars, reporting, handler, worker, fileVars, running>>

\* A worker dies.  Its call stays with the coordinator.
Crash(w) ==
    /\ w \in Crashing
    /\ worker[w] # Gone
    /\ worker' = [worker EXCEPT ![w] = Gone]
    /\ todo' = [todo EXCEPT ![w] = {}]
    /\ UNCHANGED <<phaseVars, sending, tracing, reporting, handler, files, outputs, running,
                   timeouts>>

\* main/mrcoordinator.go sees Done() and ends the process.
Done ==
    /\ running
    /\ phase = FinishedPhase
    /\ running' = FALSE
    /\ UNCHANGED <<phaseVars, sending, tracing, reporting, handler, worker, fileVars, timeouts>>

\* A call fails because the coordinator is gone, and with the next one the worker ends.
CallFails(w) ==
    /\ ~running
    /\ worker[w].on \in {"idle", "asking", "finish"}
    /\ worker' = [worker EXCEPT ![w] = Gone]
    /\ UNCHANGED <<phaseVars, sending, tracing, reporting, handler, fileVars, running, timeouts>>

WorkerStep(w) ==
    \/ QuestTask(w) \/ MapDone(w) \/ ReduceTask(w) \/ FinishTask(w) \/ CallFails(w)
    \/ \E r \in 0..(nR - 1) : RenameTempFile(w, r)

JobNext ==
    \/ \E w \in Worker : WorkerStep(w) \/ CheckPhase(w) \/ RequestTimeout(w) \/ Crash(w)
    \/ \E w \in Worker, t \in Task : HandOut(w, t)
    \/ \E t \in Task : TraceFinished(t) \/ TraceTimeout(t)
    \/ Done

JobSpec == JobInit /\ [][JobNext]_jobVars

\* Goroutines and workers that can go on do.  A call that waits again and again while there
\* are tasks is handed one: select chooses at random among what is ready.
JobFairness ==
    /\ \A w \in Worker : /\ WF_jobVars(WorkerStep(w))
                         /\ WF_jobVars(CheckPhase(w) \/ RequestTimeout(w))
                         /\ SF_jobVars(\E t \in Task : HandOut(w, t))
    /\ \A t \in Task : WF_jobVars(TraceFinished(t)) /\ WF_jobVars(TraceTimeout(t))
    /\ WF_jobVars(Done)

-----------------------------------------------------------------------------
(* Properties. *)

\* The types of the fields.
JobTypeOK ==
    /\ phase \in {MapPhase, ReducePhase, FinishedPhase}
    /\ taskQuantity \in {mM, nR, -1} /\ taskFinished \in Nat
    /\ {sending, tracing, reporting} \subseteq [Task -> Nat]
    /\ handler \in [Worker -> {"none", "lock", "select"}]
    /\ worker \in [Worker -> [on : {"idle", "asking", "map", "reduce", "finish", "fatal", "gone"},
                              task : Task \union {NoTask}]]
    /\ todo \in [Worker -> SUBSET (0..(nR - 1))]
    /\ files \subseteq (0..(mM - 1)) \X (0..(nR - 1))
    /\ outputs \subseteq 0..(nR - 1)
    /\ running \in BOOLEAN /\ timeouts \in Nat

\* A task is in one place: queued or traced, once, until it is counted.  The test
\* "taskFinished == taskQuantity" is by equality, so a task that counted twice, after a
\* timeout and two reports, would end a phase early or let it never end.
CountedOnce ==
    LET now == Queued(phase, taskQuantity)
        open == {t \in now : sending[t] + tracing[t] > 0}
    IN  /\ \A t \in Task : sending[t] + tracing[t] <= IF t \in now THEN 1 ELSE 0
        /\ phase # FinishedPhase => taskFinished = taskQuantity - Cardinality(open)

\* The reduce phase starts when every intermediate file is there: no reducer finds one
\* missing and gives up (log.Fatalf in readTempFiles), whichever workers died, were late or
\* did a task twice.
InputsReady == \A w \in Worker : worker[w].on # "fatal"

\* When Done() answers true every output file is there.
DoneMeansOutputs == phase = FinishedPhase => outputs = 0..(nR - 1)

\* If one worker survives the job comes to its end, although calls wait, tasks time out and
\* workers die with tasks, and then every worker stops, although the coordinator hands out a
\* single Finished task.
JobEnds == <>(phase = FinishedPhase /\ \A w \in Worker : worker[w] = Gone)
=============================================================================
