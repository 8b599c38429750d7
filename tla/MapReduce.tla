----------------------------- MODULE MapReduce -----------------------------
(***************************************************************************)
(* The coordinator and the workers of labs/src/mr.  An RPC handler runs    *)
(* under c.mu.  A worker is a process that asks for a task, runs it on the *)
(* shared file system, reports it and asks again; it may crash anywhere.   *)
(* The content of a file is abstracted to the map tasks it comes from.     *)
(***************************************************************************)
EXTENDS Integers, FiniteSets, FiniteSetsExt

CONSTANTS
    NMap,         \* len(files)
    NReduce,      \* nReduce
    Worker,       \* the worker processes
    NA,           \* no worker
    MaxCrashes,   \* bound: workers that crash
    MaxTimeouts   \* bound: timers of 10 s that end while the worker still works

MapId    == 0..(NMap - 1)
ReduceId == 0..(NReduce - 1)
TaskType == {"MapTask", "ReduceTask"}
Task     == ({"MapTask"} \X MapId) \cup ({"ReduceTask"} \X ReduceId)

ASSUME CountsAssumption == /\ NMap \in Nat /\ NReduce \in Nat
                           /\ MaxCrashes \in Nat /\ MaxTimeouts \in Nat

ASSUME WorkerAssumption == NA \notin Worker

VARIABLES
    taskState, workerId,   \* struct Task, by type and id
    remain,                \* tasks of a type that are not completed
    timers,                \* waitTaskDone goroutines that still sleep, by task
    up,                    \* main/mrcoordinator has not exited
    worker,                \* what each worker does
    files,                 \* <<m, r>>: the intermediate file mr-m-r exists
    output,                \* r |-> the map tasks whose pairs mr-out-r was made of
    written,               \* the reduce tasks r for which mr-out-r exists
    crashes, timeouts

coordinator == <<taskState, workerId, remain, timers, up>>
fileSystem  == <<files, output, written>>
bounds      == <<crashes, timeouts>>
vars == <<taskState, workerId, remain, timers, up, worker, files, output,
          written, crashes, timeouts>>

TasksOf(type) == {t \in Task : t[1] = type}

\* A worker without a task: before getTask, or exited.
Free(pc) == [pc |-> pc, task |-> <<"MapTask", 0>>, n |-> 0, data |-> {}]

Busy == {"map", "reduce", "write", "report"}

Holds(w, t) == worker[w].pc \in Busy /\ worker[w].task = t

\* MakeCoordinator, and workers that have just started.
Init ==
    /\ taskState = [t \in Task |-> "Idle"]
    /\ workerId = [t \in Task |-> NA]
    /\ remain = [type \in TaskType |-> IF type = "MapTask" THEN NMap ELSE NReduce]
    /\ timers = [t \in Task |-> 0]
    /\ up = TRUE
    /\ worker = [w \in Worker |-> Free("ask")]
    /\ files = {} /\ written = {}
    /\ output = [r \in ReduceId |-> {}]
    /\ crashes = 0 /\ timeouts = 0

-----------------------------------------------------------------------------
(***************************************************************************)
(* The coordinator.                                                        *)
(***************************************************************************)

\* chooseTask: the first idle task of the list.
chooseTask(type) ==
    <<type, Min({t[2] : t \in {u \in TasksOf(type) : taskState[u] = "Idle"}})>>

\* Which list GetTask looks at, if any.
Phase == IF remain["MapTask"] > 0 THEN "MapTask"
         ELSE IF remain["ReduceTask"] > 0 THEN "ReduceTask"
         ELSE "Exit"

\* GetTask and the worker's reaction to the reply: a task, NoIdle (ask again)
\* or Exit.  waitTaskDone starts to sleep.
GetTask(w) ==
    LET t    == chooseTask(Phase)
        idle == {u \in TasksOf(Phase) : taskState[u] = "Idle"}
    IN  /\ worker[w].pc = "ask" /\ up
        /\ IF idle # {}
           THEN /\ taskState' = [taskState EXCEPT ![t] = "InProgress"]
                /\ workerId' = [workerId EXCEPT ![t] = w]
                /\ timers' = [timers EXCEPT ![t] = @ + 1]
                /\ worker' = [worker EXCEPT ![w] =
                       [pc |-> IF Phase = "MapTask" THEN "map" ELSE "reduce",
                        task |-> t, n |-> 0, data |-> {}]]
           ELSE /\ worker' = [worker EXCEPT ![w] =
                       Free(IF Phase = "Exit" THEN "gone" ELSE "ask")]
                /\ UNCHANGED <<taskState, workerId, timers>>
        /\ UNCHANGED <<remain, up, fileSystem, bounds>>

\* Bug: a task that is completed by now is given out again.
waitTaskDoneAlways(t) ==
    /\ up /\ timers[t] > 0
    /\ taskState' = [taskState EXCEPT ![t] = "Idle"]
    /\ workerId' = [workerId EXCEPT ![t] = NA]
    /\ timers' = [timers EXCEPT ![t] = @ - 1]
    /\ UNCHANGED <<remain, up, worker, fileSystem, bounds>>

\* Bug: the completed tasks of a worker are run again, as those of a failed one.
waitTaskDoneReopens(t) ==
    /\ up /\ timers[t] > 0 /\ ~\E w \in Worker : Holds(w, t)
    /\ taskState' = [taskState EXCEPT ![t] = "Idle"]
    /\ workerId' = [workerId EXCEPT ![t] = NA]
    /\ timers' = [timers EXCEPT ![t] = @ - 1]
    /\ remain' = [remain EXCEPT ![t[1]] = IF taskState[t] = "Completed" THEN @ + 1 ELSE @]
    /\ UNCHANGED <<up, worker, fileSystem, bounds>>

\* Bug: the timer of a task whose worker crashed has no effect.
waitTaskDoneNever(t) ==
    /\ up /\ timers[t] > 0
    /\ timers' = [timers EXCEPT ![t] = @ - 1]
    /\ UNCHANGED <<taskState, workerId, remain, up, worker, fileSystem, bounds>>

\* waitTaskDone after its ten seconds.  That a worker still works on the task
\* then is an event of its own, which MaxTimeouts bounds.
waitTaskDone(t) ==
    LET late == taskState[t] = "InProgress" /\ \E w \in Worker : Holds(w, t)
    IN  /\ up /\ timers[t] > 0
        /\ late => timeouts < MaxTimeouts
        /\ timers' = [timers EXCEPT ![t] = @ - 1]
        /\ timeouts' = IF late THEN timeouts + 1 ELSE timeouts
        /\ IF taskState[t] # "Completed"
           THEN /\ taskState' = [taskState EXCEPT ![t] = "Idle"]
                /\ workerId' = [workerId EXCEPT ![t] = NA]
           ELSE UNCHANGED <<taskState, workerId>>
        /\ UNCHANGED <<remain, up, worker, fileSystem, crashes>>

\* ReportTaskDone.  A report of a task that is not in progress makes it idle.
ReportTaskDone(w) ==
    LET t == worker[w].task
    IN  /\ worker[w].pc = "report" /\ up
        /\ IF taskState[t] = "InProgress"
           THEN /\ taskState' = [taskState EXCEPT ![t] = "Completed"]
                /\ remain' = [remain EXCEPT ![t[1]] = @ - 1]
           ELSE /\ taskState' = [taskState EXCEPT ![t] = "Idle"]
                /\ UNCHANGED remain
        /\ worker' = [worker EXCEPT ![w] = Free("ask")]
        /\ UNCHANGED <<workerId, timers, up, fileSystem, bounds>>

Done == remain["MapTask"] <= 0 /\ remain["ReduceTask"] <= 0

\* main/mrcoordinator leaves its loop.
Finish == /\ up /\ Done
          /\ up' = FALSE
          /\ UNCHANGED <<taskState, workerId, remain, timers, worker, fileSystem, bounds>>

-----------------------------------------------------------------------------
(***************************************************************************)
(* The workers.                                                            *)
(***************************************************************************)

\* Bug: the last bucket is left out.
writeIntermediateFileShort(w) ==
    LET m == worker[w].task[2]
        n == worker[w].n
    IN  /\ worker[w].pc = "map"
        /\ IF n < NReduce - 1
           THEN /\ files' = files \cup {<<m, n>>}
                /\ worker' = [worker EXCEPT ![w].n = n + 1]
           ELSE /\ worker' = [worker EXCEPT ![w].pc = "report"]
                /\ UNCHANGED files
        /\ UNCHANGED <<coordinator, output, written, bounds>>

\* writeIntermediateFile, one rename at a time; after the last one the task is
\* reported.
writeIntermediateFile(w) ==
    LET m == worker[w].task[2]
        n == worker[w].n
    IN  /\ worker[w].pc = "map"
        /\ IF n < NReduce
           THEN /\ files' = files \cup {<<m, n>>}
                /\ worker' = [worker EXCEPT ![w].n = n + 1]
           ELSE /\ worker' = [worker EXCEPT ![w].pc = "report"]
                /\ UNCHANGED files
        /\ UNCHANGED <<coordinator, output, written, bounds>>

\* _reducef up to the output: Glob and read all the files there are.
readFiles(w) ==
    /\ worker[w].pc = "reduce"
    /\ worker' = [worker EXCEPT ![w].pc = "write",
                     ![w].data = {m \in MapId : <<m, worker[w].task[2]>> \in files}]
    /\ UNCHANGED <<coordinator, fileSystem, bounds>>

\* _reducef from the output file to its rename.
writeOutput(w) ==
    LET r == worker[w].task[2]
    IN  /\ worker[w].pc = "write"
        /\ output' = [output EXCEPT ![r] = worker[w].data]
        /\ written' = written \cup {r}
        /\ worker' = [worker EXCEPT ![w].pc = "report"]
        /\ UNCHANGED <<coordinator, files, bounds>>

\* The coordinator cannot be dialled any more: log.Fatal.
callFails(w) ==
    /\ worker[w].pc \in {"ask", "report"} /\ ~up
    /\ worker' = [worker EXCEPT ![w] = Free("gone")]
    /\ UNCHANGED <<coordinator, fileSystem, bounds>>

Crash(w) ==
    /\ worker[w].pc # "gone" /\ crashes < MaxCrashes
    /\ crashes' = crashes + 1
    /\ worker' = [worker EXCEPT ![w] = Free("gone")]
    /\ UNCHANGED <<coordinator, fileSystem, timeouts>>

WorkerStep(w) ==
    \/ GetTask(w)
    \/ ReportTaskDone(w)
    \/ writeIntermediateFile(w)
    \/ readFiles(w)
    \/ writeOutput(w)
    \/ callFails(w)

Next ==
    \/ \E w \in Worker : WorkerStep(w) \/ Crash(w)
    \/ \E t \in Task : waitTaskDone(t)
    \/ Finish

Spec == Init /\ [][Next]_vars

\* Processes that run get scheduled, and every Sleep comes to its end.
FairSpec ==
    /\ Spec
    /\ \A w \in Worker : WF_vars(WorkerStep(w))
    /\ \A t \in Task : WF_vars(waitTaskDone(t))
    /\ WF_vars(Finish)

-----------------------------------------------------------------------------
TypeOK ==
    /\ taskState \in [Task -> {"Idle", "InProgress", "Completed"}]
    /\ workerId \in [Task -> Worker \cup {NA}]
    /\ remain \in [TaskType -> Int]
    /\ timers \in [Task -> Nat]
    /\ up \in BOOLEAN
    /\ worker \in [Worker -> [pc : Busy \cup {"ask", "gone"},
                              task : TaskType \X Nat,
                              n : 0..NReduce, data : SUBSET MapId]]
    /\ files \subseteq MapId \X ReduceId
    /\ output \in [ReduceId -> SUBSET MapId]
    /\ written \subseteq ReduceId
    /\ crashes \in Nat /\ timeouts \in Nat

\* The job as seen from outside; completed is what the coordinator believes.
CompletedIds(type) == {t[2] : t \in {u \in TasksOf(type) : taskState[u] = "Completed"}}

Job == INSTANCE MapReduceJob WITH mapped <- CompletedIds("MapTask"),
                                  reduced <- CompletedIds("ReduceTask"),
                                  finished <- ~up

\* Without a late worker the coordinator implements the job: all map tasks before
\* the first reduce task, no completion undone, an exit only when all is done.
ImplementsJob == Job!Spec

\* remain is the number of tasks that are not completed.
RemainCounts ==
    \A type \in TaskType :
        remain[type] = Cardinality({t \in TasksOf(type) : taskState[t] # "Completed"})

\* An output file holds the pairs of all the map tasks, and when the coordinator
\* exits all the output files are there.
OutputIsComplete ==
    /\ \A r \in written : output[r] = MapId
    /\ ~up => written = ReduceId

(***************************************************************************)
(* Why OutputIsComplete holds as long as no worker is late: a task in      *)
(* progress has one worker at most, a completed task has none, and what a  *)
(* worker is about to report is on the file system.                        *)
(***************************************************************************)
WorkersAreRight ==
    \A w \in Worker : worker[w].pc \in Busy =>
        LET t == worker[w].task
        IN  /\ t \in Task /\ taskState[t] = "InProgress"
            /\ \A v \in Worker : Holds(v, t) => v = w
            /\ worker[w].pc = "map" => t[1] = "MapTask"
            /\ worker[w].pc \in {"reduce", "write"} => t[1] = "ReduceTask"

\* A reduce task starts with no map task left.
PhasesAreRight ==
    /\ \A t \in TasksOf("ReduceTask") : taskState[t] # "Idle" => remain["MapTask"] = 0
    /\ ~up => Done

FilesAreRight ==
    /\ \A w \in Worker : \A k \in ReduceId :
          LET t == worker[w].task
          IN  /\ worker[w].pc = "map" /\ k < worker[w].n => <<t[2], k>> \in files
              /\ worker[w].pc = "report" /\ t[1] = "MapTask" => <<t[2], k>> \in files
    /\ \A t \in TasksOf("MapTask") : taskState[t] = "Completed" =>
          \A k \in ReduceId : <<t[2], k>> \in files
    /\ \A w \in Worker : worker[w].pc = "write" => worker[w].data = MapId
    /\ \A w \in Worker : worker[w].pc = "report" /\ worker[w].task[1] = "ReduceTask" =>
          worker[w].task[2] \in written
    /\ \A t \in TasksOf("ReduceTask") : taskState[t] = "Completed" => t[2] \in written
    /\ \A r \in written : output[r] = MapId

JobInv == /\ TypeOK /\ RemainCounts
          /\ WorkersAreRight /\ PhasesAreRight /\ FilesAreRight

\* With a worker left, coordinator and workers exit.
EverybodyExits == <>(~up /\ \A w \in Worker : worker[w].pc = "gone")

\* "finish map tasks first": a reduce task is given out only when all the
\* intermediate files it reads are there.
MapsBeforeReduces ==
    \A w \in Worker : worker[w].pc = "reduce" =>
        \A m \in MapId : <<m, worker[w].task[2]>> \in files
=============================================================================
