--------------------------- MODULE MapReduceProofs ---------------------------
(***************************************************************************)
(* Proofs about MapReduce: without a late worker (MaxTimeouts = 0), any    *)
(* number of crashes leaves the output complete.                           *)
(***************************************************************************)
EXTENDS MapReduce, FiniteSetTheorems, WellFoundedInduction, TLAPS

\* A non-empty set of naturals has a least element, which Min chooses.
LEMMA MinIsIn ==
    ASSUME NEW S \in SUBSET Nat, S # {}
    PROVE  Min(S) \in S
  <1> DEFINE R == OpToRel(<, Nat)
  <1>1. \A p, q \in Nat : p < q => <<p, q>> \in R
    BY DEF OpToRel
  <1>2. IsWellFoundedOn(R, Nat)
    BY NatLessThanWellFounded
  <1> HIDE DEF R
  <1>3. PICK x \in S : \A y \in S : ~(<<y, x>> \in R)
    BY <1>2, WFMin
  <1>4. \A y \in S : x <= y
    <2> SUFFICES ASSUME NEW y \in S PROVE x <= y
      OBVIOUS
    <2>1. x \in Nat /\ y \in Nat
      OBVIOUS
    <2>2. ~(y < x)
      BY <1>1, <1>3, <2>1, Zenon
    <2>3. QED
      BY <2>1, <2>2
  <1>5. QED
    BY <1>4 DEF Min

\* A task is a pair of its type and its id.
LEMMA TaskFacts ==
    /\ \A t \in Task : /\ t = <<t[1], t[2]>> /\ t[1] \in TaskType /\ t[2] \in Nat
                       /\ t[1] = "MapTask" => t[2] \in MapId
                       /\ t[1] = "ReduceTask" => t[2] \in ReduceId
    /\ \A m \in MapId : <<"MapTask", m>> \in Task
    /\ \A r \in ReduceId : <<"ReduceTask", r>> \in Task
  BY CountsAssumption DEF Task, TaskType, MapId, ReduceId

LEMMA TasksAreFinite ==
    /\ \A type : IsFiniteSet(TasksOf(type))
    /\ Cardinality(TasksOf("MapTask")) = NMap
    /\ Cardinality(TasksOf("ReduceTask")) = NReduce
  <1>1. /\ IsFiniteSet(MapId) /\ Cardinality(MapId) = NMap
        /\ IsFiniteSet(ReduceId) /\ Cardinality(ReduceId) = NReduce
    <2>1. 0 \in Int /\ NMap - 1 \in Int /\ NReduce - 1 \in Int
      BY CountsAssumption
    <2>2. /\ IsFiniteSet(0..(NMap - 1))
          /\ Cardinality(0..(NMap - 1)) = IF 0 > NMap - 1 THEN 0 ELSE (NMap - 1) - 0 + 1
      BY <2>1, FS_Interval
    <2>3. /\ IsFiniteSet(0..(NReduce - 1))
          /\ Cardinality(0..(NReduce - 1)) = IF 0 > NReduce - 1 THEN 0 ELSE (NReduce - 1) - 0 + 1
      BY <2>1, FS_Interval
    <2>4. QED
      BY <2>2, <2>3, CountsAssumption DEF MapId, ReduceId
  <1>2. \A x : IsFiniteSet({x}) /\ Cardinality({x}) = 1
    BY FS_Singleton
  <1>3. ASSUME NEW x, NEW S, IsFiniteSet(S)
        PROVE  IsFiniteSet({x} \X S) /\ Cardinality({x} \X S) = Cardinality(S)
    <2>1. IsFiniteSet({x} \X S) /\ Cardinality({x} \X S) = Cardinality({x}) * Cardinality(S)
      BY <1>2, <1>3, FS_Product
    <2>2. Cardinality({x}) = 1 /\ Cardinality(S) \in Nat
      BY <1>2, <1>3, FS_CardinalityType
    <2>3. Cardinality({x} \X S) = 1 * Cardinality(S)
      BY <2>1, <2>2
    <2>4. QED
      BY <2>1, <2>2, <2>3
  <1>4. /\ TasksOf("MapTask") = {"MapTask"} \X MapId
        /\ TasksOf("ReduceTask") = {"ReduceTask"} \X ReduceId
    BY DEF TasksOf, Task
  <1>5. IsFiniteSet(Task)
    BY <1>1, <1>3, FS_Union DEF Task
  <1>6. \A type : IsFiniteSet(TasksOf(type))
    BY <1>5, FS_Subset DEF TasksOf
  <1>7. /\ Cardinality({"MapTask"} \X MapId) = Cardinality(MapId)
        /\ Cardinality({"ReduceTask"} \X ReduceId) = Cardinality(ReduceId)
    BY <1>1, <1>3, Zenon
  <1>8. QED
    BY <1>1, <1>4, <1>6, <1>7, Zenon

\* What GetTask gives out is an idle task of the current phase.
LEMMA ChosenIsIdle ==
    ASSUME NEW type, \E u \in TasksOf(type) : taskState[u] = "Idle"
    PROVE  chooseTask(type) \in TasksOf(type) /\ taskState[chooseTask(type)] = "Idle"
  <1> DEFINE idle == {u \in TasksOf(type) : taskState[u] = "Idle"}
             ids  == {t[2] : t \in idle}
  <1>1. ids \in SUBSET Nat /\ ids # {}
    BY TaskFacts DEF TasksOf
  <1>2. Min(ids) \in ids
    BY <1>1, MinIsIn
  <1>3. PICK u \in idle : Min(ids) = u[2]
    BY <1>2
  <1>4. u = <<type, Min(ids)>>
    BY <1>3, TaskFacts DEF TasksOf
  <1>5. QED
    BY <1>4 DEF chooseTask

-----------------------------------------------------------------------------
\* A counter at zero means that the tasks of its type are completed.
LEMMA NoneLeft ==
    ASSUME RemainCounts, NEW type \in TaskType, remain[type] <= 0
    PROVE  \A t \in TasksOf(type) : taskState[t] = "Completed"
  <1>1. IsFiniteSet({t \in TasksOf(type) : taskState[t] # "Completed"})
    BY TasksAreFinite, FS_Subset
  <1>2. Cardinality({t \in TasksOf(type) : taskState[t] # "Completed"}) <= 0
    BY DEF RemainCounts
  <1>3. {t \in TasksOf(type) : taskState[t] # "Completed"} = {}
    BY <1>1, <1>2, FS_CardinalityType, FS_EmptySet
  <1>4. QED
    BY <1>3

\* With no map task remaining, all intermediate files exist.
LEMMA NoMapLeft ==
    ASSUME JobInv, remain["MapTask"] <= 0
    PROVE  \A m \in MapId, k \in ReduceId : <<m, k>> \in files
  <1>1. \A t \in TasksOf("MapTask") : taskState[t] = "Completed"
    BY NoneLeft DEF JobInv, TaskType
  <1>2. \A m \in MapId : <<"MapTask", m>> \in TasksOf("MapTask")
    BY TaskFacts DEF TasksOf
  <1>3. QED
    BY <1>1, <1>2 DEF JobInv, FilesAreRight

LEMMA NoReduceLeft ==
    ASSUME JobInv, remain["ReduceTask"] <= 0
    PROVE  written = ReduceId
  <1>1. \A t \in TasksOf("ReduceTask") : taskState[t] = "Completed"
    BY NoneLeft DEF JobInv, TaskType
  <1>2. ReduceId \subseteq written
    BY <1>1, TaskFacts DEF JobInv, FilesAreRight, TasksOf
  <1>3. QED
    BY <1>2 DEF JobInv, TypeOK

-----------------------------------------------------------------------------
LEMMA InitJobInv == Init => JobInv
  <1> SUFFICES ASSUME Init PROVE JobInv
    OBVIOUS
  <1>1. TypeOK
    BY CountsAssumption DEF Init, TypeOK, Free, Busy, TaskType
  <1>2. RemainCounts
    <2>1. \A type : {t \in TasksOf(type) : taskState[t] # "Completed"} = TasksOf(type)
      BY DEF Init, TasksOf
    <2>2. QED
      BY <2>1, TasksAreFinite DEF Init, RemainCounts, TaskType
  <1>3. WorkersAreRight /\ PhasesAreRight /\ FilesAreRight
    BY DEF Init, WorkersAreRight, PhasesAreRight, FilesAreRight, Free, Busy, TasksOf
  <1>4. QED
    BY <1>1, <1>2, <1>3 DEF JobInv

\* A step that completes no task and reopens none keeps remain right.
LEMMA SameCount ==
    ASSUME RemainCounts, remain' = remain,
           \A t \in Task : taskState'[t] = "Completed" <=> taskState[t] = "Completed"
    PROVE  RemainCounts'
  <1>1. \A type : {t \in TasksOf(type) : taskState'[t] # "Completed"}
                    = {t \in TasksOf(type) : taskState[t] # "Completed"}
    BY DEF TasksOf
  <1>2. QED
    BY <1>1 DEF RemainCounts

\* A worker without a task: GetTask without an idle task, a crash, an exit.
LEMMA FreePreserves ==
    ASSUME JobInv, NEW w \in Worker, NEW pc \in {"ask", "gone"},
           worker' = [worker EXCEPT ![w] = Free(pc)],
           UNCHANGED <<taskState, workerId, remain, timers, up, files, output, written>>,
           crashes' \in Nat, timeouts' = timeouts
    PROVE  JobInv'
  <1>0. TypeOK
    BY DEF JobInv
  <1>1. /\ worker'[w].pc \notin Busy
        /\ \A v \in Worker : v # w => worker'[v] = worker[v]
    BY <1>0 DEF TypeOK, Free, Busy
  <1>2. TypeOK'
    <2>1. Free(pc) \in [pc : Busy \cup {"ask", "gone"}, task : TaskType \X Nat,
                        n : 0..NReduce, data : SUBSET MapId]
      BY CountsAssumption DEF Free, TaskType
    <2>2. QED
      BY <1>0, <2>1 DEF TypeOK
  <1>3. RemainCounts'
    BY SameCount DEF JobInv
  <1>4. WorkersAreRight'
    BY <1>1 DEF JobInv, WorkersAreRight, Holds
  <1>5. PhasesAreRight' /\ FilesAreRight'
    BY <1>1 DEF JobInv, PhasesAreRight, FilesAreRight, Done, Busy
  <1>6. QED
    BY <1>2, <1>3, <1>4, <1>5 DEF JobInv

\* GetTask.
LEMMA GetTaskPreserves ==
    ASSUME JobInv, NEW w \in Worker, GetTask(w)
    PROVE  JobInv'
  <1> DEFINE t == chooseTask(Phase)
  <1>0. TypeOK /\ worker[w].pc = "ask" /\ up
    BY DEF JobInv, GetTask
  <1>1. CASE \E u \in TasksOf(Phase) : taskState[u] = "Idle"
    <2>1. /\ taskState' = [taskState EXCEPT ![t] = "InProgress"]
          /\ workerId' = [workerId EXCEPT ![t] = w]
          /\ timers' = [timers EXCEPT ![t] = @ + 1]
          /\ worker' = [worker EXCEPT ![w] =
                [pc |-> IF Phase = "MapTask" THEN "map" ELSE "reduce",
                 task |-> t, n |-> 0, data |-> {}]]
          /\ UNCHANGED <<remain, up, files, output, written, crashes, timeouts>>
      BY <1>1 DEF GetTask, fileSystem, bounds
    <2>2. t \in TasksOf(Phase) /\ taskState[t] = "Idle"
      BY <1>1, ChosenIsIdle
    <2>3. t \in Task /\ t[1] = Phase /\ Phase \in TaskType
      BY <2>2, TaskFacts DEF TasksOf
    <2> HIDE DEF t
    <2>4. /\ worker'[w].pc = IF Phase = "MapTask" THEN "map" ELSE "reduce"
          /\ worker'[w].task = t /\ worker'[w].n = 0
          /\ \A v \in Worker : v # w => worker'[v] = worker[v]
      BY <1>0, <2>1 DEF TypeOK
    <2>5. /\ taskState'[t] = "InProgress"
          /\ \A u \in Task : u # t => taskState'[u] = taskState[u]
      BY <1>0, <2>1, <2>3 DEF TypeOK
    <2>6. TypeOK'
      <3>1. [pc |-> IF Phase = "MapTask" THEN "map" ELSE "reduce",
             task |-> t, n |-> 0, data |-> {}] \in
               [pc : Busy \cup {"ask", "gone"}, task : TaskType \X Nat,
                n : 0..NReduce, data : SUBSET MapId]
        BY <2>3, TaskFacts, CountsAssumption DEF Busy
      <3>2. QED
        BY <1>0, <2>1, <2>3, <3>1 DEF TypeOK
    <2>7. RemainCounts'
      BY <2>1, <2>2, <2>5, SameCount DEF JobInv
    <2>8. WorkersAreRight'
      BY <2>2, <2>3, <2>4, <2>5 DEF JobInv, WorkersAreRight, Holds, Busy, TaskType
    <2>9. PhasesAreRight'
      <3>1. Phase = "ReduceTask" => remain["MapTask"] = 0
        <4>1. Cardinality({u \in TasksOf("MapTask") : taskState[u] # "Completed"}) \in Nat
          BY TasksAreFinite, FS_Subset, FS_CardinalityType
        <4>2. remain["MapTask"] \in Nat
          BY <4>1 DEF JobInv, RemainCounts, TaskType
        <4>3. QED
          BY <4>2 DEF Phase
      <3>2. QED
        BY <1>0, <3>1, <2>1, <2>3, <2>5 DEF JobInv, PhasesAreRight, TasksOf
    <2>10. FilesAreRight'
      BY <2>1, <2>2, <2>4, <2>5, CountsAssumption DEF JobInv, FilesAreRight, TasksOf, ReduceId
    <2>11. QED
      BY <2>6, <2>7, <2>8, <2>9, <2>10 DEF JobInv
  <1>2. CASE ~\E u \in TasksOf(Phase) : taskState[u] = "Idle"
    <2>1. /\ \E pc \in {"ask", "gone"} : worker' = [worker EXCEPT ![w] = Free(pc)]
          /\ UNCHANGED <<taskState, workerId, timers, remain, up, files, output,
                         written, crashes, timeouts>>
      BY <1>2 DEF GetTask, fileSystem, bounds
    <2>2. QED
      BY <1>0, <2>1, FreePreserves DEF TypeOK
  <1>3. QED
    BY <1>1, <1>2

\* waitTaskDone: without a late worker, nobody holds the task it makes idle.
LEMMA TimerPreserves ==
    ASSUME JobInv, MaxTimeouts = 0, NEW t \in Task, waitTaskDone(t)
    PROVE  JobInv'
  <1>0. TypeOK
    BY DEF JobInv
  <1>1. ~(taskState[t] = "InProgress" /\ \E w \in Worker : Holds(w, t))
    BY <1>0 DEF waitTaskDone, TypeOK
  <1>2. /\ timers' = [timers EXCEPT ![t] = @ - 1] /\ timers[t] > 0
        /\ UNCHANGED <<remain, up, worker, files, output, written, crashes, timeouts>>
        /\ \/ UNCHANGED <<taskState, workerId>>
           \/ /\ taskState[t] # "Completed"
              /\ taskState' = [taskState EXCEPT ![t] = "Idle"]
              /\ workerId' = [workerId EXCEPT ![t] = NA]
    BY <1>1 DEF waitTaskDone, fileSystem
  <1>3. /\ \A u \in Task : taskState'[u] = "Completed" <=> taskState[u] = "Completed"
        /\ \A u \in Task : taskState'[u] # "Idle" => taskState[u] # "Idle"
        /\ \A u \in Task : u # t => taskState'[u] = taskState[u]
    BY <1>0, <1>2 DEF TypeOK
  <1>4. TypeOK'
    BY <1>0, <1>2 DEF TypeOK
  <1>5. RemainCounts'
    BY <1>2, <1>3, SameCount DEF JobInv
  <1>6. WorkersAreRight'
    BY <1>1, <1>2, <1>3 DEF JobInv, WorkersAreRight, Holds
  <1>7. PhasesAreRight' /\ FilesAreRight'
    BY <1>2, <1>3 DEF JobInv, PhasesAreRight, FilesAreRight, Done, TasksOf
  <1>8. QED
    BY <1>4, <1>5, <1>6, <1>7 DEF JobInv

\* ReportTaskDone: the reported task is in progress, so it becomes completed.
LEMMA ReportPreserves ==
    ASSUME JobInv, NEW w \in Worker, ReportTaskDone(w)
    PROVE  JobInv'
  <1> DEFINE t == worker[w].task
  <1>0. TypeOK /\ worker[w].pc = "report"
    BY DEF JobInv, ReportTaskDone
  <1>1. /\ t \in Task /\ t[1] \in TaskType /\ taskState[t] = "InProgress"
        /\ \A v \in Worker : Holds(v, t) => v = w
    BY <1>0, TaskFacts DEF JobInv, WorkersAreRight, Busy
  <1>2. /\ taskState' = [taskState EXCEPT ![t] = "Completed"]
        /\ remain' = [remain EXCEPT ![t[1]] = @ - 1]
        /\ worker' = [worker EXCEPT ![w] = Free("ask")]
        /\ UNCHANGED <<workerId, timers, up, files, output, written, crashes, timeouts>>
    BY <1>1 DEF ReportTaskDone, fileSystem, bounds
  <1>3. /\ worker'[w].pc = "ask"
        /\ \A v \in Worker : v # w => worker'[v] = worker[v]
    BY <1>0, <1>2 DEF TypeOK, Free
  <1>4. /\ taskState'[t] = "Completed"
        /\ \A u \in Task : u # t => taskState'[u] = taskState[u]
    BY <1>0, <1>1, <1>2 DEF TypeOK
  <1>5. TypeOK'
    <2>1. Free("ask") \in [pc : Busy \cup {"ask", "gone"}, task : TaskType \X Nat,
                           n : 0..NReduce, data : SUBSET MapId]
      BY CountsAssumption DEF Free, TaskType
    <2>2. QED
      BY <1>0, <1>1, <1>2, <2>1 DEF TypeOK
  <1>6. RemainCounts'
    <2> SUFFICES ASSUME NEW type \in TaskType
                 PROVE  remain'[type] =
                          Cardinality({u \in TasksOf(type) : taskState'[u] # "Completed"})
      BY DEF RemainCounts
    <2> DEFINE left == {u \in TasksOf(type) : taskState[u] # "Completed"}
               after == {u \in TasksOf(type) : taskState'[u] # "Completed"}
    <2>1. remain[type] = Cardinality(left) /\ IsFiniteSet(left)
      BY TasksAreFinite, FS_Subset DEF JobInv, RemainCounts
    <2>2. CASE type = t[1]
      <3>1. t \in left /\ after = left \ {t}
        BY <1>1, <1>4, <2>2 DEF TasksOf
      <3>2. Cardinality(left \ {t}) = Cardinality(left) - 1
        BY <2>1, <3>1, FS_RemoveElement
      <3>3. remain'[type] = remain[type] - 1
        BY <1>0, <1>2, <2>2 DEF TypeOK
      <3>4. QED
        BY <2>1, <3>1, <3>2, <3>3
    <2>3. CASE type # t[1]
      <3>1. after = left
        BY <1>4, <2>3 DEF TasksOf
      <3>2. remain'[type] = remain[type]
        BY <1>0, <1>2, <2>3 DEF TypeOK
      <3>3. QED
        BY <2>1, <3>1, <3>2
    <2>4. QED
      BY <2>2, <2>3
  <1>7. WorkersAreRight'
    BY <1>1, <1>3, <1>4 DEF JobInv, WorkersAreRight, Holds, Busy
  <1>8. PhasesAreRight'
    <2>1. t[1] = "ReduceTask"
             => UNCHANGED <<up>> /\ remain'["MapTask"] = remain["MapTask"]
                /\ remain["MapTask"] = 0
      BY <1>0, <1>1, <1>2 DEF TypeOK, JobInv, PhasesAreRight, TasksOf, TaskType
    <2>2. up
      BY DEF ReportTaskDone
    <2>3. ASSUME t[1] = "MapTask", NEW u \in TasksOf("ReduceTask"), taskState'[u] # "Idle"
          PROVE  FALSE
      <3>1. taskState[u] # "Idle" /\ u \in Task
        BY <1>1, <1>4, <2>3 DEF TasksOf
      <3>2. remain["MapTask"] <= 0
        BY <3>1 DEF JobInv, PhasesAreRight, TasksOf
      <3>3. t \in {v \in TasksOf("MapTask") : taskState[v] # "Completed"}
        BY <1>1, <2>3 DEF TasksOf
      <3>4. IsFiniteSet({v \in TasksOf("MapTask") : taskState[v] # "Completed"})
        BY TasksAreFinite, FS_Subset
      <3>5. Cardinality({v \in TasksOf("MapTask") : taskState[v] # "Completed"}) = 0
        BY <3>2, <3>4, FS_CardinalityType DEF JobInv, RemainCounts, TaskType
      <3>6. QED
        BY <3>3, <3>4, <3>5, FS_EmptySet
    <2>4. QED
      BY <1>1, <1>2, <1>4, <2>1, <2>2, <2>3 DEF JobInv, PhasesAreRight, TasksOf, TaskType
  <1>9. FilesAreRight'
    BY <1>0, <1>1, <1>2, <1>3, <1>4 DEF JobInv, FilesAreRight, TasksOf
  <1>10. QED
    BY <1>5, <1>6, <1>7, <1>8, <1>9 DEF JobInv

\* A worker that goes on with its task, whatever it does to the file system.
LEMMA WorkPreserves ==
    ASSUME JobInv, NEW w \in Worker, worker[w].pc \in Busy,
           UNCHANGED <<taskState, workerId, remain, timers, up, crashes, timeouts>>,
           TypeOK', FilesAreRight',
           worker'[w].pc \in Busy, worker'[w].task = worker[w].task,
           worker'[w].pc = worker[w].pc \/ worker'[w].pc \in {"write", "report"},
           worker'[w].pc = "write" => worker[w].pc = "reduce",
           \A v \in Worker : v # w => worker'[v] = worker[v]
    PROVE  JobInv'
  <1>1. RemainCounts'
    BY SameCount DEF JobInv
  <1>2. WorkersAreRight'
    BY DEF JobInv, WorkersAreRight, Holds, Busy
  <1>3. PhasesAreRight'
    BY DEF JobInv, PhasesAreRight, Done
  <1>4. QED
    BY <1>1, <1>2, <1>3 DEF JobInv

\* The three ways in which a worker's record changes during its task.
LEMMA WorkerMoves ==
    ASSUME TypeOK, NEW w \in Worker, NEW pc \in Busy
    PROVE  LET State == [pc : Busy \cup {"ask", "gone"}, task : TaskType \X Nat,
                         n : 0..NReduce, data : SUBSET MapId]
           IN  /\ \A k \in 0..NReduce : [worker EXCEPT ![w].n = k] \in [Worker -> State]
               /\ [worker EXCEPT ![w].pc = pc] \in [Worker -> State]
               /\ [worker EXCEPT ![w].pc = pc, ![w].data = MapId] \in [Worker -> State]
  <1> DEFINE Pc    == Busy \cup {"ask", "gone"}
             State == [pc : Pc, task : TaskType \X Nat, n : 0..NReduce, data : SUBSET MapId]
  <1>0. worker \in [Worker -> State] /\ worker[w] \in State
    BY DEF TypeOK
  <1>1. MapId \in SUBSET MapId /\ pc \in Pc
    OBVIOUS
  <1> HIDE DEF Pc
  <1>2. /\ \A k \in 0..NReduce : [worker[w] EXCEPT !.n = k] \in State
        /\ [worker[w] EXCEPT !.pc = pc] \in State
        /\ [worker[w] EXCEPT !.pc = pc, !.data = MapId] \in State
    BY <1>0, <1>1
  <1> HIDE DEF State
  <1>3. QED
    BY <1>0, <1>2 DEF State, Pc

\* writeIntermediateFile.
LEMMA MapPreserves ==
    ASSUME JobInv, NEW w \in Worker, writeIntermediateFile(w)
    PROVE  JobInv'
  <1> DEFINE m == worker[w].task[2]
             n == worker[w].n
  <1>0. TypeOK /\ worker[w].pc = "map"
    BY DEF JobInv, writeIntermediateFile
  <1>1. worker[w].task \in Task /\ worker[w].task[1] = "MapTask" /\ m \in MapId
    BY <1>0, TaskFacts DEF JobInv, WorkersAreRight, Busy
  <1>2. n \in 0..NReduce
    BY <1>0 DEF TypeOK
  <1>3. UNCHANGED <<taskState, workerId, remain, timers, up, output, written,
                    crashes, timeouts>>
    BY DEF writeIntermediateFile, coordinator, bounds
  <1>4. CASE n < NReduce
    <2>1. files' = files \cup {<<m, n>>} /\ worker' = [worker EXCEPT ![w].n = n + 1]
      BY <1>4 DEF writeIntermediateFile
    <2>2. n + 1 \in 0..NReduce /\ n \in ReduceId
      BY <1>2, <1>4, CountsAssumption DEF ReduceId
    <2>3. TypeOK'
      <3>1. files' \subseteq MapId \X ReduceId
        BY <1>0, <1>1, <2>1, <2>2 DEF TypeOK
      <3>2. worker' \in [Worker -> [pc : Busy \cup {"ask", "gone"}, task : TaskType \X Nat,
                                    n : 0..NReduce, data : SUBSET MapId]]
        <4>1. "map" \in Busy
          BY DEF Busy
        <4>2. QED
          BY <1>0, <2>1, <2>2, <4>1, WorkerMoves
      <3>3. QED
        BY <1>0, <1>3, <3>1, <3>2 DEF TypeOK
    <2>4. /\ worker'[w].pc = "map" /\ worker'[w].task = worker[w].task /\ worker'[w].n = n + 1
          /\ \A v \in Worker : v # w => worker'[v] = worker[v]
      BY <1>0, <2>1 DEF TypeOK
    <2>5. \A k \in ReduceId : k < n + 1 => k < n \/ k = n
      BY <1>2, CountsAssumption DEF ReduceId
    <2>6. FilesAreRight'
      BY <1>0, <1>3, <2>1, <2>4, <2>5 DEF JobInv, FilesAreRight
    <2>7. QED
      BY <1>0, <1>3, <2>3, <2>4, <2>6, WorkPreserves DEF Busy
  <1>5. CASE ~(n < NReduce)
    <2>1. UNCHANGED files /\ worker' = [worker EXCEPT ![w].pc = "report"]
      BY <1>5 DEF writeIntermediateFile
    <2>2. TypeOK'
      <3>1. worker' \in [Worker -> [pc : Busy \cup {"ask", "gone"}, task : TaskType \X Nat,
                                    n : 0..NReduce, data : SUBSET MapId]]
        <4>1. "report" \in Busy
          BY DEF Busy
        <4>2. QED
          BY <1>0, <2>1, <4>1, WorkerMoves
      <3>2. QED
        BY <1>0, <1>3, <2>1, <3>1 DEF TypeOK
    <2>3. /\ worker'[w].pc = "report" /\ worker'[w].task = worker[w].task
          /\ \A v \in Worker : v # w => worker'[v] = worker[v]
      BY <1>0, <2>1 DEF TypeOK
    <2>4. \A k \in ReduceId : k < n
      BY <1>2, <1>5, CountsAssumption DEF ReduceId
    <2>5. FilesAreRight'
      BY <1>0, <1>1, <1>3, <2>1, <2>3, <2>4 DEF JobInv, FilesAreRight
    <2>6. QED
      BY <1>0, <1>3, <2>2, <2>3, <2>5, WorkPreserves DEF Busy
  <1>6. QED
    BY <1>4, <1>5

\* _reducef: a reduce task in progress finds the files of all the map tasks.
LEMMA ReadPreserves ==
    ASSUME JobInv, NEW w \in Worker, readFiles(w)
    PROVE  JobInv'
  <1> DEFINE r == worker[w].task[2]
             found == {m \in MapId : <<m, r>> \in files}
  <1>0. TypeOK /\ worker[w].pc = "reduce"
    BY DEF JobInv, readFiles
  <1>1. worker[w].task \in TasksOf("ReduceTask") /\ r \in ReduceId
        /\ taskState[worker[w].task] = "InProgress"
    BY <1>0, TaskFacts DEF JobInv, WorkersAreRight, Busy, TasksOf
  <1>2. remain["MapTask"] <= 0
    BY <1>1 DEF JobInv, PhasesAreRight
  <1>3. found = MapId
    BY <1>1, <1>2, NoMapLeft
  <1>4. /\ worker' = [worker EXCEPT ![w].pc = "write", ![w].data = MapId]
        /\ UNCHANGED <<taskState, workerId, remain, timers, up, files, output,
                       written, crashes, timeouts>>
    BY <1>3 DEF readFiles, coordinator, fileSystem, bounds
  <1>5. TypeOK'
    <2>1. worker' \in [Worker -> [pc : Busy \cup {"ask", "gone"}, task : TaskType \X Nat,
                                  n : 0..NReduce, data : SUBSET MapId]]
      <3>1. "write" \in Busy
        BY DEF Busy
      <3>2. QED
        BY <1>0, <1>4, <3>1, WorkerMoves
    <2>2. QED
      BY <1>0, <1>4, <2>1 DEF TypeOK
  <1>6. /\ worker'[w].pc = "write" /\ worker'[w].task = worker[w].task
        /\ worker'[w].data = MapId
        /\ \A v \in Worker : v # w => worker'[v] = worker[v]
    BY <1>0, <1>4 DEF TypeOK
  <1>7. FilesAreRight'
    <2>0. UNCHANGED <<taskState, files, output, written>>
      BY <1>4
    <2>1. \A v \in Worker : worker'[v].pc # "write" => worker'[v] = worker[v]
      BY <1>6
    <2> HIDE DEF found, r
    <2>2. \A v \in Worker : worker'[v].pc = "write" => worker'[v].data = MapId
      BY <1>6 DEF JobInv, FilesAreRight
    <2>3. \A v \in Worker : \A k \in ReduceId :
              LET t == worker'[v].task
              IN  /\ worker'[v].pc = "map" /\ k < worker'[v].n => <<t[2], k>> \in files'
                  /\ worker'[v].pc = "report" /\ t[1] = "MapTask" => <<t[2], k>> \in files'
      BY <2>0, <2>1 DEF JobInv, FilesAreRight
    <2>4. \A v \in Worker : worker'[v].pc = "report" /\ worker'[v].task[1] = "ReduceTask" =>
              worker'[v].task[2] \in written'
      BY <2>0, <2>1 DEF JobInv, FilesAreRight
    <2>5. QED
      BY <2>0, <2>2, <2>3, <2>4 DEF JobInv, FilesAreRight
  <1>8. QED
    BY <1>0, <1>4, <1>5, <1>6, <1>7, WorkPreserves DEF Busy

LEMMA WritePreserves ==
    ASSUME JobInv, NEW w \in Worker, writeOutput(w)
    PROVE  JobInv'
  <1> DEFINE r == worker[w].task[2]
  <1>0. TypeOK /\ worker[w].pc = "write"
    BY DEF JobInv, writeOutput
  <1>1. worker[w].task[1] = "ReduceTask" /\ r \in ReduceId
    BY <1>0, TaskFacts DEF JobInv, WorkersAreRight, Busy
  <1>2. worker[w].data = MapId
    BY <1>0 DEF JobInv, FilesAreRight
  <1>3. /\ output' = [output EXCEPT ![r] = MapId]
        /\ written' = written \cup {r}
        /\ worker' = [worker EXCEPT ![w].pc = "report"]
        /\ UNCHANGED <<taskState, workerId, remain, timers, up, files, crashes, timeouts>>
    BY <1>2 DEF writeOutput, coordinator, bounds
  <1>4. TypeOK'
    BY <1>0, <1>1, <1>3 DEF TypeOK, Busy
  <1>5. /\ worker'[w].pc = "report" /\ worker'[w].task = worker[w].task
        /\ \A v \in Worker : v # w => worker'[v] = worker[v]
    BY <1>0, <1>3 DEF TypeOK
  <1>6. \A q \in written' : output'[q] = MapId
    BY <1>0, <1>1, <1>3 DEF TypeOK, JobInv, FilesAreRight
  <1>7. FilesAreRight'
    BY <1>1, <1>3, <1>5, <1>6 DEF JobInv, FilesAreRight
  <1>8. QED
    BY <1>0, <1>3, <1>4, <1>5, <1>7, WorkPreserves DEF Busy

\* A call to a coordinator that has exited, and a crash.
LEMMA LeavePreserves ==
    ASSUME JobInv, NEW w \in Worker, callFails(w) \/ Crash(w)
    PROVE  JobInv'
  <1>1. /\ worker' = [worker EXCEPT ![w] = Free("gone")]
        /\ UNCHANGED <<taskState, workerId, remain, timers, up, files, output,
                       written, timeouts>>
        /\ crashes' \in Nat
    BY DEF callFails, Crash, coordinator, fileSystem, bounds, JobInv, TypeOK
  <1>2. QED
    BY <1>1, FreePreserves

LEMMA FinishPreserves ==
    ASSUME JobInv, Finish
    PROVE  JobInv'
  <1>1. /\ up' = FALSE /\ Done
        /\ UNCHANGED <<taskState, workerId, remain, timers, worker, files, output,
                       written, crashes, timeouts>>
    BY DEF Finish, fileSystem, bounds
  <1>2. TypeOK' /\ RemainCounts'
    BY <1>1, SameCount DEF JobInv, TypeOK
  <1>3. WorkersAreRight' /\ PhasesAreRight' /\ FilesAreRight'
    BY <1>1 DEF JobInv, WorkersAreRight, PhasesAreRight, FilesAreRight, Holds, Done
  <1>4. QED
    BY <1>2, <1>3 DEF JobInv

LEMMA NextJobInv ==
    ASSUME MaxTimeouts = 0
    PROVE  JobInv /\ [Next]_vars => JobInv'
  <1> SUFFICES ASSUME JobInv, [Next]_vars PROVE JobInv'
    OBVIOUS
  <1>1. CASE UNCHANGED vars
    <2>1. TypeOK' /\ RemainCounts'
      BY <1>1, SameCount DEF vars, JobInv, TypeOK
    <2>2. WorkersAreRight' /\ PhasesAreRight' /\ FilesAreRight'
      BY <1>1 DEF vars, JobInv, WorkersAreRight, PhasesAreRight, FilesAreRight, Holds, Done
    <2>3. QED
      BY <2>1, <2>2 DEF JobInv
  <1>2. ASSUME NEW w \in Worker, WorkerStep(w) \/ Crash(w)
        PROVE  JobInv'
    BY <1>2, GetTaskPreserves, ReportPreserves, MapPreserves, ReadPreserves,
       WritePreserves, LeavePreserves DEF WorkerStep
  <1>3. QED
    BY <1>1, <1>2, TimerPreserves, FinishPreserves DEF Next

\* With workers that finish within their ten seconds or crash, each task in
\* progress has one worker, and remain counts the tasks that are not completed.
THEOREM JobInvariance ==
    ASSUME MaxTimeouts = 0
    PROVE  Spec => []JobInv
  BY InitJobInv, NextJobInv, PTL DEF Spec

\* Then every output file is made of the pairs of all the map tasks, and the
\* coordinator exits only when all the output files are there.
THEOREM OutputsAreComplete ==
    ASSUME MaxTimeouts = 0
    PROVE  Spec => []OutputIsComplete
  <1>1. JobInv => OutputIsComplete
    <2> SUFFICES ASSUME JobInv PROVE OutputIsComplete
      OBVIOUS
    <2>1. \A r \in written : output[r] = MapId
      BY DEF JobInv, FilesAreRight
    <2>2. ~up => written = ReduceId
      BY NoReduceLeft DEF JobInv, PhasesAreRight, Done
    <2>3. QED
      BY <2>1, <2>2 DEF OutputIsComplete
  <1>2. QED
    BY <1>1, JobInvariance, PTL

-----------------------------------------------------------------------------
(***************************************************************************)
(* The refinement: only ReportTaskDone and Finish are seen from outside.   *)
(***************************************************************************)
LEMMA CompletedIdsAre ==
    /\ \A m : m \in CompletedIds("MapTask") <=>
                  m \in MapId /\ taskState[<<"MapTask", m>>] = "Completed"
    /\ \A r : r \in CompletedIds("ReduceTask") <=>
                  r \in ReduceId /\ taskState[<<"ReduceTask", r>>] = "Completed"
  BY TaskFacts DEF CompletedIds, TasksOf

\* The steps that complete no task and do not end the coordinator.
LEMMA Unseen ==
    ASSUME up' = up, \A t \in Task : taskState'[t] = "Completed" <=> taskState[t] = "Completed"
    PROVE  UNCHANGED <<CompletedIds("MapTask"), CompletedIds("ReduceTask"), ~up>>
  <1>1. \A type : {u \in TasksOf(type) : taskState'[u] = "Completed"}
                    = {u \in TasksOf(type) : taskState[u] = "Completed"}
    BY DEF TasksOf
  <1>2. QED
    BY <1>1 DEF CompletedIds

LEMMA ReportIsSeen ==
    ASSUME JobInv, NEW w \in Worker, ReportTaskDone(w)
    PROVE  Job!Next
  <1> DEFINE t == worker[w].task
  <1>1. t \in Task /\ taskState[t] = "InProgress"
    BY DEF JobInv, WorkersAreRight, ReportTaskDone, Busy
  <1>2. taskState' = [taskState EXCEPT ![t] = "Completed"] /\ up' = up
    BY <1>1 DEF ReportTaskDone
  <1>3. /\ taskState'[t] = "Completed"
        /\ \A u \in Task : u # t => taskState'[u] = taskState[u]
    BY <1>1, <1>2 DEF JobInv, TypeOK
  <1>4. CASE t[1] = "MapTask"
    <2>1. t = <<"MapTask", t[2]>> /\ t[2] \in MapId
      BY <1>1, <1>4, TaskFacts
    <2>2. t[2] \notin CompletedIds("MapTask")
      BY <1>1, <2>1, CompletedIdsAre
    <2>3. CompletedIds("MapTask")' = CompletedIds("MapTask") \cup {t[2]}
      <3>1. {u \in TasksOf("MapTask") : taskState'[u] = "Completed"}
              = {u \in TasksOf("MapTask") : taskState[u] = "Completed"} \cup {t}
        BY <1>1, <1>3, <2>1 DEF TasksOf
      <3>2. QED
        BY <3>1 DEF CompletedIds
    <2>4. CompletedIds("ReduceTask")' = CompletedIds("ReduceTask")
      BY <1>1, <1>3, <1>4 DEF CompletedIds, TasksOf
    <2>5. Job!Map(t[2])
      BY <1>2, <2>2, <2>3, <2>4 DEF Job!Map
    <2>6. QED
      BY <2>1, <2>5 DEF Job!Next
  <1>5. CASE t[1] = "ReduceTask"
    <2>1. t = <<"ReduceTask", t[2]>> /\ t[2] \in ReduceId /\ t \in TasksOf("ReduceTask")
      BY <1>1, <1>5, TaskFacts DEF TasksOf
    <2>2. t[2] \notin CompletedIds("ReduceTask")
      BY <1>1, <2>1, CompletedIdsAre
    <2>3. CompletedIds("ReduceTask")' = CompletedIds("ReduceTask") \cup {t[2]}
      <3>1. {u \in TasksOf("ReduceTask") : taskState'[u] = "Completed"}
              = {u \in TasksOf("ReduceTask") : taskState[u] = "Completed"} \cup {t}
        BY <1>1, <1>3, <2>1 DEF TasksOf
      <3>2. QED
        BY <3>1 DEF CompletedIds
    <2>4. CompletedIds("MapTask")' = CompletedIds("MapTask")
      BY <1>1, <1>3, <1>5 DEF CompletedIds, TasksOf
    <2>5. CompletedIds("MapTask") = MapId
      <3>1. remain["MapTask"] <= 0
        BY <1>1, <2>1 DEF JobInv, PhasesAreRight
      <3>2. \A u \in TasksOf("MapTask") : taskState[u] = "Completed"
        BY <3>1, NoneLeft DEF JobInv, TaskType
      <3>3. QED
        BY <3>2, CompletedIdsAre, TaskFacts DEF TasksOf
    <2>6. Job!Reduce(t[2])
      BY <1>2, <2>2, <2>3, <2>4, <2>5 DEF Job!Reduce
    <2>7. QED
      BY <2>1, <2>6 DEF Job!Next
  <1>6. QED
    BY <1>1, <1>4, <1>5, TaskFacts DEF TaskType

LEMMA FinishIsSeen ==
    ASSUME JobInv, Finish
    PROVE  Job!Finish
  <1>1. /\ \A u \in TasksOf("MapTask") : taskState[u] = "Completed"
        /\ \A u \in TasksOf("ReduceTask") : taskState[u] = "Completed"
    BY NoneLeft DEF JobInv, TaskType, Finish, Done
  <1>2. CompletedIds("MapTask") = MapId /\ CompletedIds("ReduceTask") = ReduceId
    BY <1>1, CompletedIdsAre, TaskFacts DEF TasksOf
  <1>3. up /\ up' = FALSE /\ \A type : CompletedIds(type)' = CompletedIds(type)
    BY DEF Finish, CompletedIds
  <1>4. QED
    BY <1>2, <1>3 DEF Job!Finish

\* Coordinator and workers implement the job: no reduce task is completed before
\* the last map task, no completion is undone, and the coordinator exits only
\* when every task is completed.
THEOREM CoordinatorImplementsJob ==
    ASSUME MaxTimeouts = 0
    PROVE  Spec => ImplementsJob
  <1> DEFINE jobVars == <<CompletedIds("MapTask"), CompletedIds("ReduceTask"), ~up>>
  <1>1. Init => Job!Init
    BY CompletedIdsAre, TaskFacts DEF Init, Job!Init
  <1>2. JobInv /\ [Next]_vars => [Job!Next]_jobVars
    <2> SUFFICES ASSUME JobInv, [Next]_vars PROVE [Job!Next]_jobVars
      OBVIOUS
    <2>1. CASE UNCHANGED vars
      BY <2>1, Unseen DEF vars
    <2>2. ASSUME NEW w \in Worker, WorkerStep(w) \/ Crash(w)
          PROVE  [Job!Next]_jobVars
      <3>1. CASE GetTask(w)
        <4>1. up' = up /\ \A t \in Task : taskState'[t] = "Completed" <=> taskState[t] = "Completed"
          BY <3>1, ChosenIsIdle DEF GetTask, JobInv, TypeOK
        <4>2. QED
          BY <4>1, Unseen
      <3>2. CASE ReportTaskDone(w)
        BY <3>2, ReportIsSeen
      <3>3. CASE \/ writeIntermediateFile(w) \/ readFiles(w) \/ writeOutput(w)
                 \/ callFails(w) \/ Crash(w)
        BY <3>3, Unseen DEF writeIntermediateFile, readFiles, writeOutput, callFails,
                            Crash, coordinator
      <3>4. QED
        BY <2>2, <3>1, <3>2, <3>3 DEF WorkerStep
    <2>3. ASSUME NEW t \in Task, waitTaskDone(t)
          PROVE  [Job!Next]_jobVars
      <3>1. up' = up /\ \A u \in Task : taskState'[u] = "Completed" <=> taskState[u] = "Completed"
        BY <2>3 DEF waitTaskDone, JobInv, TypeOK
      <3>2. QED
        BY <3>1, Unseen
    <2>4. CASE Finish
      BY <2>4, FinishIsSeen DEF Job!Next
    <2>5. QED
      BY <2>1, <2>2, <2>3, <2>4 DEF Next
  <1>3. QED
    BY <1>1, <1>2, JobInvariance, PTL DEF Spec, Job!Spec, ImplementsJob

\* remain counts the tasks of each phase that are not completed: as long as no
\* timer fires, ReportTaskDone decrements it once for each task.
THEOREM RemainIsExact ==
    ASSUME MaxTimeouts = 0
    PROVE  Spec => []RemainCounts
  <1>1. JobInv => RemainCounts
    BY DEF JobInv
  <1>2. QED
    BY <1>1, JobInvariance, PTL
=============================================================================
