---------------------------- MODULE MapReduceJob ----------------------------
(***************************************************************************)
(* What a MapReduce job promises: every map task is completed before the   *)
(* first reduce task, and the coordinator exits when all tasks are.        *)
(***************************************************************************)
CONSTANTS MapId, ReduceId

VARIABLES mapped, reduced, finished

Init == mapped = {} /\ reduced = {} /\ finished = FALSE

Map(m) == /\ m \notin mapped
          /\ mapped' = mapped \cup {m}
          /\ UNCHANGED <<reduced, finished>>

Reduce(r) == /\ mapped = MapId /\ r \notin reduced
             /\ reduced' = reduced \cup {r}
             /\ UNCHANGED <<mapped, finished>>

Finish == /\ mapped = MapId /\ reduced = ReduceId /\ ~finished
          /\ finished' = TRUE
          /\ UNCHANGED <<mapped, reduced>>

Next == \/ \E m \in MapId : Map(m)
        \/ \E r \in ReduceId : Reduce(r)
        \/ Finish

Spec == Init /\ [][Next]_<<mapped, reduced, finished>>
=============================================================================
