--------------------------- MODULE MCShardKV ---------------------------
(***************************************************************************)
(* Two groups, two shards and a clerk, for TLC.  MCShardKV follows them    *)
(* from the start of the system, without faults through three              *)
(* configurations; and with a fault at any moment from two states in which *)
(* group 1 has executed the clerk's first operation.  In one of these it   *)
(* is to hand off a shard.  In the other it has the second operation in    *)
(* its log too, the clerk's call has timed out, and both shards leave.     *)
(***************************************************************************)
EXTENDS ShardKV

CONSTANT c1

PutOp(k, v) == [type |-> "Put", key |-> k, value |-> <<v>>]
AppendOp(k, v) == [type |-> "Append", key |-> k, value |-> <<v>>]

OneClerk == c1 :> <<PutOp(1, 1), AppendOp(1, 2)>>
OneAppend == c1 :> <<AppendOp(1, 1)>>
Idle == c1 :> <<>>

\* Each group has a shard; one group has both, or none has any.
Split == [d \in 0 .. 1 |-> d + 1]
AllTo(g) == [d \in 0 .. 1 |-> g]
Assignments == {Split, AllTo(1), AllTo(NoGroup)}
ToAndFro == {Split, AllTo(1)}
Either == {AllTo(1), AllTo(2)}

Sizes == <<2, 1>>

Quiet ==
    /\ configs = <<AllTo(1)>>
    /\ log = [g \in Gid |-> Nothing]
    /\ applied = [s \in Server |-> 0]
    /\ answers = [c \in Client |-> Nothing]
    /\ faults = MaxFaults + 1
    /\ Fresh

EntryOf(st, op) == [op |-> op, state |-> applyOpL(st, op), result |-> ResultOf(st, op)]

\* The clerk's first two operations in the log of group 1.
First == EntryOf(FirstState(1), PutOp(1, 1) @@ [client |-> c1, id |-> 0])
Second == EntryOf(First.state, AppendOp(1, 2) @@ [client |-> c1, id |-> 1])

Faulty ==
    /\ \/ /\ configs = <<AllTo(1), Split>>
          /\ log = <<<<First>>, Nothing>>
       \/ /\ configs = <<AllTo(1), AllTo(2)>>
          /\ log = <<<<First, Second>>, Nothing>>
    /\ applied = [s \in Server |-> IF GroupOf(s) = 1 THEN 1 ELSE 0]
    /\ answers = [c \in Client |-> <<Nothing>>]
    /\ faults = 0
    /\ Fresh

\* Faults are followed through two configurations only.
FewConfigs == faults <= MaxFaults => Len(configs) <= 2

\* A poll that finds nothing to hand off, and would not before the next
\* configuration, changes nothing.
UsefulPolls ==
    \A s \in Server : tick'[s].pc = "polled" /\ tick[s].pc = "sleep" =>
        \E d \in State(s).valid : configs[Len(configs)][d] # GroupOf(s)

MCSpec == (Quiet \/ Faulty) /\ [][Next]_vars
=============================================================================
