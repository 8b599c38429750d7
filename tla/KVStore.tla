---------------------------- MODULE KVStore ----------------------------
(***************************************************************************)
(* What the replicated key/value service of labs/src/kvraft promises its   *)
(* clients: one copy of the map, each operation of a clerk executed once,  *)
(* at a moment between its call and its return, and answered by what it    *)
(* returned then (labs/src/models/kv.go is the sequential specification    *)
(* the tester checks histories against).                                   *)
(***************************************************************************)
EXTENDS Integers, Sequences

CONSTANTS Client,
          Script    \* Script[c]: the operations clerk c is asked to perform

VARIABLES store,    \* the map
          served,   \* served[c]: how many operations of c were executed
          result,   \* result[c]: what the last of them returned
          answers   \* answers[c]: what the calls of c returned

storeVars == <<store, served, result, answers>>

Nothing == <<>>

Put(f, k, v) == [x \in DOMAIN f \cup {k} |-> IF x = k THEN v ELSE f[x]]

Read(f, k) == IF k \in DOMAIN f THEN f[k] ELSE Nothing

\* kvModel.Step: the next map and the output of an operation.
Updated(f, op) ==
    CASE op.type = "Put"    -> Put(f, op.key, op.value)
      [] op.type = "Append" -> Put(f, op.key, Read(f, op.key) \o op.value)
      [] op.type = "Get"    -> f

Output(f, op) == IF op.type = "Get" THEN Read(f, op.key) ELSE Nothing

Init ==
    /\ store = <<>>
    /\ served = [c \in Client |-> 0]
    /\ result = [c \in Client |-> Nothing]
    /\ answers = [c \in Client |-> <<>>]

Execute(c) ==
    /\ served[c] = Len(answers[c])
    /\ served[c] < Len(Script[c])
    /\ LET op == Script[c][served[c] + 1]
       IN  /\ store' = Updated(store, op)
           /\ result' = [result EXCEPT ![c] = Output(store, op)]
    /\ served' = [served EXCEPT ![c] = @ + 1]
    /\ UNCHANGED answers

Answer(c) ==
    /\ served[c] = Len(answers[c]) + 1
    /\ answers' = [answers EXCEPT ![c] = Append(@, result[c])]
    /\ UNCHANGED <<store, served, result>>

Next == \E c \in Client : Execute(c) \/ Answer(c)

Spec == Init /\ [][Next]_storeVars
=============================================================================
