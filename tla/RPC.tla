-------------------------------- MODULE RPC --------------------------------
(***************************************************************************)
(* What the other packages rely on when they use ClientEnd.Call            *)
(* (labs/src/labrpc): a call returns once, true or false; true says that   *)
(* the server executed the request and that a restarted server will still  *)
(* know; after false the request may have been executed, or still be.      *)
(***************************************************************************)
CONSTANT Request

VARIABLES outcome,   \* outcome[x]: "none", "pending", "true" or "false"
          kept       \* the requests whose effect survives a restart

vars == <<outcome, kept>>

Init ==
    /\ outcome = [x \in Request |-> "none"]
    /\ kept = {}

Begin(x) ==
    /\ outcome[x] = "none"
    /\ outcome' = [outcome EXCEPT ![x] = "pending"]
    /\ UNCHANGED kept

Execute(x) ==
    /\ outcome[x] # "none"
    /\ kept' = kept \cup {x}
    /\ UNCHANGED outcome

Return(x) ==
    /\ outcome[x] = "pending"
    /\ \/ x \in kept /\ outcome' = [outcome EXCEPT ![x] = "true"]
       \/ outcome' = [outcome EXCEPT ![x] = "false"]
    /\ UNCHANGED kept

Next == \E x \in Request : Begin(x) \/ Execute(x) \/ Return(x)

Spec == Init /\ [][Next]_vars
=============================================================================
