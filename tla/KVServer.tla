---------------------------- MODULE KVServer ----------------------------
(***************************************************************************)
(* The fault-tolerant key/value service of labs/src/kvraft: its servers    *)
(* (server.go) and its clerks (client.go), over Raft.                      *)
(*                                                                         *)
(* Raft appears as what a service sees of it: `log' is the committed       *)
(* sequence, which every server receives in order, and `rlog[s]' the log   *)
(* of s.  A server that takes itself for the leader appends to its own     *)
(* log; the entry is committed from there or lost when s follows another   *)
(* leader.  Terms and elections are left out: any server may believe at    *)
(* any time that it leads, and leads if its log holds all that is          *)
(* committed (Raft.tla shows that Raft keeps that promise).                *)
(*                                                                         *)
(* kv.mu makes a handler one step up to the place where it releases the    *)
(* lock: waitApplyL's select, and the send on the result channel in        *)
(* receiveApplyMsg.  labrpc's Call returns false only when the handler was *)
(* never run, has returned, or died with its server, so a clerk has one    *)
(* handler at a time, and its record holds the handler's state.            *)
(***************************************************************************)
EXTENDS Integers, Sequences, FiniteSets, Functions

CONSTANTS NumServers, Client,
          Script,         \* Script[c]: the operations clerk c is asked to perform
          MaxLog,         \* bounds: entries in a log,
          MaxFaults,      \*         lost messages, timeouts and restarts together
          maxraftstate    \* entries Raft may hold before a snapshot is taken

ASSUME ServersAssumption == NumServers \in Nat \ {0}

ASSUME MaxLogAssumption == MaxLog \in Nat

ASSUME ScriptAssumption ==
    \A c \in Client :
       /\ Len(Script[c]) \in Nat
       /\ \A n \in 1 .. Len(Script[c]) : Script[c][n].type \in {"Put", "Append", "Get"}

VARIABLES rlog,           \* Raft: rlog[s] is the log of s
          log,            \* Raft: the committed operations
          machine,        \* history: machine[n], the service's state after n of them
          kv,             \* kv[s]: kvMap and lastOps of server s
          applied,        \* applied[s]: index of the last message s received
          snapshot,       \* snapshot[s]: what persister holds, with its index
          resultChans,    \* resultChans[s]: command index -> channel
          applier,        \* applier[s]: where receiveApplyMsg is
          clerk,          \* clerk[c]: currentLeader, and the call's handler
          answers,        \* answers[c]: what c's calls returned
          faults          \* how many there were

raftVars == <<rlog, log, machine>>
serverVars == <<kv, applied, snapshot, resultChans, applier>>
clerkVars == <<clerk, answers>>
vars == <<raftVars, serverVars, clerkVars, faults>>

Server == 0 .. NumServers - 1

Nothing == <<>>                 \* the empty string, and the empty map

Put(f, k, v) == [x \in DOMAIN f \cup {k} |-> IF x = k THEN v ELSE f[x]]

Delete(f, k) == [x \in DOMAIN f \ {k} |-> f[x]]

\* The sequence q begins with p.
Extends(q, p) == Len(p) <= Len(q) /\ \A n \in 1 .. Len(p) : q[n] = p[n]

-----------------------------------------------------------------------------
(* The state machine: applyOpL and the snapshots of its state. *)

\* Bug: an operation is executed whenever it is committed.
IsLastOpNever(m, op) == FALSE

\* lastOp.Op == *op: the test processOpL and applyOpL share.
IsLastOp(m, op) == op.client \in DOMAIN m.lastOps /\ m.lastOps[op.client].op = op

OldValue(m, op) == IF op.key \in DOMAIN m.kvMap THEN m.kvMap[op.key] ELSE Nothing

\* What applyOpL leaves in kvMap and lastOps.
applyOpL(m, op) ==
    IF IsLastOp(m, op) THEN m
    ELSE [kvMap   |-> CASE op.type = "Put"    -> Put(m.kvMap, op.key, op.value)
                        [] op.type = "Append" -> Put(m.kvMap, op.key, OldValue(m, op) \o op.value)
                        [] op.type = "Get"    -> m.kvMap,
          lastOps |-> Put(m.lastOps, op.client, [op |-> op, value |-> OldValue(m, op)])]

\* The _Result it returns.
ResultOf(m, op) ==
    [err   |-> CASE IsLastOp(m, op) -> "ErrDuplicate"
                 [] ~IsLastOp(m, op) /\ op.type = "Get" /\ op.key \notin DOMAIN m.kvMap -> "ErrNoKey"
                 [] OTHER -> "OK",
     value |-> IF op.type = "Get" /\ ~IsLastOp(m, op) THEN OldValue(m, op) ELSE Nothing,
     op    |-> op]

\* Bug: the snapshot leaves out the operations already executed.
snapshotLMapOnly(s) == [index |-> applied'[s], state |-> [kvMap |-> kv'[s].kvMap, lastOps |-> Nothing]]

\* snapshotL encodes kvMap and lastOps; Raft stores them under the index of
\* the command that was applied last.
snapshotL(s) == [index |-> applied'[s], state |-> kv'[s]]

\* The end of receiveApplyMsg: a snapshot is taken when RaftStateSize(), the
\* log behind the last one, has reached maxraftstate.
TakeSnapshot(s) ==
    snapshot' = IF Len(rlog[s]) - snapshot[s].index >= maxraftstate
                THEN [snapshot EXCEPT ![s] = snapshotL(s)] ELSE snapshot

-----------------------------------------------------------------------------
(* The clerk. *)

\* The operation the clerk is at: nextOpId counts the calls made.
OpOf(c) ==
    LET id == Len(answers[c])
    IN  [type |-> Script[c][id + 1].type, key |-> Script[c][id + 1].key,
         value |-> Script[c][id + 1].value, client |-> c, id |-> id]

Sending(leader) == [pc |-> "send", leader |-> leader, index |-> 0, ch |-> 0, result |-> Nothing]

\* Bug: the list of servers is not wrapped around.
changeLeaderLNoWrap(c) == clerk[c].leader + 1

changeLeaderL(c) == IF clerk[c].leader + 1 >= NumServers THEN 0 ELSE clerk[c].leader + 1

\* The call failed, or its answer is not final: try the next server.
Retry(c) ==
    /\ clerk' = [clerk EXCEPT ![c] = Sending(changeLeaderL(c))]
    /\ UNCHANGED answers

Fault ==
    /\ faults < MaxFaults
    /\ faults' = faults + 1

\* The handler of c returns and _sendOpL looks at the reply, if it arrives.
\* Only Get uses the value.
Reply(c, err, value) ==
    \/ /\ err \in {"OK", "ErrNoKey"}
       /\ answers' = [answers EXCEPT ![c] = Append(@, IF OpOf(c).type = "Get" THEN value ELSE Nothing)]
       /\ clerk' = [clerk EXCEPT ![c] = Sending(@.leader)]
       /\ UNCHANGED faults
    \/ /\ err \notin {"OK", "ErrNoKey"}
       /\ Retry(c)
       /\ UNCHANGED faults
    \/ /\ Fault
       /\ Retry(c)

\* The request is lost.
LoseRequest(c) ==
    /\ clerk[c].pc = "send"
    /\ Len(answers[c]) < Len(Script[c])
    /\ Fault
    /\ Retry(c)
    /\ UNCHANGED <<raftVars, serverVars>>

-----------------------------------------------------------------------------
(* The RPC handlers Get and PutAppend. *)

\* A channel nobody holds.
MakeChan(s) ==
    LET held == {resultChans[s][n] : n \in DOMAIN resultChans[s]}
                    \cup {clerk[c].ch : c \in Client} \cup {applier[s].ch}
    IN  CHOOSE n \in 1 .. Cardinality(held) + 1 : n \notin held

\* waitApplyL up to the select.
waitApplyL(c, s, index) ==
    LET ch == IF index \in DOMAIN resultChans[s] THEN resultChans[s][index] ELSE MakeChan(s)
    IN  /\ resultChans' = [resultChans EXCEPT ![s] = Put(@, index, ch)]
        /\ clerk' = [clerk EXCEPT ![c] = [Sending(s) EXCEPT !.pc = "wait", !.index = index, !.ch = ch]]

\* processOpL: an operation executed last is answered at once.
AnswerAgain(c) ==
    LET s == clerk[c].leader
    IN  /\ clerk[c].pc = "send"
        /\ Len(answers[c]) < Len(Script[c])
        /\ IsLastOp(kv[s], OpOf(c))
        /\ Reply(c, "OK", kv[s].lastOps[c].value)
        /\ UNCHANGED <<raftVars, serverVars>>

\* processOpL on a server that is not the leader.
WrongLeader(c) ==
    LET s == clerk[c].leader
    IN  /\ clerk[c].pc = "send"
        /\ Len(answers[c]) < Len(Script[c])
        /\ ~IsLastOp(kv[s], OpOf(c))
        /\ Reply(c, "ErrWrongLeader", Nothing)
        /\ UNCHANGED <<raftVars, serverVars>>

\* processOpL on a leader.
Propose(c) ==
    LET s == clerk[c].leader
    IN  /\ clerk[c].pc = "send"
        /\ Len(answers[c]) < Len(Script[c])
        /\ ~IsLastOp(kv[s], OpOf(c))
        /\ Len(rlog[s]) < MaxLog
        /\ rlog' = [rlog EXCEPT ![s] = Append(@, OpOf(c))]     \* rf.Start(*op)
        /\ waitApplyL(c, s, Len(rlog[s]) + 1)
        /\ UNCHANGED <<log, machine, kv, applied, snapshot, applier, answers, faults>>

\* waitApplyL's select takes the timer.
timeout(c) ==
    /\ clerk[c].pc = "wait"
    /\ Fault
    /\ clerk' = [clerk EXCEPT ![c].pc = "woken",
                              ![c].result = [err |-> "ErrTimeout", value |-> Nothing, op |-> OpOf(c)]]
    /\ UNCHANGED <<raftVars, serverVars, answers>>

\* Bug: the operation at the index is not compared with the one proposed.
ErrOfAny(c) == clerk[c].result.err

\* What waitApplyL makes of the result.
ErrOf(c) ==
    LET r == clerk[c].result
    IN  IF r.err = "OK" /\ r.op # OpOf(c) THEN "ErrNotApplied" ELSE r.err

\* Bug: the channel stays in the map.
deleteNot(s, index) == UNCHANGED resultChans

\* delete(kv.resultChans, commandIndex)
delete(s, index) == resultChans' = [resultChans EXCEPT ![s] = Delete(@, index)]

\* The rest of waitApplyL, with the lock again, and of processOpL.
leave(c) ==
    /\ clerk[c].pc = "woken"
    /\ delete(clerk[c].leader, clerk[c].index)
    /\ Reply(c, ErrOf(c), clerk[c].result.value)
    /\ UNCHANGED <<raftVars, kv, applied, snapshot, applier>>

-----------------------------------------------------------------------------
(* The applier, and Raft below it. *)

Receiving == [pc |-> "recv", ch |-> 0, result |-> Nothing]

\* AppendEntries: s takes over the log of t, which holds all that is committed,
\* unless it has it already.
Replicate(s, t) ==
    /\ Extends(rlog[t], log)
    /\ ~Extends(rlog[s], rlog[t])
    /\ rlog' = [rlog EXCEPT ![s] = rlog[t]]
    /\ UNCHANGED <<log, machine, serverVars, clerkVars, faults>>

\* The servers whose log begins with l.
Holding(l) == {t \in Server : Extends(rlog[t], l)}

\* The leader s finds its next entry on a majority.
Commit(s) ==
    /\ Len(rlog[s]) > Len(log)
    /\ Extends(rlog[s], log)
    /\ log' = SubSeq(rlog[s], 1, Len(log) + 1)
    /\ 2 * Cardinality(Holding(log')) > NumServers
    /\ machine' = Put(machine, Len(log) + 1, applyOpL(machine[Len(log)], rlog[s][Len(log) + 1]))
    /\ UNCHANGED <<rlog, serverVars, clerkVars, faults>>

\* receiveApplyMsg, for a command, up to the send on the result channel.
receiveApplyMsg(s) ==
    LET index == applied[s] + 1
        op == log[index]
    IN  /\ applier[s].pc = "recv"
        /\ applied[s] < Len(log)
        /\ s \in Holding(SubSeq(log, 1, index))
        /\ applied' = [applied EXCEPT ![s] = index]
        /\ kv' = [kv EXCEPT ![s] = applyOpL(@, op)]
        /\ \/ /\ index \in DOMAIN resultChans[s]
              /\ applier' = [applier EXCEPT ![s] =
                    [pc |-> "send", ch |-> resultChans[s][index], result |-> ResultOf(kv[s], op)]]
              /\ UNCHANGED snapshot
           \/ /\ index \notin DOMAIN resultChans[s]
              /\ TakeSnapshot(s)
              /\ UNCHANGED applier
        /\ UNCHANGED <<raftVars, resultChans, clerkVars, faults>>

\* ch <- result meets the select of a handler; receiveApplyMsg goes on.
sendResult(s, c) ==
    /\ applier[s].pc = "send"
    /\ clerk[c].pc = "wait"
    /\ clerk[c].leader = s
    /\ clerk[c].ch = applier[s].ch
    /\ clerk' = [clerk EXCEPT ![c].pc = "woken", ![c].result = applier[s].result]
    /\ applier' = [applier EXCEPT ![s] = Receiving]
    /\ UNCHANGED <<kv, applied>>
    /\ TakeSnapshot(s)
    /\ UNCHANGED <<raftVars, resultChans, answers, faults>>

\* receiveApplyMsg, for a snapshot of another server that Raft installed.
readSnapshotL(s) ==
    /\ applier[s].pc = "recv"
    /\ \E t \in Server :
          /\ snapshot[t].index > applied[s]
          /\ kv' = [kv EXCEPT ![s] = snapshot[t].state]
          /\ applied' = [applied EXCEPT ![s] = snapshot[t].index]
          /\ snapshot' = [snapshot EXCEPT ![s] = snapshot[t]]
          /\ LET covered == SubSeq(log, 1, snapshot[t].index)
             IN  rlog' = [rlog EXCEPT ![s] = IF s \in Holding(covered) THEN @ ELSE covered]
    /\ UNCHANGED <<log, machine, resultChans, applier, clerkVars, faults>>

\* Kill, and StartKVServer over the same persister.  The calls of the old
\* instance's handlers return false.
Crash(s) ==
    /\ Fault
    /\ kv' = [kv EXCEPT ![s] = snapshot[s].state]
    /\ applied' = [applied EXCEPT ![s] = snapshot[s].index]
    /\ resultChans' = [resultChans EXCEPT ![s] = Nothing]
    /\ applier' = [applier EXCEPT ![s] = Receiving]
    /\ clerk' = [c \in Client |->
                    IF clerk[c].leader = s /\ clerk[c].pc # "send"
                    THEN Sending(changeLeaderL(c)) ELSE clerk[c]]
    /\ UNCHANGED <<raftVars, snapshot, answers>>

-----------------------------------------------------------------------------
Empty == [kvMap |-> Nothing, lastOps |-> Nothing]

\* StartKVServer on every server with an empty persister, MakeClerk.
Init ==
    /\ rlog = [s \in Server |-> Nothing]
    /\ log = Nothing
    /\ machine = [n \in {0} |-> Empty]
    /\ kv = [s \in Server |-> Empty]
    /\ applied = [s \in Server |-> 0]
    /\ snapshot = [s \in Server |-> [index |-> 0, state |-> Empty]]
    /\ resultChans = [s \in Server |-> Nothing]
    /\ applier = [s \in Server |-> Receiving]
    /\ clerk = [c \in Client |-> Sending(0)]
    /\ answers = [c \in Client |-> Nothing]
    /\ faults = 0

Next ==
    \/ \E s \in Server : Commit(s) \/ \E t \in Server : Replicate(s, t)
    \/ \E c \in Client :
          AnswerAgain(c) \/ WrongLeader(c) \/ Propose(c) \/ leave(c) \/ timeout(c) \/ LoseRequest(c)
    \/ \E s \in Server :
          \/ receiveApplyMsg(s) \/ readSnapshotL(s) \/ Crash(s)
          \/ \E c \in Client : sendResult(s, c)

Spec == Init /\ [][Next]_vars

-----------------------------------------------------------------------------
(* Properties. *)

\* The fields have their types: in particular currentLeader stays an index of
\* servers[], and no server has applied or saved more than Raft committed.
TypeOK ==
    /\ 2 * Cardinality(Holding(log)) > NumServers
    /\ DOMAIN machine = 0 .. Len(log)
    /\ \A s \in Server :
          /\ applied[s] \in 0 .. Len(log)
          /\ snapshot[s].index \in 0 .. applied[s]
          /\ applier[s].pc \in {"recv", "send"}
          /\ DOMAIN resultChans[s] \subseteq 1 .. MaxLog
    /\ \A c \in Client :
          /\ clerk[c].leader \in Server
          /\ clerk[c].pc \in {"send", "wait", "woken"}
          /\ Len(answers[c]) <= Len(Script[c])

\* Servers that have applied the same commands hold the same map and remember
\* the same last operations, however they got there: command by command, from
\* an installed snapshot, or from their own snapshot after a restart.
ReplicasAgree ==
    \A s \in Server :
       /\ kv[s] = machine[applied[s]]
       /\ snapshot[s].state = machine[snapshot[s].index]

\* Every entry of resultChans belongs to a handler that will delete it: the
\* map of channels does not grow with the operations served.
ChannelsAreReclaimed ==
    \A s \in Server : \A n \in DOMAIN resultChans[s] :
       \E c \in Client : /\ clerk[c].leader = s
                         /\ clerk[c].pc \in {"wait", "woken"}
                         /\ clerk[c].index = n

\* What the committed log has done to the service.
Current == machine[Len(log)]

Served(c) == IF c \in DOMAIN Current.lastOps THEN Current.lastOps[c].op.id + 1 ELSE 0

LastResult(c) ==
    IF c \in DOMAIN Current.lastOps /\ Current.lastOps[c].op.type = "Get"
    THEN Current.lastOps[c].value ELSE Nothing

Store == INSTANCE KVStore
            WITH store <- Current.kvMap,
                 served <- [c \in Client |-> Served(c)],
                 result <- [c \in Client |-> LastResult(c)]

\* The service is one map on which every operation of a clerk takes effect
\* once, between its call and its return, although it is retried on other
\* servers, committed twice, or lost with a leader's log; each call returns
\* what the operation returned then (linearizability, exactly once).
ImplementsStore == Store!Spec

\* "wait for the commandIndex to be applied in kvserver, return true if it's
\* the same op" (server.go:122): a call that returned was executed.
AnsweredIsExecuted == \A c \in Client : Len(answers[c]) <= Served(c)
=============================================================================
