---------------------------- MODULE ShardKV ----------------------------
(***************************************************************************)
(* The sharded key/value service of labs/src/shardkv: groups of servers    *)
(* that serve some shards each and hand shards over when the controller    *)
(* publishes a new configuration, and the clerks that look for the group   *)
(* of a key.                                                               *)
(*                                                                         *)
(* Raft appears as one log per group, which the servers of the group apply *)
(* in order, each at its own pace.  Start on the leader appends to it; on  *)
(* a server that only believes it leads, the entry is lost, and its        *)
(* handler waits for an index another entry will take (KVServer.tla shows  *)
(* this step by step).  An entry is kept with the state and the result     *)
(* that applying it gives: applyOpL is a function of the state and the     *)
(* operation, except for pendingHandoffs, whose keys hold a pointer and    *)
(* which is therefore kept per server.  The controller appears as the      *)
(* sequence of its configurations (ShardCtrler.tla).                       *)
(*                                                                         *)
(* kv.mu is released in waitApplyL, around the queries of the controller   *)
(* and around the calls of HandOffShards; a step ends there.  A handler    *)
(* that waits for an index goes on after its server has applied it.        *)
(***************************************************************************)
EXTENDS Integers, Sequences, FiniteSets, FiniteSetsExt, TLC

CONSTANTS Gid,           \* groups: numbers from 1
          NumServers,    \* NumServers[g]: servers in group g
          NShards,
          Client,
          Script,        \* Script[c]: the operations clerk c is asked to perform
          Assignment,    \* what the administrator asks for: functions shard -> gid
          SlowPolls,     \* may a poll use a configuration older than a handoff received?
          MaxConfigs,    \* bounds: configurations,
          MaxLog,        \*         entries in a group's log,
          MaxFaults,     \*         lost messages, timeouts, restarts, elections together
          maxraftstate   \* entries applied before a snapshot is taken

VARIABLES configs,       \* the controller's configurations from number 1
          log,           \* Raft: log[g], the entries of group g
          leader,        \* Raft: leader[g], the server that leads g
          applied,       \* applied[s]: how many entries s has applied
          pending,       \* pending[s]: pendingHandoffs of s
          life,          \* life[s]: how often s has decoded its pendingHandoffs
          snapshot,      \* snapshot[s]: its index, and pendingHandoffs
          opId,          \* opId[s]: kv.opId
          tick,          \* tick[s]: where the ticker goroutine is
          clerk,         \* clerk[c]: configuration, group leaders, the call's handler
          answers,       \* answers[c]: what c's calls returned
          faults         \* how many there were

raftVars == <<log, leader>>
serverVars == <<applied, pending, life, snapshot, opId>>
clerkVars == <<clerk, answers>>
vars == <<configs, raftVars, serverVars, tick, clerkVars, faults>>

Shard == 0 .. NShards - 1
Server == UNION {{g} \X (0 .. NumServers[g] - 1) : g \in Gid}
GroupOf(s) == s[1]
NoGroup == 0
Nothing == <<>>          \* the empty string, and the empty map

\* A key is the code of its first character.  The empty key is 0.
key2shard(key) == key % NShards

Put(f, k, v) == [x \in DOMAIN f \cup {k} |-> IF x = k THEN v ELSE f[x]]

-----------------------------------------------------------------------------
(* The state machine of a group. *)

isSame(op, last) == op.client = last.client /\ op.id = last.id

\* lastOps[op.ClientId] is this operation.
Processed(st, op) == op.client \in DOMAIN st.lastOps /\ isSame(op, st.lastOps[op.client])

\* Only operations that add or remove shards are exempt: HandOffDone has an
\* empty key.
WrongGroup(st, op) ==
    /\ op.type \notin {"AddShards", "RemoveShards"}
    /\ key2shard(op.key) \notin st.valid

OldValue(st, op) == IF op.key \in DOMAIN st.kvMap THEN st.kvMap[op.key] ELSE Nothing

notNewShardsL(st, num, shards) == <<num, shards>> \in st.received

\* lastOps[clientId].OpId, which is 0 for a client it does not hold.
LastId(lastOps, c) == IF c \in DOMAIN lastOps THEN lastOps[c].id ELSE 0

\* Bug: only the shards move, and not what was executed on them last.
MergedNothing(lastOps, others) == lastOps

\* The lastOps of the sender that are newer.
Merged(lastOps, others) ==
    LET newer == {c \in DOMAIN others : others[c].id > LastId(lastOps, c)}
    IN  [c \in DOMAIN lastOps \cup newer |-> IF c \in newer THEN others[c] ELSE lastOps[c]]

\* Bug: what this group kept of a shard it had before is not overwritten.
MovedNewOnly(st, op) == {k \in DOMAIN op.kvMap \ DOMAIN st.kvMap : key2shard(k) \in op.shards}

\* The keys whose values come with the shards.
Moved(st, op) == {k \in DOMAIN op.kvMap : key2shard(k) \in op.shards}

applyAddShardsL(st, op) ==
    IF notNewShardsL(st, op.num, op.shards) THEN st
    ELSE LET moved == Moved(st, op)
         IN  [kvMap    |-> [k \in DOMAIN st.kvMap \cup moved |->
                               IF k \in moved THEN op.kvMap[k] ELSE st.kvMap[k]],
              valid    |-> st.valid \cup op.shards,
              lastOps  |-> Merged(st.lastOps, op.lastOps),
              received |-> st.received \cup {<<op.num, op.shards>>}]

removed(st, op) == ~(op.shards \subseteq st.valid)

\* Bug: the shards are handed off and served on.
applyRemoveShardsLKeeps(st, op) == st

applyRemoveShardsL(st, op) ==
    IF removed(st, op) THEN st ELSE [st EXCEPT !.valid = @ \ op.shards]

\* The value an operation leaves in lastOps and returns.
ValueOf(st, op) ==
    CASE op.type = "Put"    -> op.value
      [] op.type = "Append" -> OldValue(st, op) \o op.value
      [] op.type = "Get"    -> OldValue(st, op)
      [] OTHER              -> Nothing

\* The switch of applyOpL.
Switch(st, op) ==
    CASE op.type \in {"Put", "Append"} -> [st EXCEPT !.kvMap = Put(@, op.key, ValueOf(st, op))]
      [] op.type = "AddShards"         -> applyAddShardsL(st, op)
      [] op.type = "RemoveShards"      -> applyRemoveShardsL(st, op)
      [] OTHER                         -> st

applyOpL(st, op) ==
    IF Processed(st, op) \/ WrongGroup(st, op) THEN st
    ELSE LET next == Switch(st, op)
         IN  [next EXCEPT !.lastOps = Put(@, op.client,
                 [client |-> op.client, id |-> op.id, value |-> ValueOf(st, op)])]

\* The _Result it returns.
ResultOf(st, op) ==
    CASE Processed(st, op)  -> [err |-> "OK", value |-> st.lastOps[op.client].value]
      [] ~Processed(st, op) /\ WrongGroup(st, op) -> [err |-> "ErrWrongGroup", value |-> Nothing]
      [] OTHER -> [err   |-> IF op.type = "Get" /\ ValueOf(st, op) = Nothing THEN "ErrNoKey" ELSE "OK",
                   value |-> ValueOf(st, op)]

\* firstConfigL: what a server holds before it applies anything.
FirstState(g) == [kvMap |-> Nothing, valid |-> {d \in Shard : configs[1][d] = g},
                  lastOps |-> Nothing, received |-> {}]

StateAt(g, n) == IF n = 0 THEN FirstState(g) ELSE log[g][n].state

\* What server s holds, and what its group will hold.
State(s) == StateAt(GroupOf(s), applied[s])
End(g) == StateAt(g, Len(log[g]))

-----------------------------------------------------------------------------
(* Raft, as the servers use it. *)

Fault ==
    /\ faults < MaxFaults
    /\ faults' = faults + 1

\* GetState and Start find s leading: it does, or has not yet heard of the
\* election it lost.
IsLeader(s) ==
    \/ leader[GroupOf(s)] = s /\ UNCHANGED faults
    \/ leader[GroupOf(s)] # s /\ Fault

NextIndex(s) == Len(log[GroupOf(s)]) + 1

\* rf.Start(*op) on a server that takes itself for the leader.
Start(s, op) ==
    LET g == GroupOf(s)
    IN  /\ IsLeader(s)
        /\ Len(log[g]) < MaxLog
        /\ log' = IF leader[g] # s THEN log
                  ELSE [log EXCEPT ![g] = Append(@, [op |-> op, state |-> applyOpL(End(g), op),
                                                     result |-> ResultOf(End(g), op)])]
        /\ UNCHANGED leader

\* Another server of g wins an election.
Elect(g) ==
    /\ Fault
    /\ \E s \in Server : GroupOf(s) = g /\ s # leader[g] /\ leader' = [leader EXCEPT ![g] = s]
    /\ UNCHANGED <<configs, log, serverVars, tick, clerkVars>>

\* The controller executes a Join, Leave or Move.
Reconfigure ==
    /\ Len(configs) < MaxConfigs
    /\ \E a \in Assignment :
          /\ a # configs[Len(configs)]
          /\ configs' = Append(configs, a)
    /\ UNCHANGED <<raftVars, serverVars, tick, clerkVars, faults>>

-----------------------------------------------------------------------------
(* receiveApplyMsg. *)

\* pendingHandoffs of s after an entry.  A HandOffDone matches the key that was
\* ranged over only in the memory it came from.
PendingAfter(s, st, op) ==
    IF Processed(st, op) \/ WrongGroup(st, op) THEN pending[s]
    ELSE CASE op.type = "RemoveShards" /\ ~removed(st, op) ->
                pending[s] \cup {[gid |-> op.gid, num |-> op.num, shards |-> op.shards]}
           [] op.type = "HandOffDone" /\ op.memory = <<s, life[s]>> -> pending[s] \ {op.handoff}
           [] OTHER -> pending[s]

\* Bug: the snapshot leaves out the handoffs still to do.
snapshotLNoHandoffs(s) == [index |-> applied'[s], pending |-> {}]

snapshotL(s) == [index |-> applied'[s], pending |-> pending'[s]]

\* A ticker that spins in handOffL keeps kv.mu.
Unlocked(s) == tick[s].pc # "spin"

receiveApplyMsg(s) ==
    LET g == GroupOf(s)
    IN  /\ Unlocked(s)
        /\ applied[s] < Len(log[g])
        /\ applied' = [applied EXCEPT ![s] = @ + 1]
        /\ pending' = [pending EXCEPT ![s] = PendingAfter(s, State(s), log[g][applied[s] + 1].op)]
        /\ snapshot' = IF applied'[s] - snapshot[s].index >= maxraftstate
                       THEN [snapshot EXCEPT ![s] = snapshotL(s)] ELSE snapshot
        /\ UNCHANGED <<configs, raftVars, life, opId, tick, clerkVars, faults>>

-----------------------------------------------------------------------------
(* The ticker: checkPendingHandoffs and pollConfig. *)

Sleeping == [pc |-> "sleep"]

\* The op is given the next id of this server, and proposed; the caller waits
\* for its index, or returns at once.
reconfigureL(s, content, caller, wait) ==
    LET op == content @@ [client |-> -GroupOf(s), id |-> opId[s], key |-> 0]
    IN  /\ opId' = [opId EXCEPT ![s] = @ + 1]
        /\ \/ /\ Processed(State(s), op) \/ leader[GroupOf(s)] # s
              /\ tick' = [tick EXCEPT ![caller] = wait]
              /\ UNCHANGED <<raftVars, faults>>
           \/ /\ ~Processed(State(s), op)
              /\ Start(s, op)
              /\ tick' = [tick EXCEPT ![caller] = [wait EXCEPT !.index = NextIndex(s)]]

\* An index no server reaches.
Never == MaxLog + 1

\* The handler that waits for this index on this server goes on.
Woken(s, index) == Unlocked(s) /\ applied[s] >= index

\* The loop of checkPendingHandoffs: what s may do next.  It ranges over the
\* map it started with, which readSnapshotL may have replaced; a handoff added
\* meanwhile waits for the next round.  No server is listed for group 0.
Handoffs(s, todo, memory) ==
    LET left == IF memory = <<s, life[s]>> THEN todo \cap pending[s] ELSE todo
    IN  IF left = {} THEN {[pc |-> "query"]}
        ELSE {IF h.gid = NoGroup THEN [pc |-> "spin"]
              ELSE [pc |-> "call", todo |-> left \ {h}, handoff |-> h, memory |-> memory,
                    args |-> [num |-> h.num, shards |-> h.shards,
                              kvMap |-> State(s).kvMap, lastOps |-> State(s).lastOps],
                    to |-> 0, index |-> 0] : h \in left}

checkPendingHandoffs(s) ==
    /\ tick[s].pc = "sleep"
    /\ pending[s] # {}
    /\ IsLeader(s)
    /\ \E next \in Handoffs(s, pending[s], <<s, life[s]>>) : tick' = [tick EXCEPT ![s] = next]
    /\ UNCHANGED <<configs, raftVars, serverVars, clerkVars>>

\* The server handOffL calls.
Receiver(s) == <<tick[s].handoff.gid, tick[s].to>>

\* s, or the HandOffShards it called, is in waitApplyL, on this server.
Waiting(s) == tick[s].pc \in {"called", "done", "remove"}
WaitsAt(s) == IF tick[s].pc = "called" THEN Receiver(s) ELSE s

\* The call gave no OK: the next server.
NextServer(s) == [tick[s] EXCEPT !.pc = "call", !.index = 0, !.to = (@ + 1) % NumServers[tick[s].handoff.gid]]

\* HandOffShards on a server that does not lead.
HandOffShardsRefused(s) ==
    /\ tick[s].pc = "call"
    /\ leader[tick[s].handoff.gid] # Receiver(s)
    /\ Unlocked(Receiver(s))
    /\ tick' = [tick EXCEPT ![s] = NextServer(s)]
    /\ UNCHANGED <<configs, raftVars, serverVars, clerkVars, faults>>

\* HandOffShards, up to waitApplyL.
HandOffShards(s) ==
    LET t == Receiver(s)
        args == tick[s].args
    IN  /\ tick[s].pc = "call"
        /\ Unlocked(t)
        /\ \/ /\ notNewShardsL(State(t), args.num, args.shards)
              /\ IsLeader(t)
              /\ tick' = [tick EXCEPT ![s].pc = "ok"]
              /\ UNCHANGED <<raftVars, opId>>
           \/ /\ ~notNewShardsL(State(t), args.num, args.shards)
              /\ reconfigureL(t, args @@ [type |-> "AddShards"], s, [tick[s] EXCEPT !.pc = "called"])
              /\ leader[GroupOf(t)] = t \/ faults' # faults
        /\ UNCHANGED <<configs, applied, pending, life, snapshot, clerkVars>>

\* The rest of HandOffShards, and its reply.
HandOffShardsReply(s) ==
    /\ tick[s].pc = "called"
    /\ Woken(Receiver(s), tick[s].index)
    /\ tick' = [tick EXCEPT ![s] =
                  IF notNewShardsL(State(Receiver(s)), @.args.num, @.args.shards)
                  THEN [@ EXCEPT !.pc = "ok"] ELSE NextServer(s)]
    /\ UNCHANGED <<configs, raftVars, serverVars, clerkVars, faults>>

\* The request or the reply is lost.
LoseHandoff(s) ==
    /\ \/ tick[s].pc = "call"
       \/ tick[s].pc = "called" /\ Woken(Receiver(s), tick[s].index)
    /\ Fault
    /\ tick' = [tick EXCEPT ![s] = NextServer(s)]
    /\ UNCHANGED <<configs, raftVars, serverVars, clerkVars>>

handoffDoneL(s) ==
    /\ tick[s].pc = "ok"
    /\ reconfigureL(s, [type |-> "HandOffDone", handoff |-> tick[s].handoff, memory |-> tick[s].memory],
                    s, [pc |-> "done", todo |-> tick[s].todo, memory |-> tick[s].memory, index |-> 0])
    /\ UNCHANGED <<configs, applied, pending, life, snapshot, clerkVars>>

nextHandoff(s) ==
    /\ tick[s].pc = "done"
    /\ Woken(s, tick[s].index)
    /\ \E next \in Handoffs(s, tick[s].todo, tick[s].memory) : tick' = [tick EXCEPT ![s] = next]
    /\ UNCHANGED <<configs, raftVars, serverVars, clerkVars, faults>>

\* pollConfig, up to the lock: ctrler.Query(-1).
Query(s) ==
    /\ \/ tick[s].pc = "query" /\ UNCHANGED faults
       \/ tick[s].pc = "sleep" /\ pending[s] = {} /\ IsLeader(s)
    /\ tick' = [tick EXCEPT ![s] = [pc |-> "polled", num |-> Len(configs)]]
    /\ UNCHANGED <<configs, raftVars, serverVars, clerkVars>>

\* The loop of pollConfig: one removeShardsL for each group in `left'.
Removing(s, num, left) ==
    \/ /\ left = {}
       /\ tick' = [tick EXCEPT ![s] = Sleeping]
       /\ UNCHANGED <<raftVars, opId, faults>>
    \/ \E m \in left :
          reconfigureL(s, m @@ [type |-> "RemoveShards", num |-> num], s,
                       [pc |-> "remove", num |-> num, left |-> left \ {m}, index |-> 0])

\* The rest of pollConfig.
pollConfig(s) ==
    LET num == tick[s].num
        leaving == {d \in State(s).valid : configs[num][d] # GroupOf(s)}
    IN  /\ tick[s].pc = "polled"
        /\ SlowPolls \/ \A r \in State(s).received : r[1] <= num
        /\ Removing(s, num, {[gid |-> configs[num][d],
                              shards |-> {e \in leaving : configs[num][e] = configs[num][d]}] : d \in leaving})
        /\ UNCHANGED <<configs, applied, pending, life, snapshot, clerkVars>>

removeShardsL(s) ==
    /\ tick[s].pc = "remove"
    /\ Woken(s, tick[s].index)
    /\ Removing(s, tick[s].num, tick[s].left)
    /\ UNCHANGED <<configs, applied, pending, life, snapshot, clerkVars>>

\* waitApplyL's timer, in the ticker or in the HandOffShards it called.
timeout(s) ==
    /\ Waiting(s)
    /\ tick[s].index # 0
    /\ Fault
    /\ tick' = [tick EXCEPT ![s].index = 0]
    /\ UNCHANGED <<configs, raftVars, serverVars, clerkVars>>

-----------------------------------------------------------------------------
(* The clerk, and the handlers Get and PutAppend. *)

Working(c) == Len(answers[c]) < Len(Script[c])

OpOf(c) == Script[c][Len(answers[c]) + 1] @@ [client |-> c, id |-> Len(answers[c])]

\* The group the clerk believes to hold the key, and the server it calls.
TargetGroup(c) == configs[clerk[c].num][key2shard(OpOf(c).key)]
Target(c) == <<TargetGroup(c), clerk[c].leaders[TargetGroup(c)]>>

Calling(c) == Working(c) /\ clerk[c].pc = "send" /\ TargetGroup(c) # NoGroup

changeLeaderL(c) ==
    [clerk[c] EXCEPT !.pc = "send", !.index = 0, !.leaders[TargetGroup(c)] = (@ + 1) % NumServers[TargetGroup(c)]]

\* ck.config = ck.sm.Query(NA)
NewConfig(c) == [clerk[c] EXCEPT !.pc = "send", !.index = 0, !.num = Len(configs)]

\* The handler returns and _sendOpL looks at the reply, if it arrives.
Reply(c, err, value) ==
    \/ /\ err \in {"OK", "ErrNoKey"}
       /\ answers' = [answers EXCEPT ![c] = Append(@, IF OpOf(c).type = "Get" THEN value ELSE Nothing)]
       /\ clerk' = [clerk EXCEPT ![c].pc = "send", ![c].index = 0]
       /\ UNCHANGED faults
    \/ /\ err \notin {"OK", "ErrNoKey"}
       /\ clerk' = [clerk EXCEPT ![c] = IF err = "ErrWrongGroup" THEN NewConfig(c) ELSE changeLeaderL(c)]
       /\ UNCHANGED <<answers, faults>>
    \/ /\ Fault
       /\ clerk' = [clerk EXCEPT ![c] = changeLeaderL(c)]
       /\ UNCHANGED answers

\* The clerk's configuration has no group for the key.
QueryAgain(c) ==
    /\ Working(c)
    /\ TargetGroup(c) = NoGroup
    /\ clerk' = [clerk EXCEPT ![c] = NewConfig(c)]
    /\ UNCHANGED <<configs, raftVars, serverVars, tick, answers, faults>>

LoseRequest(c) ==
    /\ Calling(c)
    /\ Fault
    /\ clerk' = [clerk EXCEPT ![c] = changeLeaderL(c)]
    /\ UNCHANGED <<configs, raftVars, serverVars, tick, answers>>

\* processOpL: an operation executed last is answered at once.
AnswerAgain(c) ==
    /\ Calling(c)
    /\ Unlocked(Target(c))
    /\ Processed(State(Target(c)), OpOf(c))
    /\ Reply(c, "OK", State(Target(c)).lastOps[c].value)
    /\ UNCHANGED <<configs, raftVars, serverVars, tick>>

WrongLeader(c) ==
    /\ Calling(c)
    /\ Unlocked(Target(c))
    /\ ~Processed(State(Target(c)), OpOf(c))
    /\ leader[TargetGroup(c)] # Target(c)
    /\ Reply(c, "ErrWrongLeader", Nothing)
    /\ UNCHANGED <<configs, raftVars, serverVars, tick>>

Propose(c) ==
    /\ Calling(c)
    /\ Unlocked(Target(c))
    /\ ~Processed(State(Target(c)), OpOf(c))
    /\ Start(Target(c), OpOf(c))
    /\ clerk' = [clerk EXCEPT ![c].pc = "wait", ![c].index = NextIndex(Target(c))]
    /\ UNCHANGED <<configs, serverVars, tick, answers>>

\* The rest of waitApplyL and processOpL: the entry at the index was applied.
leave(c) ==
    /\ clerk[c].pc = "wait"
    /\ Woken(Target(c), clerk[c].index)
    /\ LET entry == log[TargetGroup(c)][clerk[c].index]
       IN  Reply(c, IF entry.result.err = "OK" /\ ~isSame(OpOf(c), entry.op)
                    THEN "ErrNotApplied" ELSE entry.result.err, entry.result.value)
    /\ UNCHANGED <<configs, raftVars, serverVars, tick>>

timeoutOp(c) ==
    /\ clerk[c].pc = "wait"
    /\ Unlocked(Target(c))
    /\ Fault
    /\ clerk' = [clerk EXCEPT ![c] = changeLeaderL(c)]
    /\ UNCHANGED <<configs, raftVars, serverVars, tick, answers>>

\* The handlers on s that wait for an entry of a snapshot will time out.
Skip(s, last, call) ==
    IF call.index \in applied[s] + 1 .. last THEN [call EXCEPT !.index = Never] ELSE call

\* receiveApplyMsg for a snapshot of another server that Raft installed.
readSnapshotL(s) ==
    /\ Unlocked(s)
    /\ \E t \in Server :
          LET last == snapshot[t].index
          IN  /\ GroupOf(t) = GroupOf(s)
              /\ last > applied[s]
              /\ applied' = [applied EXCEPT ![s] = last]
              /\ pending' = [pending EXCEPT ![s] = snapshot[t].pending]
              /\ snapshot' = [snapshot EXCEPT ![s] = snapshot[t]]
              /\ tick' = [u \in Server |-> IF Waiting(u) /\ WaitsAt(u) = s
                                           THEN Skip(s, last, tick[u]) ELSE tick[u]]
              /\ clerk' = [c \in Client |-> IF clerk[c].pc = "wait" /\ Target(c) = s
                                            THEN Skip(s, last, clerk[c]) ELSE clerk[c]]
    /\ life' = [life EXCEPT ![s] = @ + 1]
    /\ UNCHANGED <<configs, raftVars, opId, answers, faults>>

\* Kill, and StartServer over the same persister.  The calls of the old
\* instance's handlers return false.
Crash(s) ==
    /\ Fault
    /\ applied' = [applied EXCEPT ![s] = snapshot[s].index]
    /\ pending' = [pending EXCEPT ![s] = snapshot[s].pending]
    /\ life' = [life EXCEPT ![s] = @ + 1]
    /\ opId' = [opId EXCEPT ![s] = 0]
    /\ tick' = [t \in Server |-> CASE t = s -> Sleeping
                                   [] t # s /\ tick[t].pc = "called" /\ Receiver(t) = s -> NextServer(t)
                                   [] OTHER -> tick[t]]
    /\ clerk' = [c \in Client |-> IF clerk[c].pc = "wait" /\ Target(c) = s
                                  THEN changeLeaderL(c) ELSE clerk[c]]
    /\ UNCHANGED <<configs, raftVars, snapshot, answers>>

-----------------------------------------------------------------------------
\* Nobody has handed off, polled or crashed; the last server of each group leads.
Fresh ==
    /\ leader = [g \in Gid |-> <<g, NumServers[g] - 1>>]
    /\ pending = [s \in Server |-> {}]
    /\ life = [s \in Server |-> 0]
    /\ snapshot = [s \in Server |-> [index |-> 0, pending |-> {}]]
    /\ opId = [s \in Server |-> 0]
    /\ tick = [s \in Server |-> Sleeping]
    /\ clerk = [c \in Client |-> [pc |-> "send", num |-> 1, leaders |-> [g \in Gid |-> 0], index |-> 0]]

\* StartServer with an empty persister, and MakeClerk, once groups have joined.
Init ==
    /\ configs \in {<<a>> : a \in [Shard -> Gid] \cap Assignment}
    /\ log = [g \in Gid |-> Nothing]
    /\ applied = [s \in Server |-> 0]
    /\ answers = [c \in Client |-> Nothing]
    /\ faults = 0
    /\ Fresh

Next ==
    \/ Reconfigure
    \/ \E g \in Gid : Elect(g)
    \/ \E s \in Server :
          \/ receiveApplyMsg(s) \/ readSnapshotL(s) \/ Crash(s)
          \/ checkPendingHandoffs(s) \/ HandOffShardsRefused(s) \/ HandOffShards(s)
          \/ HandOffShardsReply(s) \/ LoseHandoff(s) \/ handoffDoneL(s) \/ nextHandoff(s)
          \/ Query(s) \/ pollConfig(s) \/ removeShardsL(s) \/ timeout(s)
    \/ \E c \in Client :
          \/ QueryAgain(c) \/ LoseRequest(c) \/ AnswerAgain(c) \/ WrongLeader(c)
          \/ Propose(c) \/ leave(c) \/ timeoutOp(c)

Spec == Init /\ [][Next]_vars

-----------------------------------------------------------------------------
(* Properties. *)

\* No shard is served by two groups: once the log of the new group holds the
\* handoff, the log of the old one holds the removal, whatever is resent,
\* duplicated or replayed (applyRemoveShardsL, HandOffShards).
OneOwner ==
    \A d \in Shard : Cardinality({g \in Gid : d \in End(g).valid}) <= 1

\* The removals of group g that took effect and that their receivers have not
\* in their log, with the index of the entry.
Underway(g) ==
    {n \in 1 .. Len(log[g]) :
        /\ log[g][n].op.type = "RemoveShards"
        /\ StateAt(g, n).valid # StateAt(g, n - 1).valid
        /\ log[g][n].op.gid \in Gid =>
              ~notNewShardsL(End(log[g][n].op.gid), log[g][n].op.num, log[g][n].op.shards)}

\* Every shard is served by a group, or one group has removed it and each of
\* its servers that knows remembers to hand it off.
NoShardLost ==
    \A d \in Shard :
       \/ \E g \in Gid : d \in End(g).valid
       \/ \E g \in Gid : \E n \in Underway(g) :
             LET op == log[g][n].op
             IN  /\ d \in op.shards
                 /\ \A s \in Server : GroupOf(s) = g /\ applied[s] >= n =>
                       [gid |-> op.gid, num |-> op.num, shards |-> op.shards] \in pending[s]

\* The group that holds the current value of a shard: the one that serves it,
\* or the one that removed it last and has not yet handed it off.
Holder(d) ==
    IF \E g \in Gid : d \in End(g).valid THEN CHOOSE g \in Gid : d \in End(g).valid
    ELSE CHOOSE g \in Gid : \E n \in Underway(g) : d \in log[g][n].op.shards

Keys == {k \in UNION {DOMAIN End(g).kvMap : g \in Gid} : k \in DOMAIN End(Holder(key2shard(k))).kvMap}

Served(c) == Max({0} \cup {End(g).lastOps[c].id + 1 : g \in {h \in Gid : c \in DOMAIN End(h).lastOps}})

LastResult(c) ==
    IF Served(c) = 0 \/ Script[c][Served(c)].type # "Get" THEN Nothing
    ELSE LET g == CHOOSE h \in Gid : c \in DOMAIN End(h).lastOps /\ End(h).lastOps[c].id + 1 = Served(c)
         IN  End(g).lastOps[c].value

Store == INSTANCE KVStore
            WITH store <- [k \in Keys |-> End(Holder(key2shard(k))).kvMap[k]],
                 served <- [c \in Client |-> Served(c)],
                 result <- [c \in Client |-> LastResult(c)]

\* The groups together are one map on which every operation of a clerk takes
\* effect once, although shards move while it is retried (linearizability,
\* at most once across handoffs: Merged in applyAddShardsL, Processed).  It does
\* not hold of a clerk's first operation, whose id Merged takes for an old one.
\* What the map holds is determined by the logs.
ImplementsStore == [][UNCHANGED <<log, answers>> \/ Store!Next]_(Store!storeVars)
=============================================================================
