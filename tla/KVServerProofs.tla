------------------------- MODULE KVServerProofs -------------------------
(***************************************************************************)
(* For any number of servers, clerks, operations, faults and snapshots:    *)
(* the replicas of the key/value service agree, the channels on which      *)
(* handlers wait are reclaimed, the committed log stays on a majority, and *)
(* the service implements the map of KVStore.                              *)
(***************************************************************************)
EXTENDS KVServer, FiniteSetTheorems, TLAPS

IsSeq(q) == q \in Seq(Range(q))

\* What makes ReplicasAgree inductive: the history is the run of applyOpL over
\* the committed log, and nobody is ahead of it.
ReplicaInv ==
    /\ IsSeq(log)
    /\ DOMAIN rlog = Server
    /\ \A s \in Server : IsSeq(rlog[s])
    /\ DOMAIN machine = 0 .. Len(log)
    /\ \A n \in 1 .. Len(log) : machine[n] = applyOpL(machine[n - 1], log[n])
    /\ DOMAIN kv = Server /\ DOMAIN applied = Server /\ DOMAIN snapshot = Server
    /\ \A s \in Server : applied[s] \in 0 .. Len(log) /\ snapshot[s].index \in 0 .. Len(log)
    /\ ReplicasAgree

-----------------------------------------------------------------------------
\* Append and SubSeq make sequences of sequences.
LEMMA AnySeq ==
    ASSUME NEW S, NEW q \in Seq(S)
    PROVE  IsSeq(q)
<1>1. \A i \in 1 .. Len(q) : q[i] \in Range(q)
  BY DEF Range
<1> QED
  BY <1>1 DEF IsSeq

LEMMA AppendIsSeq ==
    ASSUME NEW q, IsSeq(q), NEW x
    PROVE  IsSeq(Append(q, x))
<1>1. Append(q, x) \in Seq(Range(q) \cup {x})
  BY DEF IsSeq
<1> QED
  BY <1>1, AnySeq, Zenon

LEMMA PrefixIsSeq ==
    ASSUME NEW q, IsSeq(q), NEW n \in 0 .. Len(q)
    PROVE  /\ IsSeq(SubSeq(q, 1, n))
           /\ Len(SubSeq(q, 1, n)) = n
           /\ \A i \in 1 .. n : SubSeq(q, 1, n)[i] = q[i]
<1>1. SubSeq(q, 1, n) \in Seq(Range(q)) /\ Len(SubSeq(q, 1, n)) = n
  BY DEF IsSeq
<1>2. \A i \in 1 .. n : SubSeq(q, 1, n)[i] = q[i]
  BY DEF IsSeq
<1> QED
  BY Zenon, <1>1, <1>2, AnySeq

-----------------------------------------------------------------------------
LEMMA InitReplicaInv == Init => ReplicaInv
<1> SUFFICES ASSUME Init PROVE ReplicaInv
  BY Zenon
<1>1. IsSeq(Nothing) /\ Len(Nothing) = 0
  BY DEF IsSeq, Nothing
<1> QED
  BY <1>1 DEF Init, ReplicaInv, ReplicasAgree

\* A leader appends to its own log.
LEMMA ProposePreserves ==
    ASSUME ReplicaInv, NEW c \in Client, Propose(c)
    PROVE  ReplicaInv'
<1> DEFINE s == clerk[c].leader
<1>1. rlog' = [rlog EXCEPT ![s] = Append(@, OpOf(c))] /\ UNCHANGED <<log, machine, kv, applied, snapshot>>
  BY Zenon DEF Propose
<1>2. \A t \in Server : IsSeq(rlog'[t])
  BY Zenon, <1>1, AppendIsSeq DEF ReplicaInv
<1> QED
  BY Zenon, <1>1, <1>2 DEF ReplicaInv, ReplicasAgree

LEMMA ReplicatePreserves ==
    ASSUME ReplicaInv, NEW s \in Server, NEW t \in Server, Replicate(s, t)
    PROVE  ReplicaInv'
  BY Zenon DEF ReplicaInv, ReplicasAgree, Replicate, serverVars

\* The committed log is extended, never rewritten.
LEMMA CommitPreserves ==
    ASSUME ReplicaInv, NEW s \in Server, Commit(s)
    PROVE  ReplicaInv'
<1> DEFINE n == Len(log)
<1>1. n \in Nat /\ Len(rlog[s]) \in Nat /\ n + 1 \in 0 .. Len(rlog[s]) /\ n \in 0 .. Len(rlog[s])
  BY DEF Commit, ReplicaInv, IsSeq
<1>2. IsSeq(log') /\ Len(log') = n + 1 /\ \A i \in 1 .. n + 1 : log'[i] = rlog[s][i]
  BY Zenon, <1>1, PrefixIsSeq DEF Commit, ReplicaInv
<1>3. \A i \in 1 .. n : log[i] = rlog[s][i]
  BY Zenon DEF Commit, Extends
<1>4. /\ DOMAIN machine' = 0 .. n + 1
      /\ \A i \in 0 .. n : machine'[i] = machine[i]
      /\ machine'[n + 1] = applyOpL(machine[n], rlog[s][n + 1])
  BY <1>1 DEF Commit, ReplicaInv, Put
<1>5. \A i \in 1 .. n + 1 : machine'[i] = applyOpL(machine'[i - 1], log'[i])
  <2> SUFFICES ASSUME NEW i \in 1 .. n + 1
               PROVE  machine'[i] = applyOpL(machine'[i - 1], log'[i])
    BY Zenon
  <2>1. CASE i = n + 1
    BY <1>1, <1>2, <1>4, <2>1
  <2>2. CASE i \in 1 .. n
    <3>1. i - 1 \in 0 .. n /\ i \in 0 .. n
      BY <1>1, <2>2
    <3>2. machine[i] = applyOpL(machine[i - 1], log[i])
      BY Zenon, <2>2 DEF ReplicaInv
    <3> QED
      BY Zenon, <1>2, <1>3, <1>4, <2>2, <3>1, <3>2
  <2> QED
    BY <1>1, <2>1, <2>2
<1>6. UNCHANGED <<rlog, kv, applied, snapshot>>
  BY Zenon DEF Commit, serverVars
<1>7. \A t \in Server : /\ applied'[t] \in 0 .. n /\ snapshot'[t].index \in 0 .. n
                        /\ kv'[t] = machine[applied'[t]]
                        /\ snapshot'[t].state = machine[snapshot'[t].index]
  BY Zenon, <1>6 DEF ReplicaInv, ReplicasAgree
<1>8. ReplicasAgree'
  BY Zenon, <1>4, <1>7 DEF ReplicasAgree
<1> QED
  BY <1>1, <1>2, <1>4, <1>5, <1>6, <1>7, <1>8 DEF ReplicaInv

\* The end of receiveApplyMsg saves what the server holds.
LEMMA TakeSnapshotPreserves ==
    ASSUME ReplicaInv, NEW s \in Server, TakeSnapshot(s),
           DOMAIN kv' = Server, DOMAIN applied' = Server,
           \A t \in Server : applied'[t] \in 0 .. Len(log) /\ kv'[t] = machine[applied'[t]],
           UNCHANGED raftVars
    PROVE  ReplicaInv'
<1>1. DOMAIN snapshot' = Server /\ \A t \in Server : snapshot'[t] \in {snapshot[t], snapshotL(t)}
  BY Zenon DEF TakeSnapshot, ReplicaInv
<1>2. \A t \in Server : /\ snapshot'[t].index \in 0 .. Len(log)
                        /\ snapshot'[t].state = machine[snapshot'[t].index]
  BY <1>1 DEF snapshotL, ReplicaInv, ReplicasAgree
<1> QED
  BY Zenon, <1>1, <1>2 DEF ReplicaInv, ReplicasAgree, raftVars

LEMMA ReceivePreserves ==
    ASSUME ReplicaInv, NEW s \in Server, receiveApplyMsg(s)
    PROVE  ReplicaInv'
<1> DEFINE index == applied[s] + 1
<1>1. index \in 1 .. Len(log) /\ Len(log) \in Nat
  BY DEF receiveApplyMsg, ReplicaInv, IsSeq
<1>2. /\ applied' = [applied EXCEPT ![s] = index]
      /\ kv' = [kv EXCEPT ![s] = applyOpL(@, log[index])]
      /\ UNCHANGED raftVars
  BY Zenon DEF receiveApplyMsg
<1>3. kv'[s] = machine[index]
  BY <1>1, <1>2 DEF ReplicaInv, ReplicasAgree
<1>4. /\ DOMAIN kv' = Server /\ DOMAIN applied' = Server
      /\ \A t \in Server : applied'[t] \in 0 .. Len(log) /\ kv'[t] = machine[applied'[t]]
  BY <1>1, <1>2, <1>3 DEF ReplicaInv, ReplicasAgree
<1>5. CASE UNCHANGED snapshot
  BY Zenon, <1>2, <1>4, <1>5 DEF ReplicaInv, ReplicasAgree, raftVars
<1>6. CASE TakeSnapshot(s)
  BY Zenon, <1>2, <1>4, <1>6, TakeSnapshotPreserves
<1> QED
  BY Zenon, <1>5, <1>6 DEF receiveApplyMsg

LEMMA SendPreserves ==
    ASSUME ReplicaInv, NEW s \in Server, NEW c \in Client, sendResult(s, c)
    PROVE  ReplicaInv'
<1>1. UNCHANGED <<kv, applied>> /\ UNCHANGED raftVars /\ TakeSnapshot(s)
  BY Zenon DEF sendResult
<1> QED
  BY Zenon, <1>1, TakeSnapshotPreserves DEF ReplicaInv, ReplicasAgree

\* An installed snapshot is the state after a prefix of the committed log.
LEMMA InstallPreserves ==
    ASSUME ReplicaInv, NEW s \in Server, readSnapshotL(s)
    PROVE  ReplicaInv'
<1>1. PICK t \in Server :
          /\ kv' = [kv EXCEPT ![s] = snapshot[t].state]
          /\ applied' = [applied EXCEPT ![s] = snapshot[t].index]
          /\ snapshot' = [snapshot EXCEPT ![s] = snapshot[t]]
          /\ \E l \in {rlog[s], SubSeq(log, 1, snapshot[t].index)} : rlog' = [rlog EXCEPT ![s] = l]
  BY Zenon DEF readSnapshotL
<1>2. UNCHANGED <<log, machine>>
  BY Zenon DEF readSnapshotL
<1>3. IsSeq(SubSeq(log, 1, snapshot[t].index))
  BY Zenon, PrefixIsSeq DEF ReplicaInv
<1>4. DOMAIN rlog' = Server /\ \A u \in Server : IsSeq(rlog'[u])
  BY Zenon, <1>1, <1>3 DEF ReplicaInv
<1> QED
  BY Zenon, <1>1, <1>2, <1>4 DEF ReplicaInv, ReplicasAgree

\* A restarted server is back at its snapshot.
LEMMA CrashPreserves ==
    ASSUME ReplicaInv, NEW s \in Server, Crash(s)
    PROVE  ReplicaInv'
<1>1. /\ kv' = [kv EXCEPT ![s] = snapshot[s].state]
      /\ applied' = [applied EXCEPT ![s] = snapshot[s].index]
      /\ UNCHANGED <<rlog, log, machine, snapshot>>
  BY Zenon DEF Crash, raftVars
<1> QED
  BY Zenon, <1>1 DEF ReplicaInv, ReplicasAgree

LEMMA NextReplicaInv == ReplicaInv /\ [Next]_vars => ReplicaInv'
<1> SUFFICES ASSUME ReplicaInv, [Next]_vars PROVE ReplicaInv'
  BY Zenon
<1>1. CASE UNCHANGED <<raftVars, kv, applied, snapshot>>
  BY Zenon, <1>1 DEF ReplicaInv, ReplicasAgree, raftVars
<1>2. CASE UNCHANGED vars
  BY Zenon, <1>1, <1>2 DEF vars, raftVars, serverVars
<1>3. ASSUME NEW c \in Client, AnswerAgain(c) \/ WrongLeader(c) \/ leave(c) \/ timeout(c) \/ LoseRequest(c)
      PROVE  ReplicaInv'
  BY Zenon, <1>1, <1>3 DEF AnswerAgain, WrongLeader, leave, timeout, LoseRequest, raftVars, serverVars
<1> QED
  BY Zenon, <1>2, <1>3, ProposePreserves, ReplicatePreserves, CommitPreserves, ReceivePreserves,
     SendPreserves, InstallPreserves, CrashPreserves DEF Next

-----------------------------------------------------------------------------
\* Servers of kvraft that have applied the same commands are in the same state,
\* whether they executed them, installed a snapshot (readSnapshotL) or came
\* back from their own (StartKVServer).
THEOREM ReplicasAlwaysAgree == Spec => []ReplicasAgree
<1>1. ReplicaInv => ReplicasAgree
  BY Zenon DEF ReplicaInv
<1> QED
  BY InitReplicaInv, NextReplicaInv, <1>1, PTL DEF Spec

-----------------------------------------------------------------------------
(* The map of result channels. *)

ChannelInv ==
    /\ DOMAIN clerk = Client
    /\ DOMAIN resultChans = Server
    /\ ChannelsAreReclaimed

\* The handler of c is at index n of server s.
Holds(c, s, n) == /\ clerk[c].leader = s
                  /\ clerk[c].pc \in {"wait", "woken"}
                  /\ clerk[c].index = n

\* A step that adds no entry, in which a handler keeps its index as long as the
\* map has it.
LEMMA KeptChannels ==
    ASSUME ChannelInv, DOMAIN clerk' = Client, DOMAIN resultChans' = Server,
           \A s \in Server : DOMAIN resultChans'[s] \subseteq DOMAIN resultChans[s],
           \A c \in Client, s \in Server : \A n \in DOMAIN resultChans'[s] :
              Holds(c, s, n) => Holds(c, s, n)'
    PROVE  ChannelInv'
<1>1. ASSUME NEW s \in Server, NEW n \in DOMAIN resultChans'[s]
      PROVE  \E c \in Client : Holds(c, s, n)'
  <2>1. PICK c \in Client : Holds(c, s, n)
    BY <1>1 DEF ChannelInv, ChannelsAreReclaimed, Holds
  <2> QED
    BY Zenon, <2>1
<1> QED
  BY Zenon, <1>1 DEF ChannelInv, ChannelsAreReclaimed, Holds

\* waitApplyL enters the index of the handler that waits for it.
LEMMA ProposeKeepsChannels ==
    ASSUME ChannelInv, NEW c \in Client, Propose(c)
    PROVE  ChannelInv'
<1>0. PICK s, index : s = clerk[c].leader /\ index = Len(rlog[s]) + 1
  BY Zenon
<1>a. waitApplyL(c, s, index) /\ clerk[c].pc = "send"
  BY Zenon, <1>0 DEF Propose
<1>1. PICK ch : /\ resultChans' = [resultChans EXCEPT ![s] = Put(@, index, ch)]
                /\ clerk' = [clerk EXCEPT ![c] =
                      [Sending(s) EXCEPT !.pc = "wait", !.index = index, !.ch = ch]]
  BY <1>a, Zenon DEF waitApplyL
<1>2. /\ clerk'[c].pc = "wait" /\ clerk'[c].leader = s /\ clerk'[c].index = index
      /\ \A d \in Client : d # c => clerk'[d] = clerk[d]
  BY Zenon, <1>1 DEF Sending, ChannelInv
<1>3. DOMAIN clerk' = Client /\ DOMAIN resultChans' = Server
  BY Zenon, <1>1 DEF ChannelInv
<1>4. Holds(c, s, index)'
  BY Zenon, <1>2 DEF Holds
<1>5. \A d \in Client : \A t, n : Holds(d, t, n) => Holds(d, t, n)'
  BY Zenon, <1>a, <1>2 DEF Holds
<1>6. ASSUME NEW t \in Server, NEW n \in DOMAIN resultChans'[t]
      PROVE  \E d \in Client : Holds(d, t, n)'
  <2>1. CASE t = s /\ n = index
    BY Zenon, <1>4, <2>1
  <2>2. CASE n \in DOMAIN resultChans[t]
    <3>1. PICK d \in Client : Holds(d, t, n)
      BY Zenon, <2>2 DEF ChannelInv, ChannelsAreReclaimed, Holds
    <3> QED
      BY Zenon, <1>5, <3>1
  <2> QED
    BY Zenon, <1>1, <1>6, <2>1, <2>2 DEF Put, ChannelInv
<1> QED
  BY Zenon, <1>3, <1>6 DEF ChannelInv, ChannelsAreReclaimed, Holds

\* The handler takes its index out of the map before it returns.
LEMMA LeaveKeepsChannels ==
    ASSUME ChannelInv, NEW c \in Client, leave(c)
    PROVE  ChannelInv'
<1> DEFINE s == clerk[c].leader
           index == clerk[c].index
<1>1. resultChans' = [resultChans EXCEPT ![s] = Delete(@, index)]
  BY Zenon DEF leave, delete
<1>2. \E x : clerk' = [clerk EXCEPT ![c] = x]
  BY Zenon DEF leave, Reply, Retry
<1>3. DOMAIN clerk' = Client /\ DOMAIN resultChans' = Server
  BY Zenon, <1>1, <1>2 DEF ChannelInv
<1>4. \A t \in Server : /\ DOMAIN resultChans'[t] \subseteq DOMAIN resultChans[t]
                        /\ t = s => index \notin DOMAIN resultChans'[t]
  BY Zenon, <1>1 DEF ChannelInv, Delete
<1>5. \A d \in Client : d # c => clerk'[d] = clerk[d]
  BY Zenon, <1>2 DEF ChannelInv
<1>6. \A d \in Client, t \in Server : \A n \in DOMAIN resultChans'[t] :
          Holds(d, t, n) => Holds(d, t, n)'
  BY Zenon, <1>4, <1>5 DEF Holds
<1> QED
  BY Zenon, <1>3, <1>4, <1>6, KeptChannels

\* The map of a restarted server is empty, and only its handlers are gone.
LEMMA CrashKeepsChannels ==
    ASSUME ChannelInv, NEW s \in Server, Crash(s)
    PROVE  ChannelInv'
<1>1. /\ resultChans' = [resultChans EXCEPT ![s] = Nothing]
      /\ DOMAIN clerk' = Client
      /\ \A c \in Client : clerk[c].leader # s => clerk'[c] = clerk[c]
  BY Zenon DEF Crash
<1>2. DOMAIN Nothing = {}
  BY DEF Nothing
<1>3. /\ DOMAIN resultChans' = Server
      /\ \A t \in Server : /\ DOMAIN resultChans'[t] \subseteq DOMAIN resultChans[t]
                           /\ t = s => DOMAIN resultChans'[t] = {}
  BY Zenon, <1>1, <1>2 DEF ChannelInv
<1>4. \A d \in Client, t \in Server : \A n \in DOMAIN resultChans'[t] :
          Holds(d, t, n) => Holds(d, t, n)'
  BY <1>1, <1>3 DEF Holds
<1> QED
  BY Zenon, <1>1, <1>3, <1>4, KeptChannels

\* A handler that is woken keeps its index until it leaves.
LEMMA WakeKeepsChannels ==
    ASSUME ChannelInv, NEW c \in Client, timeout(c) \/ \E s \in Server : sendResult(s, c)
    PROVE  ChannelInv'
<1>1. /\ \E r : clerk' = [clerk EXCEPT ![c].pc = "woken", ![c].result = r]
      /\ UNCHANGED resultChans
  BY Zenon DEF timeout, sendResult, serverVars
<1>2. PICK r : clerk' = [clerk EXCEPT ![c].pc = "woken", ![c].result = r]
  BY Zenon, <1>1
<1>3. \A d \in Client : \A t, n : Holds(d, t, n) => Holds(d, t, n)'
  BY <1>2 DEF Holds, ChannelInv
<1> QED
  BY Zenon, <1>1, <1>2, <1>3, KeptChannels DEF ChannelInv

\* A call that is answered, refused or lost before it waits.
LEMMA SendingKeepsChannels ==
    ASSUME ChannelInv, NEW c \in Client, AnswerAgain(c) \/ WrongLeader(c) \/ LoseRequest(c)
    PROVE  ChannelInv'
<1>1. /\ \E x : clerk' = [clerk EXCEPT ![c] = x]
      /\ clerk[c].pc = "send"
      /\ UNCHANGED resultChans
  BY Zenon DEF AnswerAgain, WrongLeader, LoseRequest, Reply, Retry, serverVars
<1>2. \A d \in Client : \A t, n : Holds(d, t, n) => Holds(d, t, n)'
  BY Zenon, <1>1 DEF Holds, ChannelInv
<1> QED
  BY Zenon, <1>1, <1>2, KeptChannels DEF ChannelInv

LEMMA NextChannelInv == ChannelInv /\ [Next]_vars => ChannelInv'
<1> SUFFICES ASSUME ChannelInv, [Next]_vars PROVE ChannelInv'
  BY Zenon
<1>1. CASE UNCHANGED <<clerk, resultChans>>
  BY <1>1 DEF ChannelInv, ChannelsAreReclaimed
<1>2. CASE UNCHANGED vars
  BY Zenon, <1>1, <1>2 DEF vars, serverVars, clerkVars
<1>3. ASSUME NEW s \in Server, receiveApplyMsg(s) \/ readSnapshotL(s) \/ Commit(s)
      PROVE  ChannelInv'
  BY Zenon, <1>1, <1>3 DEF receiveApplyMsg, readSnapshotL, Commit, serverVars, clerkVars
<1>4. ASSUME NEW s \in Server, NEW t \in Server, Replicate(s, t)
      PROVE  ChannelInv'
  BY Zenon, <1>1, <1>4 DEF Replicate, serverVars, clerkVars
<1> QED
  BY Zenon, <1>2, <1>3, <1>4, ProposeKeepsChannels, LeaveKeepsChannels, CrashKeepsChannels,
     WakeKeepsChannels, SendingKeepsChannels DEF Next

\* Every entry of resultChans belongs to a handler that is in waitApplyL at its
\* index, however calls, timeouts, restarts and changes of leader interleave.
THEOREM ChannelsNeverLeak == Spec => []ChannelsAreReclaimed
<1>1. Init => ChannelInv
  BY DEF Init, ChannelInv, ChannelsAreReclaimed, Nothing
<1>2. ChannelInv => ChannelsAreReclaimed
  BY Zenon DEF ChannelInv
<1> QED
  BY <1>1, <1>2, NextChannelInv, PTL DEF Spec

-----------------------------------------------------------------------------
(* Types. *)

\* A majority keeps the committed log: nobody who has it loses it.
LEMMA LogIsKept ==
    ASSUME TypeOK, UNCHANGED log, \A t \in Server : Extends(rlog[t], log) => Extends(rlog'[t], log)
    PROVE  2 * Cardinality(Holding(log)') > NumServers
<1>1. Holding(log) \in SUBSET Holding(log)' /\ Holding(log)' \in SUBSET Server
  BY Zenon DEF Holding
<1>2. IsFiniteSet(Server)
  BY ServersAssumption, FS_Interval DEF Server
<1>3. IsFiniteSet(Holding(log)') /\ IsFiniteSet(Holding(log))
  BY Zenon, <1>1, <1>2, FS_Subset
<1>4. Cardinality(Holding(log)) <= Cardinality(Holding(log)')
  BY Zenon, <1>1, <1>3, FS_Subset
<1>5. Cardinality(Holding(log)) \in Nat /\ Cardinality(Holding(log)') \in Nat
  BY Zenon, <1>3, FS_CardinalityType
<1> QED
  BY <1>4, <1>5, ServersAssumption DEF TypeOK

LEMMA NextKeepsLog ==
    ASSUME ReplicaInv, TypeOK, [Next]_vars
    PROVE  2 * Cardinality(Holding(log)') > NumServers
<1>1. CASE UNCHANGED <<rlog, log>>
  BY Zenon, <1>1, LogIsKept
<1>2. ASSUME NEW s \in Server, Commit(s) PROVE 2 * Cardinality(Holding(log)') > NumServers
  <2>1. 2 * Cardinality(Holding(log')) > NumServers /\ UNCHANGED rlog
    BY Zenon, <1>2 DEF Commit
  <2>2. Holding(log)' = Holding(log')
    BY Zenon, <2>1 DEF Holding, Extends
  <2> QED
    BY Zenon, <2>1, <2>2
<1>3. ASSUME NEW s \in Server, NEW t \in Server, Replicate(s, t)
      PROVE  2 * Cardinality(Holding(log)') > NumServers
  <2>1. Extends(rlog[t], log) /\ rlog' = [rlog EXCEPT ![s] = rlog[t]] /\ UNCHANGED log
    BY Zenon, <1>3 DEF Replicate
  <2> QED
    BY Zenon, <2>1, LogIsKept DEF ReplicaInv
<1>4. ASSUME NEW c \in Client, Propose(c) PROVE 2 * Cardinality(Holding(log)') > NumServers
  <2>1. /\ rlog' = [rlog EXCEPT ![clerk[c].leader] = Append(@, OpOf(c))]
        /\ UNCHANGED log
    BY Zenon, <1>4 DEF Propose
  <2>2. ASSUME NEW t \in Server, Extends(rlog[t], log) PROVE Extends(rlog'[t], log)
    <3>1. IsSeq(rlog[t]) /\ rlog'[t] \in {rlog[t], Append(rlog[t], OpOf(c))}
      BY Zenon, <2>1 DEF ReplicaInv
    <3>2. CASE rlog'[t] = Append(rlog[t], OpOf(c))
      <4>1. /\ Len(rlog'[t]) = Len(rlog[t]) + 1 /\ Len(rlog[t]) \in Nat
            /\ \A n \in 1 .. Len(rlog[t]) : rlog'[t][n] = rlog[t][n]
        BY <3>1, <3>2 DEF IsSeq
      <4>2. Len(log) \in Nat
        BY DEF ReplicaInv, IsSeq
      <4> QED
        BY <2>2, <4>1, <4>2 DEF Extends
    <3> QED
      BY Zenon, <2>2, <3>1, <3>2
  <2> QED
    BY Zenon, <2>1, <2>2, LogIsKept
<1>5. ASSUME NEW s \in Server, readSnapshotL(s) PROVE 2 * Cardinality(Holding(log)') > NumServers
  <2>1. PICK t \in Server :
          LET covered == SubSeq(log, 1, snapshot[t].index)
          IN  rlog' = [rlog EXCEPT ![s] = IF s \in Holding(covered) THEN @ ELSE covered]
    BY Zenon, <1>5 DEF readSnapshotL
  <2>2. UNCHANGED log
    BY Zenon, <1>5 DEF readSnapshotL
  <2>3. PICK l : l = SubSeq(log, 1, snapshot[t].index)
    BY Zenon
  <2>4. rlog' = [rlog EXCEPT ![s] = IF Extends(rlog[s], l) THEN @ ELSE l]
    BY Zenon, <2>1, <2>3 DEF Holding
  <2>5. snapshot[t].index \in 0 .. Len(log) /\ IsSeq(log)
    BY Zenon DEF ReplicaInv
  <2>6. Len(l) = snapshot[t].index /\ \A n \in 1 .. Len(l) : l[n] = log[n]
    BY Zenon, <2>3, <2>5, PrefixIsSeq
  <2>7. Len(log) \in Nat /\ Len(rlog[s]) \in Nat
    BY DEF ReplicaInv, IsSeq
  <2>8. Extends(rlog[s], log) => Extends(rlog[s], l)
    BY <2>5, <2>6, <2>7 DEF Extends
  <2> QED
    BY Zenon, <2>2, <2>4, <2>8, LogIsKept DEF ReplicaInv
<1>6. CASE UNCHANGED vars
  BY Zenon, <1>1, <1>6 DEF vars, raftVars
<1>7. ASSUME NEW c \in Client, AnswerAgain(c) \/ WrongLeader(c) \/ leave(c) \/ timeout(c) \/ LoseRequest(c)
      PROVE  UNCHANGED <<rlog, log>>
  BY Zenon, <1>7 DEF AnswerAgain, WrongLeader, leave, timeout, LoseRequest, raftVars
<1>8. ASSUME NEW s \in Server, NEW c \in Client, receiveApplyMsg(s) \/ Crash(s) \/ sendResult(s, c)
      PROVE  UNCHANGED <<rlog, log>>
  BY Zenon, <1>8 DEF receiveApplyMsg, Crash, sendResult, raftVars
<1>9. ASSUME NEW s \in Server, receiveApplyMsg(s) \/ Crash(s)
      PROVE  UNCHANGED <<rlog, log>>
  BY Zenon, <1>9 DEF receiveApplyMsg, Crash, raftVars
<1> QED
  BY Zenon, <1>1, <1>2, <1>3, <1>4, <1>5, <1>6, <1>7, <1>8, <1>9 DEF Next

\* No snapshot is ahead of the server that holds it.
SnapshotsAreBehind == \A s \in Server : snapshot[s].index <= applied[s]

LEMMA NextSnapshots ==
    ASSUME ReplicaInv, SnapshotsAreBehind, [Next]_vars
    PROVE  SnapshotsAreBehind'
<1>0. \A s \in Server : applied[s] \in Int /\ snapshot[s].index \in Int
  BY DEF ReplicaInv
<1>1. CASE UNCHANGED <<applied, snapshot>>
  BY Zenon, <1>1 DEF SnapshotsAreBehind
<1>2. ASSUME NEW s \in Server, TakeSnapshot(s),
             applied' = [applied EXCEPT ![s] = @ + 1] \/ UNCHANGED applied
      PROVE  SnapshotsAreBehind'
  <2>1. \A t \in Server : applied'[t] \in Int /\ applied[t] <= applied'[t]
    BY <1>0, <1>2 DEF ReplicaInv
  <2>2. \A t \in Server : snapshot'[t] \in {snapshot[t], snapshotL(t)}
    BY Zenon, <1>2 DEF TakeSnapshot, ReplicaInv
  <2> QED
    BY <1>0, <2>1, <2>2 DEF SnapshotsAreBehind, snapshotL
<1>3. ASSUME NEW s \in Server, receiveApplyMsg(s) PROVE SnapshotsAreBehind'
  <2>1. applied' = [applied EXCEPT ![s] = @ + 1]
    BY Zenon, <1>3 DEF receiveApplyMsg, ReplicaInv
  <2>2. TakeSnapshot(s) \/ UNCHANGED snapshot
    BY Zenon, <1>3 DEF receiveApplyMsg
  <2>3. CASE UNCHANGED snapshot
    BY <1>0, <2>1, <2>3 DEF SnapshotsAreBehind, ReplicaInv
  <2> QED
    BY Zenon, <1>2, <2>1, <2>2, <2>3
<1>4. ASSUME NEW s \in Server, NEW c \in Client, sendResult(s, c) PROVE SnapshotsAreBehind'
  BY Zenon, <1>2, <1>4 DEF sendResult
<1>5. ASSUME NEW s \in Server, readSnapshotL(s) PROVE SnapshotsAreBehind'
  <2>1. PICK t \in Server : /\ applied' = [applied EXCEPT ![s] = snapshot[t].index]
                            /\ snapshot' = [snapshot EXCEPT ![s] = snapshot[t]]
    BY Zenon, <1>5 DEF readSnapshotL
  <2> QED
    BY <1>0, <2>1 DEF SnapshotsAreBehind, ReplicaInv
<1>6. ASSUME NEW s \in Server, Crash(s) PROVE SnapshotsAreBehind'
  BY <1>0, <1>6 DEF Crash, SnapshotsAreBehind, ReplicaInv
<1>7. ASSUME NEW s \in Server, NEW t \in Server, Commit(s) \/ Replicate(s, t)
      PROVE  UNCHANGED <<applied, snapshot>>
  BY Zenon, <1>7 DEF Commit, Replicate, serverVars
<1>8. ASSUME NEW c \in Client,
             AnswerAgain(c) \/ WrongLeader(c) \/ Propose(c) \/ leave(c) \/ timeout(c) \/ LoseRequest(c)
      PROVE  UNCHANGED <<applied, snapshot>>
  BY Zenon, <1>8 DEF AnswerAgain, WrongLeader, Propose, leave, timeout, LoseRequest, serverVars
<1>9. CASE UNCHANGED vars
  BY Zenon, <1>1, <1>9 DEF vars, serverVars
<1> QED
  BY Zenon, <1>1, <1>3, <1>4, <1>5, <1>6, <1>7, <1>8, <1>9 DEF Next

\* The channels a server has, where its applier is, and the calls of the clerks.
CallsOK ==
    /\ DOMAIN applier = Server /\ DOMAIN resultChans = Server
    /\ DOMAIN clerk = Client /\ DOMAIN answers = Client
    /\ \A s \in Server : /\ applier[s].pc \in {"recv", "send"}
                         /\ DOMAIN resultChans[s] \subseteq 1 .. MaxLog
    /\ \A c \in Client : /\ clerk[c].leader \in Server
                         /\ clerk[c].pc \in {"send", "wait", "woken"}
                         /\ IsSeq(answers[c])
                         /\ Len(answers[c]) <= Len(Script[c])
                         /\ clerk[c].pc # "send" => Len(answers[c]) < Len(Script[c])

LEMMA ChangedLeader ==
    ASSUME NEW c \in Client, clerk[c].leader \in Server
    PROVE  changeLeaderL(c) \in Server
BY ServersAssumption DEF changeLeaderL, Server

\* A call returns or is tried again.
LEMMA ReplyKeepsCalls ==
    ASSUME CallsOK, NEW c \in Client, Len(answers[c]) < Len(Script[c]), NEW err, NEW value,
           Reply(c, err, value) \/ Retry(c), UNCHANGED applier,
           DOMAIN resultChans' = Server,
           \A s \in Server : DOMAIN resultChans'[s] \subseteq DOMAIN resultChans[s]
    PROVE  CallsOK'
<1>1. PICK l \in Server : clerk' = [clerk EXCEPT ![c] = Sending(l)]
  <2>1. clerk[c].leader \in Server /\ changeLeaderL(c) \in Server
    BY Zenon, ChangedLeader DEF CallsOK
  <2>2. \/ clerk' = [clerk EXCEPT ![c] = Sending(changeLeaderL(c))]
        \/ clerk' = [clerk EXCEPT ![c] = Sending(@.leader)]
    BY Zenon DEF Reply, Retry
  <2>3. c \in DOMAIN clerk
    BY Zenon DEF CallsOK
  <2> QED
    BY Zenon, <2>1, <2>2, <2>3
<1>2. PICK x : answers' \in {answers, [answers EXCEPT ![c] = Append(@, x)]}
  BY Zenon DEF Reply, Retry
<1>3. /\ IsSeq(answers[c]) /\ IsSeq(Append(answers[c], x))
      /\ Len(answers[c]) \in Nat /\ Len(Append(answers[c], x)) = Len(answers[c]) + 1
  <2>1. IsSeq(answers[c])
    BY Zenon DEF CallsOK
  <2> QED
    BY <2>1, AppendIsSeq DEF IsSeq
<1>4. /\ DOMAIN answers' = Client
      /\ \A d \in Client : d # c => answers'[d] = answers[d]
      /\ IsSeq(answers'[c]) /\ Len(answers'[c]) <= Len(Script[c])
  <2>1. /\ DOMAIN answers' = Client
        /\ \A d \in Client : d # c => answers'[d] = answers[d]
        /\ answers'[c] = answers[c] \/ answers'[c] = Append(answers[c], x)
    BY Zenon, <1>2 DEF CallsOK
  <2>2. Len(Script[c]) \in Nat
    BY Zenon, ScriptAssumption
  <2>3. CASE answers'[c] = answers[c]
    BY <1>3, <2>1, <2>2, <2>3
  <2>4. CASE answers'[c] = Append(answers[c], x)
    BY <1>3, <2>1, <2>2, <2>4
  <2> QED
    BY Zenon, <2>1, <2>3, <2>4
<1>5. /\ DOMAIN clerk' = Client
      /\ \A d \in Client : d # c => clerk'[d] = clerk[d]
      /\ clerk'[c].leader \in Server /\ clerk'[c].pc = "send"
  BY Zenon, <1>1 DEF CallsOK, Sending
<1> QED
  BY Zenon, <1>4, <1>5 DEF CallsOK

LEMMA NextCalls ==
    ASSUME CallsOK, ReplicaInv, [Next]_vars
    PROVE  CallsOK'
<1>1. CASE UNCHANGED <<applier, resultChans, clerk, answers>>
  BY Zenon, <1>1 DEF CallsOK
<1>2. ASSUME NEW c \in Client, AnswerAgain(c) \/ WrongLeader(c) \/ LoseRequest(c)
      PROVE  CallsOK'
  <2>1. /\ \E err, value : Reply(c, err, value) \/ Retry(c)
        /\ Len(answers[c]) < Len(Script[c])
    BY <1>2, Zenon DEF AnswerAgain, WrongLeader, LoseRequest
  <2>2. UNCHANGED <<applier, resultChans>>
    BY <1>2, Zenon DEF AnswerAgain, WrongLeader, LoseRequest, serverVars
  <2>3. DOMAIN resultChans' = Server
    BY Zenon, <2>2 DEF CallsOK
  <2> QED
    BY Zenon, <2>1, <2>2, <2>3, ReplyKeepsCalls
<1>3. ASSUME NEW c \in Client, leave(c) PROVE CallsOK'
  <2>1. \E err, value : Reply(c, err, value)
    BY <1>3, Zenon DEF leave
  <2>2. /\ Len(answers[c]) < Len(Script[c])
        /\ resultChans' = [resultChans EXCEPT ![clerk[c].leader] = Delete(@, clerk[c].index)]
        /\ UNCHANGED applier
    BY Zenon, <1>3 DEF leave, delete, CallsOK
  <2>3. /\ DOMAIN resultChans' = Server
        /\ \A s \in Server : DOMAIN resultChans'[s] \subseteq DOMAIN resultChans[s]
    BY Zenon, <2>2 DEF CallsOK, Delete
  <2> QED
    BY Zenon, <2>1, <2>2, <2>3, ReplyKeepsCalls
<1>4. ASSUME NEW c \in Client, Propose(c) PROVE CallsOK'
  <2>0. PICK s, index : s = clerk[c].leader /\ index = Len(rlog[s]) + 1
    BY Zenon
  <2>1. /\ Len(rlog[s]) < MaxLog /\ Len(answers[c]) < Len(Script[c])
        /\ waitApplyL(c, s, index) /\ UNCHANGED <<applier, answers>>
    BY Zenon, <1>4, <2>0 DEF Propose
  <2>2. PICK ch : /\ resultChans' = [resultChans EXCEPT ![s] = Put(@, index, ch)]
                  /\ clerk' = [clerk EXCEPT ![c] =
                        [Sending(s) EXCEPT !.pc = "wait", !.index = index, !.ch = ch]]
    BY <2>1, Zenon DEF waitApplyL
  <2>3. s \in Server /\ index \in 1 .. MaxLog
    <3>1. s \in Server
      BY Zenon, <2>0 DEF CallsOK
    <3>2. Len(rlog[s]) \in Nat
      BY <3>1 DEF ReplicaInv, IsSeq
    <3> QED
      BY <2>0, <2>1, <3>1, <3>2, MaxLogAssumption
  <2>4. /\ DOMAIN clerk' = Client
        /\ \A d \in Client : d # c => clerk'[d] = clerk[d]
        /\ clerk'[c].leader = s /\ clerk'[c].pc = "wait"
    BY Zenon, <2>2 DEF CallsOK, Sending
  <2>5. /\ DOMAIN resultChans' = Server
        /\ \A t \in Server : DOMAIN resultChans'[t] \subseteq DOMAIN resultChans[t] \cup {index}
    BY Zenon, <2>2 DEF CallsOK, Put
  <2> QED
    BY Zenon, <2>1, <2>3, <2>4, <2>5 DEF CallsOK
<1>5. ASSUME NEW c \in Client, NEW r, clerk[c].pc # "send",
             clerk' = [clerk EXCEPT ![c].pc = "woken", ![c].result = r],
             DOMAIN applier' = Server, \A s \in Server : applier'[s].pc \in {"recv", "send"},
             UNCHANGED <<resultChans, answers>>
      PROVE  CallsOK'
  <2>1. /\ DOMAIN clerk' = Client
        /\ \A d \in Client : d # c => clerk'[d] = clerk[d]
        /\ clerk'[c].leader = clerk[c].leader /\ clerk'[c].pc = "woken"
    BY <1>5 DEF CallsOK
  <2> QED
    BY Zenon, <1>5, <2>1 DEF CallsOK
<1>6. ASSUME NEW c \in Client, timeout(c) PROVE CallsOK'
  <2>1. /\ clerk[c].pc = "wait" /\ UNCHANGED <<applier, resultChans, answers>>
        /\ \E r : clerk' = [clerk EXCEPT ![c].pc = "woken", ![c].result = r]
    BY <1>6, Zenon DEF timeout, serverVars
  <2>2. DOMAIN applier' = Server /\ \A s \in Server : applier'[s].pc \in {"recv", "send"}
    BY Zenon, <2>1 DEF CallsOK
  <2>3. clerk[c].pc # "send"
    BY Zenon, <2>1
  <2> QED
    BY <1>5, <2>1, <2>2, <2>3, Zenon
<1>7. ASSUME NEW s \in Server, NEW c \in Client, sendResult(s, c) PROVE CallsOK'
  <2>1. /\ clerk[c].pc = "wait" /\ UNCHANGED <<resultChans, answers>>
        /\ clerk' = [clerk EXCEPT ![c].pc = "woken", ![c].result = applier[s].result]
        /\ applier' = [applier EXCEPT ![s] = Receiving]
    BY <1>7, Zenon DEF sendResult
  <2>2. DOMAIN applier' = Server /\ \A t \in Server : applier'[t].pc \in {"recv", "send"}
    BY Zenon, <2>1 DEF CallsOK, Receiving
  <2> QED
    BY Zenon, <1>5, <2>1, <2>2
<1>8. ASSUME NEW s \in Server, receiveApplyMsg(s) PROVE CallsOK'
  <2>1. UNCHANGED <<resultChans, clerk, answers>>
    BY <1>8, Zenon DEF receiveApplyMsg, clerkVars
  <2>2. UNCHANGED applier \/ \E ch, r : applier' = [applier EXCEPT ![s] = [pc |-> "send", ch |-> ch, result |-> r]]
    BY <1>8, Zenon DEF receiveApplyMsg
  <2>3. DOMAIN applier' = Server /\ \A t \in Server : applier'[t].pc \in {"recv", "send"}
    BY <2>2 DEF CallsOK
  <2> QED
    BY Zenon, <2>1, <2>3 DEF CallsOK
<1>9. ASSUME NEW s \in Server, Crash(s) PROVE CallsOK'
  <2>1. /\ resultChans' = [resultChans EXCEPT ![s] = Nothing]
        /\ applier' = [applier EXCEPT ![s] = Receiving]
        /\ UNCHANGED answers
        /\ DOMAIN clerk' = Client
        /\ \A c \in Client : clerk'[c] \in {clerk[c], Sending(changeLeaderL(c))}
    BY Zenon, <1>9 DEF Crash
  <2>2. /\ DOMAIN resultChans' = Server
        /\ \A t \in Server : DOMAIN resultChans'[t] \subseteq DOMAIN resultChans[t]
    BY <2>1 DEF CallsOK, Nothing
  <2>3. DOMAIN applier' = Server /\ \A t \in Server : applier'[t].pc \in {"recv", "send"}
    BY Zenon, <2>1 DEF CallsOK, Receiving
  <2>4. \A c \in Client : changeLeaderL(c) \in Server
    BY Zenon, ChangedLeader DEF CallsOK
  <2>5. \A c \in Client : clerk'[c] = clerk[c] \/ (clerk'[c].leader \in Server /\ clerk'[c].pc = "send")
    BY <2>1, <2>4 DEF Sending
  <2> QED
    BY ZenonT(40), <2>1, <2>2, <2>3, <2>5 DEF CallsOK
<1>10. ASSUME NEW s \in Server, NEW t \in Server, readSnapshotL(s) \/ Commit(s) \/ Replicate(s, t)
       PROVE  UNCHANGED <<applier, resultChans, clerk, answers>>
  BY <1>10, Zenon DEF readSnapshotL, Commit, Replicate, serverVars, clerkVars
<1>11. CASE UNCHANGED vars
  BY Zenon, <1>1, <1>11 DEF vars, serverVars, clerkVars
<1> QED
  BY Zenon, <1>1, <1>2, <1>3, <1>4, <1>6, <1>7, <1>8, <1>9, <1>10, <1>11 DEF Next

TypeInv == ReplicaInv /\ SnapshotsAreBehind /\ CallsOK /\ 2 * Cardinality(Holding(log)) > NumServers

LEMMA TypeInvIsTypeOK == TypeInv => TypeOK
BY DEF TypeInv, TypeOK, ReplicaInv, SnapshotsAreBehind, CallsOK

LEMMA InitTypeInv == Init => TypeInv
<1> SUFFICES ASSUME Init PROVE TypeInv
  BY Zenon
<1>1. IsSeq(Nothing) /\ Len(Nothing) = 0 /\ DOMAIN Nothing = {}
  BY DEF IsSeq, Nothing
<1>2. Holding(log) = Server
  BY <1>1 DEF Init, Holding, Extends
<1>3. Cardinality(Server) = NumServers /\ 0 \in Server
  BY ServersAssumption, FS_Interval DEF Server
<1>4. 2 * Cardinality(Holding(log)) > NumServers
  BY <1>2, <1>3, ServersAssumption
<1>5. \A c \in Client : Len(Script[c]) \in Nat
  BY Zenon, ScriptAssumption
<1>6. CallsOK
  BY <1>1, <1>3, <1>5 DEF Init, CallsOK, Receiving, Sending
<1>7. SnapshotsAreBehind
  BY DEF Init, SnapshotsAreBehind
<1> QED
  BY Zenon, <1>4, <1>6, <1>7, InitReplicaInv DEF TypeInv

LEMMA NextTypeInv == TypeInv /\ [Next]_vars => TypeInv'
BY Zenon, NextReplicaInv, NextSnapshots, NextCalls, NextKeepsLog, TypeInvIsTypeOK DEF TypeInv

\* The committed log stays on a majority, no server applies or saves more than
\* is committed, a clerk's currentLeader stays an index of its servers, and no
\* clerk gets more answers than it made calls.
THEOREM KVTypes == Spec => []TypeOK
BY InitTypeInv, NextTypeInv, TypeInvIsTypeOK, PTL DEF Spec

-----------------------------------------------------------------------------
(* The operations in the logs: each is one the clerk is at or was at, and    *)
(* the operations of a clerk are in the order in which it made them.         *)

ScriptOp(c, id) ==
    [type |-> Script[c][id + 1].type, key |-> Script[c][id + 1].key,
     value |-> Script[c][id + 1].value, client |-> c, id |-> id]

\* op is operation id of clerk c.
IsOp(op, c, id) == id \in 0 .. Len(answers[c]) /\ id < Len(Script[c]) /\ op = ScriptOp(c, id)

Entries(l) ==
    /\ \A n \in 1 .. Len(l) : \E c \in Client, id \in Nat : IsOp(l[n], c, id)
    /\ \A n, m \in 1 .. Len(l) : n <= m /\ l[n].client = l[m].client => l[n].id <= l[m].id

EntryInv == \A s \in Server : Entries(rlog[s])

LEMMA OpFields ==
    ASSUME NEW c, NEW id
    PROVE  ScriptOp(c, id).client = c /\ ScriptOp(c, id).id = id
BY Zenon DEF ScriptOp

LEMMA OpOfIs == ASSUME NEW c PROVE OpOf(c) = ScriptOp(c, Len(answers[c]))
BY Zenon DEF OpOf, ScriptOp

LEMMA PrefixEntries ==
    ASSUME NEW p, NEW q, Len(p) \in Nat, Len(q) \in Nat, Extends(q, p), Entries(q)
    PROVE  Entries(p)
<1>1. \A n \in 1 .. Len(p) : n \in 1 .. Len(q) /\ p[n] = q[n]
  BY DEF Extends
<1> QED
  BY Zenon, <1>1 DEF Entries

\* Some server has the committed log.
LEMMA LogIsHeld ==
    ASSUME TypeInv
    PROVE  \E t \in Server : Extends(rlog[t], log)
<1>1. SUFFICES ASSUME Holding(log) = {} PROVE FALSE
  BY Zenon DEF Holding
<1>2. Cardinality(Holding(log)) = 0
  BY Zenon, <1>1, FS_EmptySet
<1> QED
  BY <1>2, ServersAssumption DEF TypeInv

LEMMA LogEntries ==
    ASSUME TypeInv, EntryInv
    PROVE  Entries(log)
<1>1. PICK t \in Server : Extends(rlog[t], log)
  BY Zenon, LogIsHeld
<1>2. Len(rlog[t]) \in Nat /\ Len(log) \in Nat
  BY DEF TypeInv, ReplicaInv, IsSeq
<1> QED
  BY Zenon, <1>1, <1>2, PrefixEntries DEF EntryInv

\* Answers are never taken back.
LEMMA AnswersGrow ==
    ASSUME TypeInv, [Next]_vars, NEW c \in Client
    PROVE  Len(answers[c]) \in Nat /\ Len(answers'[c]) \in Nat /\ Len(answers[c]) <= Len(answers'[c])
<1>1. IsSeq(answers[c]) /\ IsSeq(answers'[c])
  BY Zenon, NextTypeInv DEF TypeInv, CallsOK
<1>2. Len(answers[c]) \in Nat /\ Len(answers'[c]) \in Nat
  BY <1>1 DEF IsSeq
<1>3. ASSUME NEW d \in Client, NEW err, NEW value, Reply(d, err, value) \/ Retry(d)
      PROVE  Len(answers[c]) <= Len(answers'[c])
  <2>1. \/ UNCHANGED answers
        \/ \E x : answers' = [answers EXCEPT ![d] = Append(@, x)]
    BY <1>3, Zenon DEF Reply, Retry
  <2>2. CASE UNCHANGED answers
    BY <1>2, <2>2
  <2>3. ASSUME NEW x, answers' = [answers EXCEPT ![d] = Append(@, x)]
        PROVE  Len(answers[c]) <= Len(answers'[c])
    <3>1. answers'[c] = answers[c] \/ answers'[c] = Append(answers[c], x)
      BY Zenon, <2>3 DEF TypeInv, CallsOK
    <3>2. Len(Append(answers[c], x)) = Len(answers[c]) + 1
      BY <1>1 DEF IsSeq
    <3>3. CASE answers'[c] = answers[c]
      BY <1>2, <3>3
    <3>4. CASE answers'[c] = Append(answers[c], x)
      BY <1>2, <3>2, <3>4
    <3> QED
      BY Zenon, <3>1, <3>3, <3>4
  <2> QED
    BY Zenon, <2>1, <2>2, <2>3
<1>4. CASE UNCHANGED answers
  BY <1>2, <1>4
<1>5. ASSUME NEW d \in Client, AnswerAgain(d) \/ WrongLeader(d) \/ leave(d) \/ LoseRequest(d)
      PROVE  \E err, value : Reply(d, err, value) \/ Retry(d)
  BY <1>5, Zenon DEF AnswerAgain, WrongLeader, leave, LoseRequest
<1>6. ASSUME NEW d \in Client, Propose(d) \/ timeout(d) PROVE UNCHANGED answers
  BY <1>6, Zenon DEF Propose, timeout
<1>7. ASSUME NEW s \in Server, NEW t \in Server, NEW d \in Client,
             receiveApplyMsg(s) \/ readSnapshotL(s) \/ Commit(s) \/ Replicate(s, t) \/ Crash(s) \/ sendResult(s, d)
      PROVE  UNCHANGED answers
  BY <1>7, Zenon DEF receiveApplyMsg, readSnapshotL, Commit, Replicate, Crash, sendResult, clerkVars
<1>8. CASE UNCHANGED vars
  BY Zenon, <1>4, <1>8 DEF vars, clerkVars
<1> QED
  BY Zenon, <1>2, <1>3, <1>4, <1>5, <1>6, <1>7, <1>8 DEF Next

LEMMA EntriesLast ==
    ASSUME TypeInv, [Next]_vars, NEW l, Entries(l)
    PROVE  Entries(l)'
<1>1. ASSUME NEW op, NEW c \in Client, NEW id \in Nat, IsOp(op, c, id) PROVE IsOp(op, c, id)'
  BY <1>1, AnswersGrow DEF IsOp, ScriptOp
<1> QED
  BY Zenon, <1>1 DEF Entries

\* A log that a server had, or a part of it, is still in order.
LEMMA OldEntries ==
    ASSUME TypeInv, EntryInv, [Next]_vars, NEW t \in Server, NEW s \in Server,
           rlog'[t] = rlog[s]
    PROVE  Entries(rlog[t])'
<1>1. PICK l : l = rlog[s]
  BY Zenon
<1>2. Entries(l)'
  BY Zenon, <1>1, EntriesLast DEF EntryInv
<1> QED
  BY Zenon, <1>1, <1>2 DEF Entries

\* A clerk appends the operation it is at behind the ones it was at.
LEMMA ProposedEntries ==
    ASSUME TypeInv, EntryInv, [Next]_vars, NEW c \in Client, NEW s \in Server,
           Len(answers[c]) < Len(Script[c]), UNCHANGED answers,
           rlog'[s] = Append(rlog[s], OpOf(c))
    PROVE  Entries(rlog[s])'
<1>0. PICK l, q, op : l = rlog[s] /\ q = rlog'[s] /\ op = OpOf(c)
  BY Zenon
<1>1. IsSeq(l) /\ Len(l) \in Nat /\ Len(answers[c]) \in Nat
  BY <1>0 DEF TypeInv, ReplicaInv, CallsOK, IsSeq
<1>2. /\ Len(q) = Len(l) + 1 /\ q[Len(l) + 1] = op
      /\ \A n \in 1 .. Len(l) : q[n] = l[n]
  BY <1>0, <1>1 DEF IsSeq
<1>3. Entries(l) /\ Entries(l)'
  BY Zenon, <1>0, EntriesLast DEF EntryInv
<1>4. IsOp(op, c, Len(answers[c])) /\ op.client = c /\ op.id = Len(answers[c])
  BY <1>0, <1>1, OpOfIs, OpFields DEF IsOp
<1>5. IsOp(op, c, Len(answers[c]))'
  BY Zenon, <1>4 DEF IsOp, ScriptOp
<1>6. \A n \in 1 .. Len(l) : l[n].client = c => l[n].id <= op.id
  <2> SUFFICES ASSUME NEW n \in 1 .. Len(l), l[n].client = c PROVE l[n].id <= op.id
    BY Zenon
  <2>1. PICK d \in Client, id \in Nat : IsOp(l[n], d, id)
    BY Zenon, <1>3 DEF Entries
  <2>2. d = c /\ l[n].id = id
    BY <2>1, OpFields DEF IsOp
  <2> QED
    BY <1>4, <2>1, <2>2 DEF IsOp
<1>7. \A n \in 1 .. Len(q) : \E d \in Client, id \in Nat : IsOp(q[n], d, id)'
  <2> SUFFICES ASSUME NEW n \in 1 .. Len(q) PROVE \E d \in Client, id \in Nat : IsOp(q[n], d, id)'
    BY Zenon
  <2>1. CASE n = Len(l) + 1
    BY Zenon, <1>1, <1>2, <1>5, <2>1
  <2>2. CASE n \in 1 .. Len(l)
    BY Zenon, <1>2, <1>3, <2>2 DEF Entries
  <2> QED
    BY <1>1, <1>2, <2>1, <2>2
<1>8. \A n, m \in 1 .. Len(q) : n <= m /\ q[n].client = q[m].client => q[n].id <= q[m].id
  <2> SUFFICES ASSUME NEW n \in 1 .. Len(q), NEW m \in 1 .. Len(q), n <= m, q[n].client = q[m].client
               PROVE  q[n].id <= q[m].id
    BY Zenon
  <2>1. CASE n = Len(l) + 1
    <3>1. q[n] = op /\ q[m] = op
      BY <1>1, <1>2, <2>1
    <3> QED
      BY <1>1, <1>4, <3>1
  <2>2. CASE n \in 1 .. Len(l) /\ m = Len(l) + 1
    BY Zenon, <1>2, <1>4, <1>6, <2>2
  <2>3. CASE n \in 1 .. Len(l) /\ m \in 1 .. Len(l)
    BY Zenon, <1>2, <1>3, <2>3 DEF Entries
  <2> QED
    BY <1>1, <1>2, <2>1, <2>2, <2>3
<1>9. Entries(q)'
  BY Zenon, <1>7, <1>8 DEF Entries
<1> QED
  BY Zenon, <1>0, <1>9 DEF Entries

LEMMA NextEntryInv ==
    ASSUME TypeInv, EntryInv, [Next]_vars
    PROVE  EntryInv'
<1>0. DOMAIN rlog = Server
  BY Zenon DEF TypeInv, ReplicaInv
<1>1. CASE UNCHANGED rlog
  BY Zenon, <1>1, OldEntries DEF EntryInv
<1>2. ASSUME NEW c \in Client, Propose(c) PROVE EntryInv'
  <2>1. /\ rlog' = [rlog EXCEPT ![clerk[c].leader] = Append(@, OpOf(c))]
        /\ Len(answers[c]) < Len(Script[c]) /\ UNCHANGED answers
    BY <1>2, Zenon DEF Propose
  <2>2. ASSUME NEW s \in Server PROVE Entries(rlog[s])'
    <3>1. rlog'[s] = rlog[s] \/ rlog'[s] = Append(rlog[s], OpOf(c))
      BY Zenon, <1>0, <2>1
    <3> QED
      BY Zenon, <2>1, <3>1, OldEntries, ProposedEntries
  <2> QED
    BY Zenon, <2>2 DEF EntryInv
<1>3. ASSUME NEW s \in Server, NEW t \in Server, Replicate(s, t) PROVE EntryInv'
  <2>1. rlog' = [rlog EXCEPT ![s] = rlog[t]]
    BY Zenon, <1>3 DEF Replicate
  <2>2. ASSUME NEW u \in Server PROVE Entries(rlog[u])'
    <3>1. rlog'[u] = rlog[u] \/ rlog'[u] = rlog[t]
      BY Zenon, <1>0, <2>1
    <3> QED
      BY Zenon, <3>1, OldEntries
  <2> QED
    BY Zenon, <2>2 DEF EntryInv
<1>4. ASSUME NEW s \in Server, readSnapshotL(s) PROVE EntryInv'
  <2>0. PICK t \in Server :
          LET covered == SubSeq(log, 1, snapshot[t].index)
          IN  rlog' = [rlog EXCEPT ![s] = IF s \in Holding(covered) THEN @ ELSE covered]
    BY <1>4, Zenon DEF readSnapshotL
  <2>1. PICK l : /\ l = SubSeq(log, 1, snapshot[t].index)
                 /\ rlog' = [rlog EXCEPT ![s] = IF s \in Holding(l) THEN @ ELSE l]
    BY Zenon, <2>0
  <2>2. snapshot[t].index \in 0 .. Len(log) /\ IsSeq(log)
    BY Zenon DEF TypeInv, ReplicaInv
  <2>3. Len(l) = snapshot[t].index /\ \A n \in 1 .. Len(l) : l[n] = log[n]
    BY Zenon, <2>1, <2>2, PrefixIsSeq
  <2>4. Len(l) \in Nat /\ Len(log) \in Nat /\ Extends(log, l)
    BY <2>2, <2>3 DEF Extends, IsSeq
  <2>5. Entries(l)
    BY Zenon, <2>4, LogEntries, PrefixEntries
  <2>6. Entries(l)'
    BY Zenon, <2>5, EntriesLast
  <2>7. ASSUME NEW u \in Server PROVE Entries(rlog[u])'
    <3>1. rlog'[u] = rlog[u] \/ rlog'[u] = l
      BY Zenon, <1>0, <2>1
    <3>2. CASE rlog'[u] = l
      BY Zenon, <2>6, <3>2 DEF Entries
    <3> QED
      BY Zenon, <3>1, <3>2, OldEntries
  <2> QED
    BY Zenon, <2>7 DEF EntryInv
<1>5. ASSUME NEW c \in Client, AnswerAgain(c) \/ WrongLeader(c) \/ leave(c) \/ timeout(c) \/ LoseRequest(c)
      PROVE  UNCHANGED rlog
  BY <1>5, Zenon DEF AnswerAgain, WrongLeader, leave, timeout, LoseRequest, raftVars
<1>6. ASSUME NEW s \in Server, NEW c \in Client,
             Commit(s) \/ receiveApplyMsg(s) \/ Crash(s) \/ sendResult(s, c)
      PROVE  UNCHANGED rlog
  BY <1>6, Zenon DEF Commit, receiveApplyMsg, Crash, sendResult, raftVars
<1>7. CASE UNCHANGED vars
  BY Zenon, <1>1, <1>7 DEF vars, raftVars
<1>8. ASSUME NEW s \in Server, Commit(s) \/ receiveApplyMsg(s) \/ Crash(s) PROVE UNCHANGED rlog
  BY <1>8, Zenon DEF Commit, receiveApplyMsg, Crash, raftVars
<1> QED
  BY Zenon, <1>1, <1>2, <1>3, <1>4, <1>5, <1>6, <1>7, <1>8 DEF Next


-----------------------------------------------------------------------------
(***************************************************************************)
(* The service implements the map of KVStore, as long as a miss reaches    *)
(* only the handler that proposed it.  First: what was executed.           *)
(***************************************************************************)

\* The last operation of a clerk comes from the committed log, and what an
\* earlier state of the service remembers of a clerk is older or the same.
HistoryInv ==
    /\ \A c \in DOMAIN Current.lastOps :
          \E n \in 1 .. Len(log) : log[n] = Current.lastOps[c].op /\ log[n].client = c
    /\ \A n \in 0 .. Len(log) : \A c \in DOMAIN machine[n].lastOps :
          /\ c \in DOMAIN Current.lastOps
          /\ machine[n].lastOps[c].op.id \in Nat
          /\ \/ machine[n].lastOps[c].op.id < Current.lastOps[c].op.id
             \/ machine[n].lastOps[c] = Current.lastOps[c]

\* The operation a clerk was served last, as the clerk numbers it.
LEMMA LastIsOp ==
    ASSUME TypeInv, EntryInv, HistoryInv, NEW c \in DOMAIN Current.lastOps
    PROVE  /\ c \in Client
           /\ Served(c) = Current.lastOps[c].op.id + 1
           /\ IsOp(Current.lastOps[c].op, c, Current.lastOps[c].op.id)
           /\ Current.lastOps[c].op.id \in Nat
<1>1. PICK n \in 1 .. Len(log) : log[n] = Current.lastOps[c].op /\ log[n].client = c
  BY Zenon DEF HistoryInv
<1>2. PICK d \in Client, id \in Nat : IsOp(log[n], d, id)
  BY Zenon, LogEntries DEF Entries
<1>3. d = c /\ log[n].id = id
  BY <1>1, <1>2, OpFields DEF IsOp
<1> QED
  BY Zenon, <1>1, <1>2, <1>3 DEF Served

\* A clerk whose operation some state of the service has as the last one can be
\* answered: nothing of that clerk was executed since.
LEMMA Answerable ==
    ASSUME TypeInv, EntryInv, HistoryInv, NEW c \in Client, NEW n \in 0 .. Len(log),
           c \in DOMAIN machine[n].lastOps, machine[n].lastOps[c].op = OpOf(c)
    PROVE  /\ c \in DOMAIN Current.lastOps
           /\ machine[n].lastOps[c] = Current.lastOps[c]
           /\ Served(c) = Len(answers[c]) + 1
<1>1. /\ c \in DOMAIN Current.lastOps
      /\ \/ machine[n].lastOps[c].op.id < Current.lastOps[c].op.id
         \/ machine[n].lastOps[c] = Current.lastOps[c]
  BY Zenon DEF HistoryInv
<1>2. Current.lastOps[c].op.id \in 0 .. Len(answers[c]) /\ Served(c) = Current.lastOps[c].op.id + 1
  BY Zenon, <1>1, LastIsOp DEF IsOp
<1>3. OpOf(c).id = Len(answers[c]) /\ Len(answers[c]) \in Nat
  BY OpOfIs, OpFields DEF TypeInv, CallsOK, IsSeq
<1> QED
  BY <1>1, <1>2, <1>3

\* Answers were executed.
ServedInv == EntryInv /\ HistoryInv /\ \A c \in Client : Len(answers[c]) <= Served(c)

\* A commit executes the operation its clerk is at, or repeats the one that was
\* executed last for it, which applyOpL skips.
LEMMA CommitCases ==
    ASSUME TypeInv, ServedInv, NEW s \in Server, Commit(s),
           NEW op, op = rlog[s][Len(log) + 1]
    PROVE  /\ op.client \in Client
           /\ \/ IsLastOp(Current, op)
              \/ /\ ~IsLastOp(Current, op)
                 /\ op = OpOf(op.client)
                 /\ Served(op.client) = Len(answers[op.client])
                 /\ Served(op.client) < Len(Script[op.client])
                 /\ op.client \in DOMAIN Current.lastOps =>
                       Current.lastOps[op.client].op.id < op.id
<1>1. Entries(rlog[s]) /\ Extends(rlog[s], log) /\ Len(rlog[s]) > Len(log)
  BY Zenon DEF ServedInv, EntryInv, Commit
<1>2. Len(log) \in Nat /\ Len(rlog[s]) \in Nat
  BY DEF TypeInv, ReplicaInv, IsSeq
<1>3. Len(log) + 1 \in 1 .. Len(rlog[s])
  BY <1>1, <1>2
<1>4. PICK c \in Client, id \in Nat : IsOp(op, c, id)
  BY Zenon, <1>1, <1>3 DEF Entries
<1>5. op.client = c /\ op.id = id /\ op = ScriptOp(c, id)
  BY <1>4, OpFields DEF IsOp
<1>6. id <= Len(answers[c]) /\ Len(answers[c]) \in Nat /\ id < Len(Script[c]) /\ Len(answers[c]) <= Served(c)
  BY <1>4 DEF IsOp, ServedInv, TypeInv, CallsOK, IsSeq
<1>7. CASE c \notin DOMAIN Current.lastOps
  <2>1. Served(c) = 0
    BY Zenon, <1>7 DEF Served
  <2>2. id = 0 /\ Len(answers[c]) = 0 /\ ~IsLastOp(Current, op)
    BY <1>5, <1>6, <1>7, <2>1 DEF IsLastOp
  <2> QED
    BY Zenon, <1>5, <1>6, <1>7, <2>1, <2>2, OpOfIs
<1>8. CASE c \in DOMAIN Current.lastOps
  <2> DEFINE last == Current.lastOps[c].op
  <2>1. /\ Served(c) = last.id + 1 /\ IsOp(last, c, last.id) /\ last.id \in Nat
    BY Zenon, <1>8, LastIsOp DEF ServedInv
  <2>2. PICK n \in 1 .. Len(log) : log[n] = last /\ log[n].client = c
    BY Zenon, <1>8 DEF ServedInv, HistoryInv
  <2>3. rlog[s][n] = last /\ n \in 1 .. Len(rlog[s]) /\ n <= Len(log) + 1
    BY <1>1, <1>2, <2>2 DEF Extends
  <2>4. last.id <= id
    BY Zenon, <1>1, <1>3, <1>5, <2>2, <2>3 DEF Entries
  <2>5. CASE last.id = id
    <3>1. last = op
      BY Zenon, <1>5, <2>1, <2>5 DEF IsOp
    <3> QED
      BY Zenon, <1>5, <1>8, <3>1 DEF IsLastOp
  <2>6. CASE last.id < id
    <3>1. id = Served(c) /\ id = Len(answers[c])
      BY <1>6, <2>1, <2>6
    <3>2. ~IsLastOp(Current, op)
      BY <1>5, <2>1, <2>6 DEF IsLastOp
    <3>3. op = OpOf(c)
      BY Zenon, <1>5, <3>1, OpOfIs
    <3> QED
      BY Zenon, <1>5, <1>6, <2>6, <3>1, <3>2, <3>3
  <2>7. last.id = id \/ last.id < id
    BY <2>1, <2>4
  <2> QED
    BY <2>5, <2>6, <2>7, Zenon
<1> QED
  BY Zenon, <1>5, <1>7, <1>8

\* What a commit adds to the history.
LEMMA CommitAdds ==
    ASSUME TypeInv, NEW s \in Server, Commit(s)
    PROVE  /\ Len(log) \in Nat /\ Len(log') = Len(log) + 1
           /\ \A n \in 1 .. Len(log) : log'[n] = log[n]
           /\ log'[Len(log) + 1] = rlog[s][Len(log) + 1]
           /\ \A n \in 0 .. Len(log) : machine'[n] = machine[n]
           /\ Current' = applyOpL(Current, rlog[s][Len(log) + 1])
           /\ Current' = machine'[Len(log) + 1]
           /\ UNCHANGED answers
<1>1. Len(log) \in Nat /\ Len(rlog[s]) \in Nat /\ IsSeq(rlog[s]) /\ DOMAIN machine = 0 .. Len(log)
  BY DEF TypeInv, ReplicaInv, IsSeq
<1>2. /\ Len(rlog[s]) > Len(log) /\ Extends(rlog[s], log)
      /\ log' = SubSeq(rlog[s], 1, Len(log) + 1)
      /\ machine' = Put(machine, Len(log) + 1, applyOpL(machine[Len(log)], rlog[s][Len(log) + 1]))
      /\ UNCHANGED answers
  BY Zenon DEF Commit, clerkVars
<1>3. Len(log) + 1 \in 0 .. Len(rlog[s])
  BY <1>1, <1>2
<1>4. Len(log') = Len(log) + 1 /\ \A n \in 1 .. Len(log) + 1 : log'[n] = rlog[s][n]
  BY Zenon, <1>1, <1>2, <1>3, PrefixIsSeq
<1>5. \A n \in 1 .. Len(log) : log'[n] = log[n]
  BY <1>1, <1>2, <1>4 DEF Extends
<1>6. /\ \A n \in 0 .. Len(log) : machine'[n] = machine[n]
      /\ machine'[Len(log) + 1] = applyOpL(Current, rlog[s][Len(log) + 1])
  BY <1>1, <1>2 DEF Put, Current
<1> QED
  BY <1>1, <1>2, <1>4, <1>5, <1>6 DEF Current

\* applyOpL on an operation that is not the last one.
LEMMA ApplyNew ==
    ASSUME NEW m, NEW op, ~IsLastOp(m, op)
    PROVE  /\ DOMAIN applyOpL(m, op).lastOps = DOMAIN m.lastOps \cup {op.client}
           /\ applyOpL(m, op).lastOps[op.client] = [op |-> op, value |-> OldValue(m, op)]
           /\ \A c \in DOMAIN m.lastOps : c # op.client => applyOpL(m, op).lastOps[c] = m.lastOps[c]
<1>1. applyOpL(m, op).lastOps = Put(m.lastOps, op.client, [op |-> op, value |-> OldValue(m, op)])
  BY Zenon DEF applyOpL
<1> QED
  BY Zenon, <1>1 DEF Put

LEMMA CommitServed ==
    ASSUME TypeInv, ServedInv, NEW s \in Server, Commit(s)
    PROVE  HistoryInv' /\ \A c \in Client : Len(answers'[c]) <= Served(c)'
<1>0. PICK op, N, m : op = rlog[s][Len(log) + 1] /\ N = Len(log) /\ m = Current'
  BY Zenon
<1>1. /\ N \in Nat /\ Len(log') = N + 1
      /\ \A n \in 1 .. N : log'[n] = log[n]
      /\ log'[N + 1] = op
      /\ \A n \in 0 .. N : machine'[n] = machine[n]
      /\ m = applyOpL(Current, op)
      /\ m = machine'[N + 1]
      /\ UNCHANGED answers
  BY Zenon, <1>0, CommitAdds
<1>2. op.client \in Client
  BY Zenon, <1>0, CommitCases
<1>3. CASE IsLastOp(Current, op)
  <2>1. m = Current
    BY Zenon, <1>1, <1>3 DEF applyOpL
  <2>2. \A c \in DOMAIN m.lastOps : \E n \in 1 .. N + 1 : log'[n] = m.lastOps[c].op /\ log'[n].client = c
    <3> SUFFICES ASSUME NEW c \in DOMAIN m.lastOps
                 PROVE  \E n \in 1 .. N + 1 : log'[n] = m.lastOps[c].op /\ log'[n].client = c
      BY Zenon
    <3>1. PICK n \in 1 .. N : log[n] = m.lastOps[c].op /\ log[n].client = c
      BY Zenon, <1>0, <2>1 DEF ServedInv, HistoryInv
    <3> QED
      BY <1>1, <3>1
  <2>3. \A n \in 0 .. N + 1 : \A c \in DOMAIN machine'[n].lastOps :
          /\ c \in DOMAIN m.lastOps
          /\ machine'[n].lastOps[c].op.id \in Nat
          /\ \/ machine'[n].lastOps[c].op.id < m.lastOps[c].op.id
             \/ machine'[n].lastOps[c] = m.lastOps[c]
    <3> SUFFICES ASSUME NEW n \in 0 .. N + 1, NEW c \in DOMAIN machine'[n].lastOps
                 PROVE  /\ c \in DOMAIN m.lastOps
                        /\ machine'[n].lastOps[c].op.id \in Nat
                        /\ \/ machine'[n].lastOps[c].op.id < m.lastOps[c].op.id
                           \/ machine'[n].lastOps[c] = m.lastOps[c]
      BY Zenon
    <3>1. CASE n = N + 1
      <4>1. Current.lastOps[c].op.id \in Nat
        BY Zenon, <1>1, <2>1, <3>1, LastIsOp DEF ServedInv
      <4> QED
        BY Zenon, <1>1, <2>1, <3>1, <4>1
    <3>2. CASE n \in 0 .. N
      BY <1>0, <1>1, <2>1, <3>2, SMTT(30) DEF ServedInv, HistoryInv
    <3> QED
      BY <1>1, <3>1, <3>2
  <2>4. HistoryInv'
    BY <1>0, <1>1, <2>2, <2>3 DEF HistoryInv
  <2>5. \A c \in Client : Served(c)' = Served(c)
    BY Zenon, <1>0, <2>1 DEF Served
  <2> QED
    BY Zenon, <1>1, <2>4, <2>5 DEF ServedInv
<1>4. CASE ~IsLastOp(Current, op)
  <2>1. /\ DOMAIN m.lastOps = DOMAIN Current.lastOps \cup {op.client}
        /\ m.lastOps[op.client] = [op |-> op, value |-> OldValue(Current, op)]
        /\ \A c \in DOMAIN Current.lastOps : c # op.client => m.lastOps[c] = Current.lastOps[c]
    <3>1. PICK cur : cur = Current
      BY Zenon
    <3>2. m = applyOpL(cur, op) /\ ~IsLastOp(cur, op)
      BY Zenon, <1>1, <1>4, <3>1
    <3>3. /\ DOMAIN m.lastOps = DOMAIN cur.lastOps \cup {op.client}
          /\ m.lastOps[op.client] = [op |-> op, value |-> OldValue(cur, op)]
          /\ \A c \in DOMAIN cur.lastOps : c # op.client => m.lastOps[c] = cur.lastOps[c]
      BY <3>2, ApplyNew, Zenon
    <3> QED
      BY Zenon, <3>1, <3>3
  <2>2. /\ Served(op.client) = Len(answers[op.client])
        /\ op = OpOf(op.client)
        /\ op.client \in DOMAIN Current.lastOps => Current.lastOps[op.client].op.id < op.id
    BY Zenon, <1>0, <1>4, CommitCases
  <2>3. op.id = Len(answers[op.client]) /\ Len(answers[op.client]) \in Nat
    BY <1>2, <2>2, OpOfIs, OpFields DEF TypeInv, CallsOK, IsSeq
  <2>4. m.lastOps[op.client].op = op
    BY <2>1
  <2>5. \A c \in DOMAIN m.lastOps : \E n \in 1 .. N + 1 : log'[n] = m.lastOps[c].op /\ log'[n].client = c
    <3> SUFFICES ASSUME NEW c \in DOMAIN m.lastOps
                 PROVE  \E n \in 1 .. N + 1 : log'[n] = m.lastOps[c].op /\ log'[n].client = c
      BY Zenon
    <3>1. CASE c = op.client
      BY <1>1, <2>4, <3>1
    <3>2. CASE c # op.client
      <4>1. c \in DOMAIN Current.lastOps /\ m.lastOps[c] = Current.lastOps[c]
        BY Zenon, <2>1, <3>2
      <4>2. PICK n \in 1 .. N : log[n] = m.lastOps[c].op /\ log[n].client = c
        BY Zenon, <1>0, <4>1 DEF ServedInv, HistoryInv
      <4> QED
        BY <1>1, <4>2
    <3> QED
      BY Zenon, <3>1, <3>2
  <2>6. \A n \in 0 .. N + 1 : \A c \in DOMAIN machine'[n].lastOps :
          /\ c \in DOMAIN m.lastOps
          /\ machine'[n].lastOps[c].op.id \in Nat
          /\ \/ machine'[n].lastOps[c].op.id < m.lastOps[c].op.id
             \/ machine'[n].lastOps[c] = m.lastOps[c]
    <3> SUFFICES ASSUME NEW n \in 0 .. N + 1, NEW c \in DOMAIN machine'[n].lastOps
                 PROVE  /\ c \in DOMAIN m.lastOps
                        /\ machine'[n].lastOps[c].op.id \in Nat
                        /\ \/ machine'[n].lastOps[c].op.id < m.lastOps[c].op.id
                           \/ machine'[n].lastOps[c] = m.lastOps[c]
      BY Zenon
    <3>1. CASE n = N + 1
      <4>1. c \in DOMAIN m.lastOps /\ machine'[n] = m
        BY Zenon, <1>1, <3>1
      <4>2. c # op.client => Current.lastOps[c].op.id \in Nat
        BY Zenon, <2>1, <4>1, LastIsOp DEF ServedInv
      <4>3. m.lastOps[c].op.id \in Nat
        BY Zenon, <2>1, <2>3, <2>4, <4>1, <4>2
      <4> QED
        BY Zenon, <4>1, <4>3
    <3>2. CASE n \in 0 .. N
      <4>1. /\ machine'[n] = machine[n]
            /\ c \in DOMAIN Current.lastOps
            /\ machine[n].lastOps[c].op.id \in Nat
            /\ \/ machine[n].lastOps[c].op.id < Current.lastOps[c].op.id
               \/ machine[n].lastOps[c] = Current.lastOps[c]
        BY ZenonT(40), <1>0, <1>1, <3>2 DEF ServedInv, HistoryInv
      <4>2. CASE c # op.client
        BY Zenon, <2>1, <4>1, <4>2
      <4>3. CASE c = op.client
        <5>1. Current.lastOps[c].op.id < op.id /\ op.id \in Nat
          BY Zenon, <2>2, <2>3, <4>1, <4>3
        <5>2. Current.lastOps[c].op.id \in Nat
          BY Zenon, <4>1, LastIsOp DEF ServedInv
        <5>3. machine[n].lastOps[c].op.id < op.id
          <6>1. CASE machine[n].lastOps[c] = Current.lastOps[c]
            BY Zenon, <5>1, <6>1
          <6>2. CASE machine[n].lastOps[c].op.id < Current.lastOps[c].op.id
            BY <4>1, <5>1, <5>2, <6>2
          <6> QED
            BY Zenon, <4>1, <6>1, <6>2
        <5> QED
          BY Zenon, <2>1, <2>4, <4>1, <4>3, <5>3
      <4> QED
        BY Zenon, <4>2, <4>3
    <3> QED
      BY <1>1, <3>1, <3>2
  <2>7. HistoryInv'
    BY <1>0, <1>1, <2>5, <2>6 DEF HistoryInv
  <2>8. ASSUME NEW c \in Client PROVE Len(answers'[c]) <= Served(c)'
    <3>1. CASE c = op.client
      <4>1. Served(c)' = op.id + 1
        BY Zenon, <1>0, <2>1, <2>4, <3>1 DEF Served
      <4> QED
        BY <1>1, <2>3, <3>1, <4>1
    <3>2. CASE c # op.client
      <4>1. Served(c)' = Served(c)
        BY Zenon, <1>0, <2>1, <3>2 DEF Served
      <4> QED
        BY Zenon, <1>1, <4>1 DEF ServedInv
    <3> QED
      BY Zenon, <3>1, <3>2
  <2> QED
    BY Zenon, <2>7, <2>8
<1> QED
  BY Zenon, <1>3, <1>4

-----------------------------------------------------------------------------
(* Results on their way to a handler. *)

\* A result that will be returned is what the execution of its operation left
\* in lastOps.
Executed(r) ==
    r.err \in {"OK", "ErrNoKey"} =>
       \E n \in 0 .. Len(log) :
          /\ r.op.client \in DOMAIN machine[n].lastOps
          /\ machine[n].lastOps[r.op.client].op = r.op
          /\ r.op.type = "Get" => r.value = machine[n].lastOps[r.op.client].value

ResultInv ==
    /\ \A s \in Server : applier[s].pc = "send" => Executed(applier[s].result)
    /\ \A c \in Client : clerk[c].pc = "woken" => Executed(clerk[c].result)

\* What applyOpL returns for an operation it executes.
LEMMA ResultIsExecuted ==
    ASSUME TypeInv, NEW n \in 1 .. Len(log)
    PROVE  Executed(ResultOf(machine[n - 1], log[n]))
<1>0. PICK m, op : m = machine[n - 1] /\ op = log[n]
  BY Zenon
<1>1. machine[n] = applyOpL(m, op)
  <2>1. \A k \in 1 .. Len(log) : machine[k] = applyOpL(machine[k - 1], log[k])
    BY Zenon DEF TypeInv, ReplicaInv
  <2> QED
    BY Zenon, <1>0, <2>1
<1>2. ResultOf(m, op).op = op
  BY Zenon DEF ResultOf
<1>3. CASE IsLastOp(m, op)
  <2>1. ResultOf(m, op).err = "ErrDuplicate"
    BY Zenon, <1>3 DEF ResultOf
  <2> QED
    BY Zenon, <1>0, <2>1 DEF Executed
<1>4. CASE ~IsLastOp(m, op)
  <2>1. /\ op.client \in DOMAIN machine[n].lastOps
        /\ machine[n].lastOps[op.client] = [op |-> op, value |-> OldValue(m, op)]
    BY <1>1, <1>4, ApplyNew
  <2>2. op.type = "Get" => ResultOf(m, op).value = OldValue(m, op)
    BY Zenon, <1>4 DEF ResultOf
  <2>3. n \in 0 .. Len(log)
    OBVIOUS
  <2> QED
    BY <1>0, <1>2, <2>1, <2>2, <2>3 DEF Executed
<1> QED
  BY Zenon, <1>3, <1>4

\* The committed log and its history only grow.
LEMMA HistoryGrows ==
    ASSUME TypeInv, [Next]_vars
    PROVE  /\ Len(log) \in Nat /\ Len(log') \in Nat /\ Len(log) <= Len(log')
           /\ \A n \in 0 .. Len(log) : machine'[n] = machine[n]
<1>1. Len(log) \in Nat
  BY DEF TypeInv, ReplicaInv, IsSeq
<1>2. CASE UNCHANGED <<log, machine>>
  BY <1>1, <1>2
<1>3. ASSUME NEW s \in Server, Commit(s)
      PROVE  /\ Len(log') \in Nat /\ Len(log) <= Len(log')
             /\ \A n \in 0 .. Len(log) : machine'[n] = machine[n]
  BY <1>1, <1>3, CommitAdds
<1>4. (\E s \in Server : Commit(s)) \/ UNCHANGED <<log, machine>>
  <2>1. ASSUME NEW c \in Client,
               AnswerAgain(c) \/ WrongLeader(c) \/ Propose(c) \/ leave(c) \/ timeout(c) \/ LoseRequest(c)
        PROVE  UNCHANGED <<log, machine>>
    BY <2>1, Zenon DEF AnswerAgain, WrongLeader, Propose, leave, timeout, LoseRequest, raftVars
  <2>2. ASSUME NEW s \in Server, NEW t \in Server,
               receiveApplyMsg(s) \/ readSnapshotL(s) \/ Replicate(s, t) \/ Crash(s)
        PROVE  UNCHANGED <<log, machine>>
    BY <2>2, Zenon DEF receiveApplyMsg, readSnapshotL, Replicate, Crash, raftVars
  <2>3. ASSUME NEW s \in Server, NEW c \in Client, sendResult(s, c) PROVE UNCHANGED <<log, machine>>
    BY <2>3, Zenon DEF sendResult, raftVars
  <2>4. CASE UNCHANGED vars
    BY Zenon, <2>4 DEF vars, raftVars
  <2> QED
    BY Zenon, <2>1, <2>2, <2>3, <2>4 DEF Next
<1> QED
  BY Zenon, <1>1, <1>2, <1>3, <1>4

LEMMA ExecutedLasts ==
    ASSUME TypeInv, [Next]_vars, NEW r, Executed(r)
    PROVE  Executed(r)'
<1>1. /\ \A n \in 0 .. Len(log) : n \in 0 .. Len(log') /\ machine'[n] = machine[n]
  BY HistoryGrows
<1> QED
  BY Zenon, <1>1 DEF Executed

LEMMA NextResultInv ==
    ASSUME TypeInv, ResultInv, [Next]_vars
    PROVE  ResultInv'
<1>1. ASSUME NEW s \in Server, applier'[s].pc = "send"
      PROVE  \/ applier[s].pc = "send" /\ applier'[s].result = applier[s].result
             \/ Executed(applier'[s].result)
  <2>1. CASE UNCHANGED applier
    BY Zenon, <1>1, <2>1
  <2>2. ASSUME NEW t \in Server, applier' = [applier EXCEPT ![t] = Receiving]
        PROVE  applier[s].pc = "send" /\ applier'[s].result = applier[s].result
    BY Zenon, <1>1, <2>2 DEF Receiving, TypeInv, CallsOK
  <2>3. ASSUME NEW t \in Server, receiveApplyMsg(t)
        PROVE  \/ applier[s].pc = "send" /\ applier'[s].result = applier[s].result
               \/ Executed(applier'[s].result)
    <3>1. /\ applied[t] < Len(log)
          /\ \/ \E ch : applier' = [applier EXCEPT ![t] =
                   [pc |-> "send", ch |-> ch, result |-> ResultOf(kv[t], log[applied[t] + 1])]]
             \/ UNCHANGED applier
      BY <2>3, Zenon DEF receiveApplyMsg
    <3>2. PICK n \in 1 .. Len(log) : n = applied[t] + 1 /\ n - 1 = applied[t]
      <4>1. applied[t] \in 0 .. Len(log) /\ Len(log) \in Nat
        BY DEF TypeInv, ReplicaInv, IsSeq
      <4> QED
        BY <3>1, <4>1
    <3>a. machine[n - 1] = kv[t] /\ log[n] = log[applied[t] + 1]
      BY Zenon, <3>2 DEF TypeInv, ReplicaInv, ReplicasAgree
    <3>b. Executed(ResultOf(machine[n - 1], log[n]))
      BY Zenon, ResultIsExecuted
    <3>3. Executed(ResultOf(kv[t], log[applied[t] + 1]))
      BY Zenon, <3>a, <3>b
    <3>4. CASE s = t
      BY <1>1, <2>1, <3>1, <3>3, <3>4 DEF TypeInv, CallsOK
    <3>5. CASE s # t
      BY Zenon, <1>1, <3>1, <3>5 DEF TypeInv, CallsOK
    <3> QED
      BY Zenon, <3>4, <3>5
  <2>4. ASSUME NEW t \in Server, NEW c \in Client, sendResult(t, c) PROVE applier' = [applier EXCEPT ![t] = Receiving]
    BY <2>4, Zenon DEF sendResult
  <2>5. ASSUME NEW t \in Server, Crash(t) PROVE applier' = [applier EXCEPT ![t] = Receiving]
    BY <2>5, Zenon DEF Crash
  <2>6. ASSUME NEW t \in Server, NEW u \in Server, readSnapshotL(t) \/ Commit(t) \/ Replicate(t, u)
        PROVE  UNCHANGED applier
    BY <2>6, Zenon DEF readSnapshotL, Commit, Replicate, serverVars
  <2>7. ASSUME NEW c \in Client,
               AnswerAgain(c) \/ WrongLeader(c) \/ Propose(c) \/ leave(c) \/ timeout(c) \/ LoseRequest(c)
        PROVE  UNCHANGED applier
    BY <2>7, Zenon DEF AnswerAgain, WrongLeader, Propose, leave, timeout, LoseRequest, serverVars
  <2>8. CASE UNCHANGED vars
    BY ZenonT(40), <2>1, <2>8 DEF vars, serverVars
  <2> QED
    BY Zenon, <2>1, <2>2, <2>3, <2>4, <2>5, <2>6, <2>7, <2>8 DEF Next
<1>2. ASSUME NEW c \in Client, clerk'[c].pc = "woken"
      PROVE  \/ clerk[c].pc = "woken" /\ clerk'[c].result = clerk[c].result
             \/ clerk'[c].result.err = "ErrTimeout"
             \/ \E s \in Server : applier[s].pc = "send" /\ clerk'[c].result = applier[s].result
  <2>0. c \in DOMAIN clerk
    BY Zenon DEF TypeInv, CallsOK
  <2>1. CASE UNCHANGED clerk
    BY Zenon, <1>2, <2>1
  <2>2. ASSUME NEW d \in Client, NEW l, clerk' = [clerk EXCEPT ![d] = Sending(l)]
        PROVE  clerk'[c] = clerk[c]
    BY Zenon, <1>2, <2>0, <2>2 DEF Sending
  <2>3. ASSUME NEW d \in Client, Propose(d) PROVE clerk'[c] = clerk[c]
    <3>1. waitApplyL(d, clerk[d].leader, Len(rlog[clerk[d].leader]) + 1)
      BY <2>3, Zenon DEF Propose
    <3>2. PICK x, y, z : clerk' = [clerk EXCEPT ![d] = [Sending(x) EXCEPT !.pc = "wait", !.index = y, !.ch = z]]
      BY <3>1, Zenon DEF waitApplyL
    <3> QED
      BY Zenon, <1>2, <2>0, <3>2 DEF Sending
  <2>4. ASSUME NEW d \in Client, timeout(d)
        PROVE  clerk'[c] = clerk[c] \/ clerk'[c].result.err = "ErrTimeout"
    <3>1. PICK v, o : clerk' = [clerk EXCEPT ![d].pc = "woken",
                                             ![d].result = [err |-> "ErrTimeout", value |-> v, op |-> o]]
      BY <2>4, Zenon DEF timeout
    <3> QED
      BY <2>0, <3>1
  <2>5. ASSUME NEW s \in Server, NEW d \in Client, sendResult(s, d)
        PROVE  clerk'[c] = clerk[c] \/ (applier[s].pc = "send" /\ clerk'[c].result = applier[s].result)
    <3>1. /\ clerk' = [clerk EXCEPT ![d].pc = "woken", ![d].result = applier[s].result]
          /\ applier[s].pc = "send"
      BY <2>5, Zenon DEF sendResult
    <3> QED
      BY <2>0, <3>1
  <2>6. ASSUME NEW s \in Server, Crash(s) PROVE clerk'[c] = clerk[c]
    <3>1. clerk'[c] = clerk[c] \/ clerk'[c] = Sending(changeLeaderL(c))
      BY Zenon, <2>6 DEF Crash
    <3> QED
      BY <1>2, <3>1 DEF Sending
  <2>7. ASSUME NEW d \in Client, AnswerAgain(d) \/ WrongLeader(d) \/ leave(d) \/ LoseRequest(d)
        PROVE  clerk'[c] = clerk[c]
    <3>1. \E err, value : Reply(d, err, value) \/ Retry(d)
      BY <2>7, Zenon DEF AnswerAgain, WrongLeader, leave, LoseRequest
    <3>2. \E l : clerk' = [clerk EXCEPT ![d] = Sending(l)]
      BY Zenon, <3>1 DEF Reply, Retry
    <3> QED
      BY Zenon, <2>2, <3>2
  <2>8. ASSUME NEW s \in Server, NEW t \in Server,
               readSnapshotL(s) \/ Commit(s) \/ Replicate(s, t) \/ receiveApplyMsg(s)
        PROVE  UNCHANGED clerk
    BY <2>8, Zenon DEF readSnapshotL, Commit, Replicate, receiveApplyMsg, clerkVars
  <2>9. CASE UNCHANGED vars
    BY Zenon, <2>1, <2>9 DEF vars, clerkVars
  <2> QED
    BY <1>2, <2>1, <2>3, <2>4, <2>5, <2>6, <2>7, <2>8, <2>9 DEF Next
<1>3. ASSUME NEW r, Executed(r) PROVE Executed(r)'
  BY Zenon, <1>3, ExecutedLasts
<1>4. ASSUME NEW s \in Server, applier'[s].pc = "send" PROVE Executed(applier[s].result)'
  <2>1. PICK r : r = applier'[s].result
    BY Zenon
  <2>2. Executed(r)
    BY Zenon, <1>1, <1>4, <2>1 DEF ResultInv
  <2>3. Executed(r)'
    BY Zenon, <1>3, <2>2
  <2> QED
    BY <2>1, <2>3, Zenon DEF Executed
<1>5. ASSUME NEW c \in Client, clerk'[c].pc = "woken" PROVE Executed(clerk[c].result)'
  <2>1. PICK r : r = clerk'[c].result
    BY Zenon
  <2>2. Executed(r) \/ r.err = "ErrTimeout"
    BY Zenon, <1>2, <1>5, <2>1 DEF ResultInv
  <2>3. Executed(r)
    BY <2>2, Zenon DEF Executed
  <2>4. Executed(r)'
    BY Zenon, <1>3, <2>3
  <2> QED
    BY <2>1, <2>4, Zenon DEF Executed
<1> QED
  BY Zenon, <1>4, <1>5 DEF ResultInv

-----------------------------------------------------------------------------
(* The service is the map of KVStore. *)

\* What waitApplyL assumes and does not compare: a miss that reaches a handler
\* is the miss of the operation it proposed.
MissesAreOwn ==
    \A c \in Client :
       clerk[c].pc = "woken" /\ clerk[c].result.err = "ErrNoKey" => clerk[c].result.op = OpOf(c)

KVInv == TypeInv /\ ServedInv /\ ResultInv

\* An answer is what the execution of the operation returned.
LEMMA AnswerStep ==
    ASSUME KVInv, MissesAreOwn, NEW c \in Client, AnswerAgain(c) \/ leave(c)
    PROVE  \/ UNCHANGED answers
           \/ /\ Served(c) = Len(answers[c]) + 1
              /\ answers' = [answers EXCEPT ![c] = Append(@, LastResult(c))]
<1>1. ASSUME NEW n \in 0 .. Len(log), NEW err, NEW value, Reply(c, err, value),
             err \in {"OK", "ErrNoKey"} =>
                /\ c \in DOMAIN machine[n].lastOps
                /\ machine[n].lastOps[c].op = OpOf(c)
                /\ OpOf(c).type = "Get" => value = machine[n].lastOps[c].value
      PROVE  \/ UNCHANGED answers
             \/ /\ Served(c) = Len(answers[c]) + 1
                /\ answers' = [answers EXCEPT ![c] = Append(@, LastResult(c))]
  <2>1. \/ UNCHANGED answers
        \/ /\ err \in {"OK", "ErrNoKey"}
           /\ answers' = [answers EXCEPT ![c] =
                 Append(@, IF OpOf(c).type = "Get" THEN value ELSE Nothing)]
    BY <1>1, Zenon DEF Reply, Retry
  <2>2. CASE err \in {"OK", "ErrNoKey"}
    <3>1. /\ c \in DOMAIN Current.lastOps
          /\ machine[n].lastOps[c] = Current.lastOps[c]
          /\ Served(c) = Len(answers[c]) + 1
      BY Zenon, <1>1, <2>2, Answerable DEF KVInv, ServedInv
    <3>2. LastResult(c) = IF OpOf(c).type = "Get" THEN value ELSE Nothing
      BY Zenon, <1>1, <2>2, <3>1 DEF LastResult
    <3> QED
      BY Zenon, <2>1, <3>1, <3>2
  <2> QED
    BY Zenon, <2>1, <2>2
<1>2. CASE AnswerAgain(c)
  <2>1. PICK s \in Server : s = clerk[c].leader
    BY Zenon DEF KVInv, TypeInv, CallsOK
  <2>2. IsLastOp(kv[s], OpOf(c)) /\ Reply(c, "OK", kv[s].lastOps[c].value)
    BY Zenon, <1>2, <2>1 DEF AnswerAgain
  <2>3. PICK n \in 0 .. Len(log) : kv[s] = machine[n]
    BY Zenon DEF KVInv, TypeInv, ReplicaInv, ReplicasAgree
  <2>4. OpOf(c).client = c
    BY Zenon, OpOfIs, OpFields
  <2>5. c \in DOMAIN machine[n].lastOps /\ machine[n].lastOps[c].op = OpOf(c)
    BY Zenon, <2>2, <2>3, <2>4 DEF IsLastOp
  <2>6. PICK value : value = machine[n].lastOps[c].value
    BY Zenon
  <2> QED
    BY Zenon, <1>1, <2>2, <2>3, <2>5, <2>6
<1>3. CASE leave(c)
  <2>0. PICK r, err : r = clerk[c].result /\ err = ErrOf(c)
    BY Zenon
  <2>1. clerk[c].pc = "woken" /\ Reply(c, err, r.value)
    BY Zenon, <1>3, <2>0 DEF leave
  <2>2. Executed(r)
    BY Zenon, <2>0, <2>1 DEF KVInv, ResultInv
  <2>3. err \in {"OK", "ErrNoKey"} => r.err \in {"OK", "ErrNoKey"} /\ r.op = OpOf(c)
    BY Zenon, <2>0, <2>1 DEF ErrOf, MissesAreOwn
  <2>4. OpOf(c).client = c
    BY Zenon, OpOfIs, OpFields
  <2>5. CASE err \in {"OK", "ErrNoKey"}
    <3>1. PICK n \in 0 .. Len(log) :
             /\ c \in DOMAIN machine[n].lastOps
             /\ machine[n].lastOps[c].op = OpOf(c)
             /\ OpOf(c).type = "Get" => r.value = machine[n].lastOps[c].value
      BY Zenon, <2>2, <2>3, <2>4, <2>5 DEF Executed
    <3> QED
      BY Zenon, <1>1, <2>1, <3>1
  <2>6. CASE err \notin {"OK", "ErrNoKey"}
    BY <2>1, <2>6, Zenon DEF Reply, Retry
  <2> QED
    BY Zenon, <2>5, <2>6
<1> QED
  BY Zenon, <1>2, <1>3

\* Every other step leaves the committed log and the answers alone.
LEMMA ServiceSteps ==
    ASSUME [Next]_vars
    PROVE  \/ \E s \in Server : Commit(s)
           \/ /\ \E c \in Client : AnswerAgain(c) \/ leave(c)
              /\ UNCHANGED <<log, machine>>
           \/ UNCHANGED <<log, machine, answers>>
<1>1. ASSUME NEW c \in Client, AnswerAgain(c) \/ leave(c) PROVE UNCHANGED <<log, machine>>
  BY <1>1, Zenon DEF AnswerAgain, leave, raftVars
<1>2. ASSUME NEW c \in Client, WrongLeader(c) PROVE UNCHANGED <<log, machine, answers>>
  <2>1. Reply(c, "ErrWrongLeader", Nothing) /\ UNCHANGED raftVars
    BY <1>2, Zenon DEF WrongLeader
  <2> QED
    BY Zenon, <2>1 DEF Reply, Retry, raftVars
<1>3. ASSUME NEW c \in Client, Propose(c) \/ timeout(c) \/ LoseRequest(c)
      PROVE  UNCHANGED <<log, machine, answers>>
  BY <1>3, Zenon DEF Propose, timeout, LoseRequest, Retry, raftVars
<1>4. ASSUME NEW s \in Server, NEW t \in Server,
             receiveApplyMsg(s) \/ readSnapshotL(s) \/ Replicate(s, t) \/ Crash(s)
      PROVE  UNCHANGED <<log, machine, answers>>
  BY <1>4, Zenon DEF receiveApplyMsg, readSnapshotL, Replicate, Crash, raftVars, clerkVars
<1>5. ASSUME NEW s \in Server, NEW c \in Client, sendResult(s, c) PROVE UNCHANGED <<log, machine, answers>>
  BY <1>5, Zenon DEF sendResult, raftVars
<1>6. CASE UNCHANGED vars
  BY Zenon, <1>6 DEF vars, raftVars, clerkVars
<1> QED
  BY Zenon, <1>1, <1>2, <1>3, <1>4, <1>5, <1>6 DEF Next

LEMMA NextKVInv ==
    ASSUME KVInv, MissesAreOwn, [Next]_vars
    PROVE  KVInv'
<1>1. TypeInv' /\ ResultInv' /\ EntryInv'
  BY Zenon, NextTypeInv, NextResultInv, NextEntryInv DEF KVInv, ServedInv
<1>2. CASE \E s \in Server : Commit(s)
  BY Zenon, <1>1, <1>2, CommitServed DEF KVInv, ServedInv
<1>3. CASE UNCHANGED <<log, machine>>
  <2>1. HistoryInv'
    BY ZenonT(40), <1>3 DEF KVInv, ServedInv, HistoryInv, Current
  <2>2. \A c \in Client : Served(c)' = Served(c)
    BY Zenon, <1>3 DEF Served, Current
  <2>3. CASE UNCHANGED answers
    BY Zenon, <1>1, <2>1, <2>2, <2>3 DEF KVInv, ServedInv
  <2>4. ASSUME NEW c \in Client, AnswerAgain(c) \/ leave(c) PROVE KVInv'
    <3>1. SUFFICES ASSUME Served(c) = Len(answers[c]) + 1,
                          answers' = [answers EXCEPT ![c] = Append(@, LastResult(c))]
                   PROVE  \A d \in Client : Len(answers'[d]) <= Served(d)
      BY Zenon, <1>1, <2>1, <2>2, <2>3, <2>4, AnswerStep DEF KVInv, ServedInv
    <3>2. /\ \A d \in Client : d # c => answers'[d] = answers[d]
          /\ answers'[c] = Append(answers[c], LastResult(c))
      BY Zenon, <3>1 DEF KVInv, TypeInv, CallsOK
    <3>3. Len(Append(answers[c], LastResult(c))) = Len(answers[c]) + 1 /\ Len(answers[c]) \in Nat
      BY DEF KVInv, TypeInv, CallsOK, IsSeq
    <3>4. Len(answers'[c]) <= Served(c)
      BY <3>1, <3>2, <3>3
    <3> QED
      BY Zenon, <3>2, <3>4 DEF KVInv, ServedInv
  <2> QED
    BY Zenon, <1>2, <2>3, <2>4, ServiceSteps
<1> QED
  BY Zenon, <1>2, <1>3, ServiceSteps

LEMMA InitKVInv == Init => KVInv
<1> SUFFICES ASSUME Init PROVE KVInv
  BY Zenon
<1>1. Len(Nothing) = 0 /\ DOMAIN Nothing = {}
  BY DEF Nothing
<1>2. Current = Empty /\ machine[0] = Empty /\ Empty.lastOps = Nothing /\ Len(log) = 0
  BY Zenon, <1>1 DEF Init, Current, Empty
<1>3. EntryInv
  BY <1>1 DEF Init, EntryInv, Entries
<1>4. HistoryInv
  BY <1>1, <1>2 DEF HistoryInv
<1>5. \A c \in Client : Len(answers[c]) <= Served(c)
  BY <1>1, <1>2 DEF Init, Served
<1>6. ResultInv
  BY Zenon DEF Init, ResultInv, Receiving, Sending
<1> QED
  BY Zenon, <1>3, <1>4, <1>5, <1>6, InitTypeInv DEF KVInv, ServedInv

\* What an execution leaves in the map and returns, as KVStore has it.
LEMMA ExecuteIsStep ==
    ASSUME NEW m, NEW op, NEW r, ~IsLastOp(m, op), op.type \in {"Put", "Append", "Get"},
           op.type = r.type, op.key = r.key, op.value = r.value
    PROVE  /\ applyOpL(m, op).kvMap = Store!Updated(m.kvMap, r)
           /\ (IF op.type = "Get" THEN OldValue(m, op) ELSE Nothing) = Store!Output(m.kvMap, r)
<1>1. OldValue(m, op) = Store!Read(m.kvMap, r.key) /\ Nothing = Store!Nothing
  BY Zenon DEF OldValue, Store!Read, Nothing, Store!Nothing
<1>2. \A f, k, v : Put(f, k, v) = Store!Put(f, k, v)
  BY Zenon DEF Put, Store!Put
<1>3. applyOpL(m, op).kvMap =
        CASE op.type = "Put"    -> Put(m.kvMap, op.key, op.value)
          [] op.type = "Append" -> Put(m.kvMap, op.key, OldValue(m, op) \o op.value)
          [] op.type = "Get"    -> m.kvMap
  BY Zenon DEF applyOpL
<1>4. CASE op.type = "Put"
  BY Zenon, <1>1, <1>2, <1>3, <1>4 DEF Store!Updated, Store!Output
<1>5. CASE op.type = "Append"
  BY Zenon, <1>1, <1>2, <1>3, <1>5 DEF Store!Updated, Store!Output
<1>6. CASE op.type = "Get"
  BY Zenon, <1>1, <1>3, <1>6 DEF Store!Updated, Store!Output
<1> QED
  BY Zenon, <1>4, <1>5, <1>6

LEMMA CommitIsExecute ==
    ASSUME KVInv, NEW s \in Server, Commit(s)
    PROVE  [Store!Next]_Store!storeVars
<1>0. PICK op, m, cur : op = rlog[s][Len(log) + 1] /\ m = Current' /\ cur = Current
  BY Zenon
<1>1. m = applyOpL(cur, op) /\ UNCHANGED answers
  BY Zenon, <1>0, CommitAdds DEF KVInv
<1>2. CASE IsLastOp(cur, op)
  <2>1. m = cur
    BY Zenon, <1>1, <1>2 DEF applyOpL
  <2>2. \A c \in Client : Served(c)' = Served(c) /\ LastResult(c)' = LastResult(c)
    BY Zenon, <1>0, <2>1 DEF Served, LastResult
  <2> QED
    BY Zenon, <1>0, <1>1, <2>1, <2>2 DEF Store!storeVars
<1>3. CASE ~IsLastOp(cur, op)
  <2>1. PICK c \in Client : c = op.client
    BY Zenon, <1>0, CommitCases DEF KVInv
  <2>2. op = OpOf(c) /\ Served(c) = Len(answers[c]) /\ Served(c) < Len(Script[c])
    BY Zenon, <1>0, <1>3, <2>1, CommitCases DEF KVInv
  <2>3. /\ DOMAIN m.lastOps = DOMAIN cur.lastOps \cup {c}
        /\ m.lastOps[c] = [op |-> op, value |-> OldValue(cur, op)]
        /\ \A d \in DOMAIN cur.lastOps : d # c => m.lastOps[d] = cur.lastOps[d]
    BY <1>1, <1>3, <2>1, ApplyNew, Zenon
  <2>4. op.id = Served(c)
    BY Zenon, <2>2, OpOfIs, OpFields
  <2>5. PICK r : r = Script[c][Served(c) + 1]
    BY Zenon
  <2>6. op.type = r.type /\ op.key = r.key /\ op.value = r.value
    BY Zenon, <2>2, <2>5 DEF OpOf
  <2>7. op.type \in {"Put", "Append", "Get"}
    <3>1. Len(answers[c]) \in Nat
      BY DEF KVInv, TypeInv, CallsOK, IsSeq
    <3>2. Served(c) + 1 \in 1 .. Len(Script[c])
      BY <2>2, <3>1, ScriptAssumption
    <3> QED
      BY Zenon, <2>5, <2>6, <3>2, ScriptAssumption
  <2>8. /\ m.kvMap = Store!Updated(cur.kvMap, r)
        /\ (IF op.type = "Get" THEN OldValue(cur, op) ELSE Nothing) = Store!Output(cur.kvMap, r)
    BY <1>1, <1>3, <2>6, <2>7, ExecuteIsStep, Zenon
  <2>9. Served(c)' = Served(c) + 1 /\ LastResult(c)' = Store!Output(cur.kvMap, r)
    BY <1>0, <2>3, <2>4, <2>8 DEF Served, LastResult
  <2>10. \A d \in Client : d # c => Served(d)' = Served(d) /\ LastResult(d)' = LastResult(d)
    BY Zenon, <1>0, <2>3 DEF Served, LastResult
  <2>11. /\ [d \in Client |-> Served(d)]' = [[d \in Client |-> Served(d)] EXCEPT ![c] = @ + 1]
         /\ [d \in Client |-> LastResult(d)]' =
               [[d \in Client |-> LastResult(d)] EXCEPT ![c] = Store!Output(cur.kvMap, r)]
    BY Zenon, <2>9, <2>10
  <2>12. [d \in Client |-> Served(d)][c] = Served(c)
    BY Zenon
  <2>13. Current.kvMap' = Store!Updated(Current.kvMap, r)
    BY Zenon, <1>0, <2>8
  <2>14. Store!Execute(c)
    BY Zenon, <1>0, <1>1, <2>2, <2>5, <2>11, <2>12, <2>13 DEF Store!Execute
  <2> QED
    BY Zenon, <2>14 DEF Store!Next
<1> QED
  BY Zenon, <1>2, <1>3

\* Outside waitApplyL's gap, the service is one map on which every operation of
\* a clerk takes effect once, between its call and its return, and every call
\* returns what its operation returned then, through retries, operations that
\* are committed twice, changes of leader, snapshots and restarts.  The
\* hypothesis is the comparison waitApplyL makes for OK and leaves out for
\* ErrNoKey; without it the conclusion is false (run MCMissingKey).
THEOREM ServiceImplementsStore == Spec /\ []MissesAreOwn => ImplementsStore
<1>1. Init => Store!Init
  <2> SUFFICES ASSUME Init PROVE Store!Init
    BY Zenon
  <2>1. Len(Nothing) = 0 /\ DOMAIN Nothing = {}
    BY DEF Nothing
  <2>2. Current = Empty /\ Empty.lastOps = Nothing /\ Empty.kvMap = Nothing
    BY Zenon, <2>1 DEF Init, Current, Empty
  <2>3. \A c \in Client : Served(c) = 0 /\ LastResult(c) = Nothing
    BY Zenon, <2>1, <2>2 DEF Served, LastResult
  <2>4. answers = [c \in Client |-> Nothing]
    BY Zenon DEF Init
  <2> QED
    BY Zenon, <2>2, <2>3, <2>4 DEF Store!Init, Store!Nothing, Nothing
<1>2. ASSUME KVInv, MissesAreOwn, [Next]_vars PROVE [Store!Next]_Store!storeVars
  <2>1. ASSUME UNCHANGED <<log, machine>>
        PROVE  /\ UNCHANGED Current
               /\ [d \in Client |-> Served(d)]' = [d \in Client |-> Served(d)]
               /\ [d \in Client |-> LastResult(d)]' = [d \in Client |-> LastResult(d)]
    BY Zenon, <2>1 DEF Current, Served, LastResult
  <2>2. CASE UNCHANGED <<log, machine, answers>>
    BY Zenon, <2>1, <2>2 DEF Store!storeVars
  <2>3. ASSUME NEW c \in Client, AnswerAgain(c) \/ leave(c), UNCHANGED <<log, machine>>
        PROVE  [Store!Next]_Store!storeVars
    <3>1. SUFFICES ASSUME Served(c) = Len(answers[c]) + 1,
                          answers' = [answers EXCEPT ![c] = Append(@, LastResult(c))]
                   PROVE  [Store!Next]_Store!storeVars
      BY Zenon, <1>2, <2>2, <2>3, AnswerStep
    <3>2. /\ [d \in Client |-> Served(d)][c] = Served(c)
          /\ [d \in Client |-> LastResult(d)][c] = LastResult(c)
      BY Zenon
    <3>3. Store!Answer(c)
      BY Zenon, <2>1, <2>3, <3>1, <3>2 DEF Store!Answer
    <3> QED
      BY Zenon, <3>3 DEF Store!Next
  <2> QED
    BY Zenon, <1>2, <2>2, <2>3, CommitIsExecute, ServiceSteps
<1> QED
  BY <1>1, <1>2, InitKVInv, NextKVInv, PTL DEF Spec, ImplementsStore, Store!Spec
=============================================================================
