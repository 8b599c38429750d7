----------------------------- MODULE RaftService -----------------------------
(***************************************************************************)
(* Snapshots, the apply goroutine and the leader's indices: the rest of    *)
(* the inductive invariant.                                                *)
(***************************************************************************)
EXTENDS RaftCommits

-----------------------------------------------------------------------------
(***************************************************************************)
(* Snapshots.                                                              *)
(***************************************************************************)

\* The commands of a snapshot are those of the log that it is moved under.
LEMMA ContentFollows ==
    ASSUME RaftInvariant, QuorumsMeet, ElectionInv', Grows, NEW j \in Server, NEW l \in Logs(j),
           NEW x, lastLogTerm(x) \in Term, Moves(j, l, x), NEW n \in Nat, Committed(j, l, n),
           NEW data, Content(data, n, lastLogTerm(l))
    PROVE  Content(data, n, lastLogTerm(x))'
  <1>1. n <= x.last /\ Same(lastLogTerm(l), lastLogTerm(x), n)
    BY Zenon, CommittedMoves
  <1>2. PICK w \in Term : w = lastLogTerm(x)
    BY Zenon
  <1>3. Content(data, n, w) /\ n <= ledger[w].last
    BY Zenon, <1>1, <1>2, ContentMoves DEF Same
  <1>4. LedgerOK /\ Extends /\ ledger[w].last \in Nat
    BY Zenon, LedgerType DEF RaftInvariant, LogInv, Grows
  <1>5. Content(data, n, w)'
    BY <1>3, <1>4, ContentGrows
  <1>6. QED
    BY Zenon, <1>2, <1>5

\* What the service has executed is what its log says, as far as it is committed.
LEMMA ExecutedContent ==
    ASSUME RaftInvariant, QuorumsMeet, NEW j \in Server, NEW l \in Logs(j), NEW n \in Nat,
           Committed(j, l, n), NEW cmds \in Seq(Command), Executed(cmds), Len(cmds) <= n
    PROVE  Content(cmds, Len(cmds), lastLogTerm(l))
  <1>0. LedgerOK /\ CommitsOK /\ lastLogTerm(l) \in Term /\ Len(cmds) \in Nat
    BY LogFacts DEF RaftInvariant, LogInv
  <1>1. PICK c \in commits : Len(cmds) <= c.index /\ Content(cmds, Len(cmds), c.term)
    BY Zenon DEF Executed
  <1>2. PICK d \in commits : n <= d.index /\ Same(lastLogTerm(l), d.term, n)
    BY Zenon DEF Committed
  <1>3. c.index \in Nat /\ d.index \in Nat /\ c.term \in Term /\ d.term \in Term
    BY Zenon, <1>0 DEF CommitsOK
  <1>4. Same(c.term, d.term, Len(cmds))
    BY <1>0, <1>1, <1>2, <1>3, CommitsAgree
  <1>5. Same(d.term, lastLogTerm(l), Len(cmds))
    BY <1>0, <1>2, <1>3, SameDown, SameSym
  <1>6. QED
    BY Zenon, <1>0, <1>1, <1>4, <1>5, SameTrans, ContentMoves

\* SnapshotsOK survives every step.
LEMMA NextSnapshotsOK ==
    ASSUME RaftInvariant, QuorumsMeet, CountsMajority, ElectionInv', Next
    PROVE  SnapshotsOK'
  <1>0. Grows /\ LedgerOK /\ CoverOK /\ SnapshotsOK /\ ApplyOK /\ LogTypeOK
    BY Zenon, NextGrows DEF RaftInvariant, LogInv
  <1> SUFFICES ASSUME NEW j \in Server
               PROVE  /\ snapshot'[j].index = log'[j].first
                      /\ snapshot'[j].term = log'[j].ent[log'[j].first].term
                      /\ Content(snapshot[j].data, log[j].first, lastLogTerm(log[j]))'
                      /\ Content(disk[j].data, disk[j].log.first, lastLogTerm(disk[j].log))'
    BY Zenon DEF SnapshotsOK
  <1>f. /\ log[j] \in Logs(j) /\ disk[j].log \in Logs(j) /\ commitIndex[j] \in Nat
        /\ \A l \in Logs(j) : /\ IsLog(l) /\ l.first \in Nat /\ l.last \in Nat
                              /\ lastLogTerm(l) \in Term /\ l.first <= l.last
        /\ Committed(j, log[j], commitIndex[j]) /\ \A l \in Logs(j) : Committed(j, l, l.first)
    BY Zenon, <1>0, LogFacts DEF Logs, LogTypeOK, CoverOK
  <1>s. /\ snapshot[j].index = log[j].first
        /\ snapshot[j].term = log[j].ent[log[j].first].term
        /\ Content(snapshot[j].data, log[j].first, lastLogTerm(log[j]))
        /\ Content(disk[j].data, disk[j].log.first, lastLogTerm(disk[j].log))
    BY Zenon, <1>0 DEF SnapshotsOK
  <1>x. lastLogTerm(log'[j]) \in Term /\ log'[j].first \in Nat
    BY Zenon, NextLogFacts DEF Logs
  <1>o. ASSUME NEW l \in Logs(j), NEW data, Content(data, l.first, lastLogTerm(l))
        PROVE  Content(data, l.first, lastLogTerm(l))'
    BY Zenon, <1>0, <1>f, <1>o, ContentFollows DEF Moves, Alike
  <1>1. CASE Restart(j)
    <2>1. /\ log'[j] = disk[j].log /\ disk'[j] = disk[j]
          /\ snapshot'[j] = [index |-> disk[j].log.first, data |-> disk[j].data,
                             term |-> disk[j].log.ent[disk[j].log.first].term]
      BY Zenon, <1>1, RestartEffect
    <2>2. PICK l \in Logs(j) : l = disk[j].log
      BY Zenon, <1>f
    <2>3. PICK data : data = disk[j].data
      BY Zenon
    <2>4. Content(data, l.first, lastLogTerm(l))'
      BY Zenon, <1>o, <1>s, <2>2, <2>3
    <2>5. QED
      BY <2>1, <2>2, <2>3, <2>4
  <1>2. CASE ~Restart(j)
    <2>0. PICK x, y : x = log'[j] /\ y = snapshot'[j]
      BY Zenon
    <2>x. Moves(j, log[j], x) /\ lastLogTerm(x) \in Term
      BY Zenon, <1>2, <1>x, <2>0, CopyStep
    <2>1. /\ y.index = x.first /\ y.term = x.ent[x.first].term
          /\ Content(y.data, x.first, lastLogTerm(x))'
      <3>1. CASE /\ log'[j].first = log[j].first /\ snapshot'[j] = snapshot[j]
                 /\ log'[j].ent[log[j].first].term = log[j].ent[log[j].first].term
        <4>1. y = snapshot[j] /\ x.first = log[j].first
          BY Zenon, <2>0, <3>1
        <4>2. Content(y.data, x.first, lastLogTerm(x))'
          BY Zenon, <1>0, <1>f, <1>s, <2>x, <4>1, ContentFollows
        <4>3. QED
          BY Zenon, <1>s, <2>0, <3>1, <4>1, <4>2
      <3>2. CASE Snapshot(j)
        <4>1. /\ service[j].index \in log[j].first..log[j].last /\ service[j].index <= commitIndex[j]
              /\ x = trimLogL(log[j], service[j].index)
              /\ y = [index |-> service[j].index, data |-> service[j].cmds,
                      term |-> log[j].ent[service[j].index].term]
          BY ZenonT(40), <2>0, <3>2, SnapshotEffect
        <4>2. x.first = service[j].index /\ x.ent[x.first] = log[j].ent[service[j].index]
          BY <1>f, <4>1, TrimOK
        <4>3. /\ service[j].cmds \in Seq(Command) /\ service[j].index = Len(service[j].cmds)
              /\ Executed(service[j].cmds) /\ service[j].index \in 0..commitIndex[j]
          BY <1>0, <1>f, <4>1 DEF LogTypeOK, ApplyOK, PeerApplyOK
        <4>4. Committed(j, log[j], x.first)
          BY Zenon, <1>0, <1>f, <4>2, <4>3, CommittedDown DEF RaftInvariant, LogInv
        <4>5. Content(y.data, x.first, lastLogTerm(log[j])) /\ x.first \in Nat
          <5>1. PICK cmds \in Seq(Command) : cmds = service[j].cmds
            BY Zenon, <4>3
          <5>2. x.first = Len(cmds) /\ x.first \in Nat /\ y.data = cmds /\ Executed(cmds)
            BY <4>1, <4>2, <4>3, <5>1
          <5>3. Len(cmds) <= x.first
            BY <5>2
          <5>4. QED
            BY Zenon, <1>f, <4>4, <5>2, <5>3, ExecutedContent
        <4>6. Content(y.data, x.first, lastLogTerm(x))'
          BY Zenon, <1>0, <1>f, <2>x, <4>4, <4>5, ContentFollows
        <4>7. QED
          BY Zenon, <4>1, <4>2, <4>6
      <3>3. CASE \E m \in msgs : InstallSnapshot(j, m) /\ m.snapshot.index > log[j].first
        <4>1. PICK m \in msgs : InstallSnapshot(j, m) /\ m.snapshot.index > log[j].first
          BY Zenon, <3>3
        <4>2. /\ x.first = m.snapshot.index /\ y = m.snapshot
              /\ x.ent[m.snapshot.index].term = m.snapshot.term
              /\ Same(lastLogTerm(x), m.term, m.snapshot.index)
          BY Zenon, <1>0, <2>0, <4>1, InstalledCommitted
        <4>3. InstallOK(m) /\ m.term \in Term /\ m.snapshot.index \in Nat
          BY Zenon, <4>1, InstallEffect DEF InstallOK, SnapshotType
        <4>4. PICK w \in Term : w = lastLogTerm(x)
          BY Zenon, <2>x
        <4>5. Content(y.data, x.first, w) /\ x.first <= ledger[w].last
          BY <4>2, <4>3, <4>4, SameSym, ContentMoves DEF InstallOK, Same
        <4>6. ledger[w].last \in Nat /\ Extends
          BY Zenon, <1>0, LedgerType DEF Grows
        <4>7. Content(y.data, x.first, w)'
          BY <1>0, <4>2, <4>3, <4>5, <4>6, ContentGrows
        <4>8. QED
          BY Zenon, <4>2, <4>4, <4>7
      <3>4. QED
        BY Zenon, <1>2, <3>1, <3>2, <3>3, CopyStep
    <2>2. Content(disk[j].data, disk[j].log.first, lastLogTerm(disk[j].log))'
      <3>1. CASE disk'[j].log = log'[j] /\ disk'[j].data = snapshot'[j].data
        BY Zenon, <2>0, <2>1, <3>1
      <3>2. CASE \/ disk'[j].log = disk[j].log /\ disk'[j].data = disk[j].data
                 \/ disk'[j].log = log[j] /\ disk'[j].data = snapshot[j].data
        <4>0. PICK data : data = disk'[j].data
          BY Zenon
        <4>1. PICK l \in Logs(j) : /\ disk'[j].log = l /\ disk'[j].data = data
                                   /\ Content(data, l.first, lastLogTerm(l))
          BY Zenon, <1>f, <1>s, <3>2, <4>0
        <4>2. Content(data, l.first, lastLogTerm(l))'
          BY Zenon, <1>o, <4>1
        <4>3. QED
          BY Zenon, <4>1, <4>2
      <3>3. QED
        BY Zenon, <1>2, <3>1, <3>2, CopyStep
    <2>3. QED
      BY Zenon, <2>0, <2>1, <2>2
  <1>3. QED
    BY Zenon, <1>1, <1>2

-----------------------------------------------------------------------------
(***************************************************************************)
(* The apply goroutine.                                                    *)
(***************************************************************************)

\* What was executed stays a prefix of what is committed.
LEMMA ExecutedGrows ==
    ASSUME RaftInvariant, Grows, NEW cmds, Executed(cmds)
    PROVE  Executed(cmds)'
  <1>0. LedgerOK /\ CommitsOK /\ Extends
    BY Zenon DEF RaftInvariant, LogInv, Grows
  <1>1. PICK c \in commits : Len(cmds) <= c.index /\ Content(cmds, Len(cmds), c.term)
    BY Zenon DEF Executed
  <1>2. /\ c.term \in Term /\ c.index \in Nat /\ c.index <= ledger[c.term].last
        /\ ledger[c.term].last \in Nat /\ Len(cmds) \in Nat
    BY <1>0, <1>1, LedgerType DEF CommitsOK, Has, Content
  <1>3. Content(cmds, Len(cmds), c.term)'
    BY <1>0, <1>1, <1>2, ContentGrows
  <1>4. QED
    BY Zenon, <1>1, <1>3 DEF Executed, Grows

\* A step that concerns the apply goroutine of j only by its signal.
Quiet(j) ==
    /\ service'[j] = service[j] /\ lastApplied'[j] = lastApplied[j]
    /\ applier'[j] = applier[j] \/ (/\ applier[j].pc = "wait"
                                    /\ applier'[j] = [applier[j] EXCEPT !.pc = "top"])

\* applySignalL executes nothing.
LEMMA SignalIsQuiet ==
    ASSUME LogTypeOK, NEW i \in Server, NEW j \in Server,
           UNCHANGED applier \/ applier' = applySignalL(i),
           UNCHANGED <<service, lastApplied>>
    PROVE  Quiet(j)
  <1>1. applier \in [Server -> [pc : {"top", "wait", "snap", "resume", "cmd", "check", "exited"},
                                index : Nat, data : Seq(Command)]]
    BY Zenon DEF LogTypeOK
  <1>2. CASE UNCHANGED applier
    BY Zenon, <1>2 DEF Quiet
  <1>3. CASE applier' = applySignalL(i)
    BY Zenon, <1>1, <1>3 DEF applySignalL, Quiet
  <1>4. QED
    BY Zenon, <1>2, <1>3

\* The steps that apply or execute something.
LEMMA ApplyKinds ==
    ASSUME RaftInvariant, Next, NEW j \in Server
    PROVE  Restart(j) \/ apply(j) \/ receiveApplyMsg(j) \/ Quiet(j)
  <1>0. /\ LogTypeOK /\ service = [i \in Server |-> service[i]]
        /\ lastApplied = [i \in Server |-> lastApplied[i]]
        /\ applier = [i \in Server |-> applier[i]]
    BY Zenon DEF RaftInvariant, LogInv, LogTypeOK
  <1>q. ASSUME UNCHANGED <<service, lastApplied, applier>> PROVE Quiet(j)
    BY Zenon, <1>q DEF Quiet
  <1>1. ASSUME NEW i \in Server, Step(i)
        PROVE  Restart(j) \/ apply(j) \/ receiveApplyMsg(j) \/ Quiet(j)
    <2>1. becomeCandidateL(i) => UNCHANGED <<service, lastApplied, applier>>
      BY Zenon DEF becomeCandidateL, applyVars
    <2>2. \A cmd \in Command : Start(i, cmd) => UNCHANGED <<service, lastApplied, applier>>
      BY Zenon DEF Start, applyVars
    <2>3. \A k \in Server : append(i, k) => UNCHANGED <<service, lastApplied, applier>>
      BY Zenon DEF append, applyVars
    <2>4. Snapshot(i) => UNCHANGED <<service, lastApplied, applier>>
      BY Zenon DEF Snapshot, applyVars
    <2>5. CASE i # j /\ apply(i)
      <3>1. /\ service' = service
            /\ applier' = [applier EXCEPT ![i] = applier'[i]]
            /\ lastApplied' = [lastApplied EXCEPT ![i] = lastApplied'[i]]
        BY Zenon, <1>0, <2>5 DEF apply, applyCommand, applySnapshotL
      <3>2. QED
        BY Zenon, <1>0, <2>5, <3>1 DEF Quiet
    <2>6. CASE i # j /\ receiveApplyMsg(i)
      BY Zenon, <1>0, <2>6 DEF receiveApplyMsg, Quiet
    <2>7. CASE i # j /\ Restart(i)
      BY Zenon, <1>0, <2>7 DEF Restart, Quiet
    <2>8. QED
      BY Zenon, <1>q, <1>1, <2>1, <2>2, <2>3, <2>4, <2>5, <2>6, <2>7 DEF Step
  <1>2. ASSUME NEW m \in msgs, Receive(m.dst, m)
        PROVE  Quiet(j)
    <2>0. m.dst \in Server
      BY Zenon DEF RaftInvariant, ElectionInv, ElectionTypeOK
    <2>1. RequestVote(m.dst, m) => UNCHANGED <<service, lastApplied, applier>>
      BY Zenon DEF RequestVote, applyVars
    <2>2. processRequestReplyL(m.dst, m) \/ processInstallReplyL(m.dst, m)
             => UNCHANGED <<service, lastApplied, applier>>
      BY Zenon DEF processRequestReplyL, processInstallReplyL, applyVars
    <2>3. AppendEntriesStale(m.dst, m) \/ InstallSnapshotStale(m.dst, m)
             => UNCHANGED <<service, lastApplied, applier>>
      BY Zenon DEF AppendEntriesStale, InstallSnapshotStale, applyVars
    <2>4. CASE \/ InstallSnapshot(m.dst, m) \/ AppendEntries(m.dst, m)
               \/ processAppendReplyL(m.dst, m)
      <3>1. /\ UNCHANGED <<service, lastApplied>>
            /\ UNCHANGED applier \/ applier' = applySignalL(m.dst)
        BY Zenon, <2>4 DEF InstallSnapshot, AppendEntries, processAppendReplyL, setCommitIndexL
      <3>2. QED
        BY Zenon, <1>0, <2>0, <3>1, SignalIsQuiet
    <2>5. QED
      BY Zenon, <1>2, <1>q, <2>1, <2>2, <2>3, <2>4 DEF Receive
  <1>3. QED
    BY Zenon, <1>1, <1>2 DEF Next

\* The commands up to a committed index may be executed.
LEMMA CommittedExecuted ==
    ASSUME RaftInvariant, NEW j \in Server, NEW l \in Logs(j), NEW n \in Nat, Committed(j, l, n),
           NEW data, Content(data, n, lastLogTerm(l))
    PROVE  Executed(data) /\ Len(data) = n
  <1>1. PICK c \in commits : n <= c.index /\ Same(lastLogTerm(l), c.term, n)
    BY Zenon DEF Committed
  <1>2. Content(data, n, c.term) /\ Len(data) = n
    BY <1>1, ContentMoves DEF Content
  <1>3. QED
    BY Zenon, <1>1, <1>2 DEF Executed

\* The entry that apply takes is the next command of what is committed.
LEMMA NextCommand ==
    ASSUME RaftInvariant, QuorumsMeet, NEW j \in Server, NEW index \in Nat,
           index = service[j].index + 1, index <= commitIndex[j], index > log[j].first
    PROVE  /\ log[j].ent[index].cmd \in Command
           /\ Executed(service[j].cmds \o <<log[j].ent[index].cmd>>)
  <1>0. /\ LedgerOK /\ CommitsOK /\ log[j] \in Logs(j) /\ commitIndex[j] \in Nat
        /\ Committed(j, log[j], commitIndex[j])
        /\ lastLogTerm(log[j]) \in Term /\ Within(log[j], lastLogTerm(log[j]))
        /\ log[j].first \in Nat /\ log[j].last \in Nat
    BY Zenon, LogFacts DEF Logs, RaftInvariant, LogInv, LogTypeOK, CoverOK
  <1>1. PICK cmds \in Seq(Command) : cmds = service[j].cmds
    BY Zenon DEF RaftInvariant, LogInv, LogTypeOK
  <1>2. index = Len(cmds) + 1 /\ Executed(cmds) /\ Len(cmds) \in Nat
    BY <1>1 DEF RaftInvariant, LogInv, ApplyOK, PeerApplyOK
  <1>3. Committed(j, log[j], index) /\ index <= log[j].last
    BY <1>0, CommittedDown DEF Committed
  <1>4. PICK w \in Term : w = lastLogTerm(log[j])
    BY Zenon, <1>0
  <1>5. Content(cmds, Len(cmds), w)
    BY <1>0, <1>2, <1>3, <1>4, ExecutedContent
  <1>6. PICK cmd : cmd = log[j].ent[index].cmd
    BY Zenon
  <1>7. cmd = ledger[w].ent[index].cmd /\ index <= ledger[w].last
    <2>1. index \in log[j].first..log[j].last
      BY <1>0, <1>3
    <2>2. Within(log[j], w) /\ ledger[w].last \in Nat
      BY Zenon, <1>0, <1>4, LedgerType
    <2>3. log[j].last <= ledger[w].last /\ log[j].ent[index] = ledger[w].ent[index]
      BY Zenon, <2>1, <2>2 DEF Within
    <2>4. index <= ledger[w].last
      BY <1>0, <1>3, <2>2, <2>3, SMTT(30)
    <2>5. QED
      BY Zenon, <1>6, <2>3, <2>4
  <1>8. cmd \in Command
    BY <1>0, <1>2, <1>7, LedgerType DEF LedgerOK
  <1>9. Content(cmds \o <<cmd>>, index, w)
    <2>1. /\ cmds \o <<cmd>> \in Seq(Command) /\ Len(cmds \o <<cmd>>) = index
          /\ (cmds \o <<cmd>>)[index] = cmd
          /\ \A k \in 1..Len(cmds) : (cmds \o <<cmd>>)[k] = cmds[k]
      BY <1>2, <1>8
    <2>2. \A k \in 1..index : k = index \/ k \in 1..Len(cmds)
      BY <1>2
    <2>3. QED
      BY Zenon, <1>5, <1>7, <2>1, <2>2 DEF Content
  <1>10. Executed(cmds \o <<cmd>>)
    BY Zenon, <1>0, <1>3, <1>4, <1>9, CommittedExecuted
  <1>11. QED
    BY Zenon, <1>1, <1>6, <1>8, <1>10

\* The states of the apply goroutine that apply leads to.
LEMMA ApplyCases ==
    ASSUME RaftInvariant, NEW j \in Server, apply(j)
    PROVE  /\ service' = service
           /\ \/ /\ snapshot[j].index > lastApplied[j]
                 /\ commitIndex'[j] = snapshot[j].index /\ lastApplied'[j] = snapshot[j].index
                 /\ applier'[j] = [pc |-> "snap", index |-> snapshot[j].index,
                                   data |-> snapshot[j].data]
              \/ /\ applier[j].pc \in {"top", "resume"} /\ commitIndex'[j] = commitIndex[j]
                 /\ commitIndex[j] > lastApplied[j] /\ lastApplied'[j] = lastApplied[j] + 1
                 /\ \/ applier'[j] = Idle("exited")
                    \/ /\ lastApplied[j] + 1 > log[j].first
                       /\ applier'[j] = [pc |-> "cmd", index |-> lastApplied[j] + 1,
                                         data |-> <<log[j].ent[lastApplied[j] + 1].cmd>>]
              \/ /\ applier[j].pc \in {"top", "resume", "check"} /\ commitIndex'[j] = commitIndex[j]
                 /\ lastApplied'[j] = lastApplied[j]
                 /\ applier'[j] \in {Idle("top"), Idle("wait")}
  <1>0. /\ commitIndex \in [Server -> Nat] /\ lastApplied \in [Server -> Nat]
        /\ applier = [i \in Server |-> applier[i]] /\ log[j].first \in Nat
    BY Zenon, LogFacts DEF RaftInvariant, LogInv, LogTypeOK, Logs
  <1>1. service' = service
    BY Zenon DEF apply
  <1>2. CASE applySnapshotL(j)
    BY Zenon, <1>0, <1>1, <1>2 DEF applySnapshotL, SnapshotIsAhead
  <1>3. ASSUME NEW pending, applyCommand(j, pending), UNCHANGED commitIndex,
               applier[j].pc \in {"top", "resume"}
        PROVE  \/ /\ commitIndex[j] > lastApplied[j] /\ lastApplied'[j] = lastApplied[j] + 1
                  /\ \/ applier'[j] = Idle("exited")
                     \/ /\ lastApplied[j] + 1 > log[j].first
                        /\ applier'[j] = [pc |-> "cmd", index |-> lastApplied[j] + 1,
                                          data |-> <<log[j].ent[lastApplied[j] + 1].cmd>>]
               \/ /\ lastApplied'[j] = lastApplied[j]
                  /\ applier'[j] \in {Idle("top"), Idle("wait")}
    BY <1>0, <1>3 DEF applyCommand, NextToApply
  <1>4. CASE applier[j].pc = "check" /\ ~applySnapshotL(j)
    <2>1. /\ applier' = [applier EXCEPT ![j] = Idle(
                 IF commitIndex[j] <= lastApplied[j] /\ ~applySnapshot[j]
                 THEN "wait" ELSE "top")]
          /\ UNCHANGED <<commitIndex, lastApplied>>
      BY Zenon, <1>4 DEF apply
    <2>2. QED
      BY Zenon, <1>0, <1>1, <1>4, <2>1
  <1>5. \/ applySnapshotL(j)
        \/ applier[j].pc = "check"
        \/ /\ applyCommand(j, FALSE) \/ applyCommand(j, applySnapshot[j])
           /\ UNCHANGED commitIndex /\ applier[j].pc \in {"top", "resume"}
    BY Zenon DEF apply
  <1>6. QED
    BY Zenon, <1>1, <1>2, <1>3, <1>4, <1>5

\* ApplyOK survives every step of the apply goroutine and of the service.
LEMMA NextApplyOK ==
    ASSUME RaftInvariant, QuorumsMeet, CountsMajority, ElectionInv', Next
    PROVE  ApplyOK'
  <1>0. Grows /\ LogTypeOK /\ CoverOK /\ SnapshotsOK /\ ApplyOK
    BY Zenon, NextGrows DEF RaftInvariant, LogInv
  <1> SUFFICES ASSUME NEW j \in Server PROVE PeerApplyOK(j)'
    BY Zenon DEF ApplyOK
  <1>p. PeerApplyOK(j)
    BY Zenon, <1>0 DEF ApplyOK
  <1>t. /\ commitIndex[j] \in Nat /\ lastApplied[j] \in Nat /\ service[j].index \in Nat
        /\ service[j].cmds \in Seq(Command) /\ applier[j].index \in Nat
        /\ applier[j].data \in Seq(Command) /\ snapshot[j].index \in Nat
        /\ applier[j] \in [pc : {"top", "wait", "snap", "resume", "cmd", "check", "exited"},
                           index : Nat, data : Seq(Command)]
        /\ service = [i \in Server |-> service[i]] /\ applier = [i \in Server |-> applier[i]]
        /\ log[j] \in Logs(j) /\ disk[j].log \in Logs(j)
        /\ \A l \in Logs(j) : l.first \in Nat
    BY Zenon, <1>0, LogFacts DEF LogTypeOK, SnapshotType, Logs
  <1>s. \A l \in Logs(j) : Committed(j, l, l.first)
    BY Zenon, <1>0 DEF CoverOK
  <1>g. \A cmds : Executed(cmds) => Executed(cmds)'
    BY Zenon, <1>0, ExecutedGrows
  <1>1. CASE Restart(j)
    <2>1. /\ lastApplied'[j] = disk[j].log.first /\ commitIndex'[j] = disk[j].log.first
          /\ service'[j] = [index |-> disk[j].log.first, cmds |-> disk[j].data]
          /\ applier'[j] = Idle("top")
      BY Zenon, <1>0, <1>1 DEF Restart, LogTypeOK
    <2>2. Executed(disk[j].data) /\ Len(disk[j].data) = disk[j].log.first
      BY <1>0, <1>s, <1>t, CommittedExecuted DEF SnapshotsOK
    <2>3. PICK data : data = disk[j].data
      BY Zenon
    <2>4. Executed(data)'
      BY Zenon, <1>g, <2>2, <2>3
    <2>5. QED
      BY <1>t, <2>1, <2>2, <2>3, <2>4 DEF PeerApplyOK, Idle
  <1>2. CASE receiveApplyMsg(j)
    <2>0. UNCHANGED <<commitIndex, lastApplied>>
      BY Zenon, <1>2 DEF receiveApplyMsg
    <2>1. PICK cmds : cmds = service'[j].cmds
      BY Zenon
    <2>2. CASE applier[j].pc = "snap"
      <3>1. /\ service'[j] = [index |-> applier[j].index, cmds |-> applier[j].data]
            /\ applier'[j] = Idle("resume")
        BY ZenonT(40), <1>2, <1>t, <2>2 DEF receiveApplyMsg
      <3>2. Executed(cmds)' /\ Len(cmds) = applier[j].index /\ applier[j].index = lastApplied[j]
        BY <1>g, <1>p, <2>1, <2>2, <3>1 DEF PeerApplyOK
      <3>3. QED
        BY <1>p, <1>t, <2>0, <2>1, <3>1, <3>2 DEF PeerApplyOK, Idle
    <2>3. CASE applier[j].pc = "cmd"
      <3>1. /\ service'[j] = [index |-> applier[j].index,
                              cmds |-> service[j].cmds \o applier[j].data]
            /\ applier'[j] = Idle("check")
        BY ZenonT(40), <1>2, <1>t, <2>3 DEF receiveApplyMsg
      <3>2. /\ Executed(cmds)' /\ applier[j].index = lastApplied[j]
            /\ applier[j].index = service[j].index + 1 /\ Len(applier[j].data) = 1
            /\ service[j].index = Len(service[j].cmds)
        BY <1>g, <1>p, <2>1, <2>3, <3>1 DEF PeerApplyOK
      <3>3. Len(cmds) = applier[j].index
        <4>1. PICK a \in Seq(Command), b \in Seq(Command) :
                 a = service[j].cmds /\ b = applier[j].data
          BY Zenon, <1>t
        <4>2. cmds = a \o b
          <5>1. PICK d : d = service[j].cmds \o applier[j].data
            BY Zenon
          <5>2. service'[j] = [index |-> applier[j].index, cmds |-> d]
            BY <3>1, <5>1, Zenon
          <5>3. service'[j].cmds = d
            BY <5>2
          <5>4. QED
            BY <2>1, <4>1, <5>1, <5>3, Zenon
        <4>3. Len(b) = 1 /\ applier[j].index = Len(a) + 1
          BY <3>2, <4>1, Zenon
        <4>4. Len(a \o b) = Len(a) + Len(b)
          OBVIOUS
        <4>5. QED
          BY <4>2, <4>3, <4>4, Zenon
      <3>4. QED
        BY <1>p, <1>t, <2>0, <2>1, <3>1, <3>2, <3>3 DEF PeerApplyOK, Idle
    <2>4. QED
      BY Zenon, <1>2, <2>2, <2>3 DEF receiveApplyMsg
  <1>3. CASE apply(j)
    <2>0. PICK cmds : cmds = service[j].cmds
      BY Zenon
    <2>1. service' = service /\ service'[j].cmds = cmds /\ Executed(cmds)'
      BY Zenon, <1>3, <1>g, <1>p, <2>0, ApplyCases DEF PeerApplyOK
    <2>2. CASE /\ snapshot[j].index > lastApplied[j]
               /\ commitIndex'[j] = snapshot[j].index /\ lastApplied'[j] = snapshot[j].index
               /\ applier'[j] = [pc |-> "snap", index |-> snapshot[j].index,
                                 data |-> snapshot[j].data]
      <3>1. PICK data : data = snapshot[j].data
        BY Zenon
      <3>2. snapshot[j].index = log[j].first /\ Executed(data) /\ Len(data) = log[j].first
        BY <1>0, <1>s, <1>t, <3>1, CommittedExecuted DEF SnapshotsOK
      <3>3. Executed(data)'
        BY Zenon, <1>g, <3>2
      <3>4. QED
        BY <1>p, <1>t, <2>1, <2>2, <3>1, <3>2, <3>3 DEF PeerApplyOK
    <2>3. CASE /\ applier[j].pc \in {"top", "resume"} /\ commitIndex'[j] = commitIndex[j]
               /\ commitIndex[j] > lastApplied[j] /\ lastApplied'[j] = lastApplied[j] + 1
               /\ applier'[j] = Idle("exited")
      BY <1>p, <1>t, <2>1, <2>3 DEF PeerApplyOK, Idle
    <2>4. CASE /\ applier[j].pc \in {"top", "resume"} /\ commitIndex'[j] = commitIndex[j]
               /\ commitIndex[j] > lastApplied[j] /\ lastApplied'[j] = lastApplied[j] + 1
               /\ lastApplied[j] + 1 > log[j].first
               /\ applier'[j] = [pc |-> "cmd", index |-> lastApplied[j] + 1,
                                 data |-> <<log[j].ent[lastApplied[j] + 1].cmd>>]
      <3>1. PICK index \in Nat : index = lastApplied[j] + 1
        BY <1>t
      <3>2. index = service[j].index + 1 /\ index <= commitIndex[j] /\ index > log[j].first
        BY <1>p, <1>t, <2>4, <3>1 DEF PeerApplyOK
      <3>3. Executed(cmds \o <<log[j].ent[index].cmd>>)
        BY Zenon, <2>0, <3>2, NextCommand
      <3>4. PICK data : data = <<log[j].ent[index].cmd>>
        BY Zenon
      <3>5. Executed(cmds \o data)' /\ Len(data) = 1
        BY ZenonT(40), <1>g, <3>3, <3>4
      <3>6. /\ applier'[j].pc = "cmd" /\ applier'[j].index = index /\ applier'[j].data = data
            /\ lastApplied'[j] = index /\ index <= commitIndex'[j]
            /\ service'[j].index <= index /\ service'[j].index = Len(service'[j].cmds)
            /\ index = service'[j].index + 1
        BY <1>p, <1>t, <2>1, <2>4, <3>1, <3>2, <3>4 DEF PeerApplyOK
      <3>7. QED
        BY Zenon, <2>1, <3>5, <3>6 DEF PeerApplyOK
    <2>5. CASE /\ applier[j].pc \in {"top", "resume", "check"} /\ commitIndex'[j] = commitIndex[j]
               /\ lastApplied'[j] = lastApplied[j] /\ applier'[j] \in {Idle("top"), Idle("wait")}
      BY <1>p, <1>t, <2>1, <2>5 DEF PeerApplyOK, Idle
    <2>6. QED
      BY Zenon, <1>3, <2>2, <2>3, <2>4, <2>5, ApplyCases
  <1>4. CASE Quiet(j) /\ ~apply(j) /\ ~Restart(j)
    <2>1. commitIndex'[j] \in Nat /\ commitIndex[j] <= commitIndex'[j]
      <3>1. CASE commitIndex'[j] = commitIndex[j]
        BY <1>t, <3>1
      <3>2. CASE \E c : Counts(j, c)
        BY <1>0, <1>t, <3>2 DEF Counts, LogTypeOK
      <3>3. CASE \E m \in msgs : /\ AppendEntries(j, m) /\ HearsCommit(j, m)
                                 /\ commitIndex'[j] = m.leaderCommit
        BY <1>t, <3>3, AppendEffect DEF HearsCommit, AppendOK
      <3>4. QED
        BY Zenon, <1>4, <3>1, <3>2, <3>3, CommitIndexStep
    <2>2. PICK cmds, data : cmds = service[j].cmds /\ data = applier[j].data
      BY Zenon
    <2>3. /\ Executed(cmds)'
          /\ applier[j].pc = "snap" => Executed(data)'
          /\ applier[j].pc = "cmd" => Executed(cmds \o data)'
      BY Zenon, <1>g, <1>p, <2>2 DEF PeerApplyOK
    <2>s. /\ service'[j] = service[j] /\ lastApplied'[j] = lastApplied[j]
          /\ lastApplied[j] <= commitIndex'[j]
      BY <1>4, <1>p, <1>t, <2>1 DEF PeerApplyOK, Quiet
    <2>4. CASE applier'[j] = applier[j]
      BY <1>p, <2>2, <2>3, <2>4, <2>s, Zenon DEF PeerApplyOK
    <2>5. CASE applier[j].pc = "wait" /\ applier'[j] = [applier[j] EXCEPT !.pc = "top"]
      <3>1. applier'[j].pc = "top"
        BY Zenon, <1>t, <2>5
      <3>2. service[j].index = lastApplied[j] /\ service[j].index = Len(service[j].cmds)
        BY Zenon, <1>p, <2>5 DEF PeerApplyOK
      <3>3. QED
        BY <1>t, <2>2, <2>3, <2>s, <3>1, <3>2 DEF PeerApplyOK
    <2>6. QED
      BY Zenon, <1>4, <2>4, <2>5 DEF Quiet
  <1>5. QED
    BY Zenon, <1>1, <1>2, <1>3, <1>4, ApplyKinds

-----------------------------------------------------------------------------
(***************************************************************************)
(* What a leader knows of the others.                                      *)
(***************************************************************************)

\* A leader was elected just now, or it led before and its log grew at one end.
LEMMA LeaderKinds ==
    ASSUME RaftInvariant, ElectionInv', Next, NEW j \in Server, role'[j] = "Leader"
    PROVE  \/ Wins(j)
           \/ /\ role[j] = "Leader" /\ currentTerm'[j] = currentTerm[j]
              /\ ~Restart(j) /\ \A m \in msgs : ~AppendEntries(j, m)
              /\ \/ log'[j] = log[j]
                 \/ \E cmd \in Command : Start(j, cmd)
                 \/ Snapshot(j)
  <1>1. ~Restart(j) /\ \A m \in msgs : ~AppendEntries(j, m)
    BY Zenon, RestartEffect, AppendEffect
  <1>2. CASE Still
    BY Zenon, <1>1, <1>2 DEF Still
  <1>3. ASSUME NEW i \in Server, Wins(i), i # j
        PROVE  role[j] = "Leader" /\ currentTerm'[j] = currentTerm[j] /\ log'[j] = log[j]
    BY <1>3, WinsFirst DEF RaftInvariant, ElectionInv, ElectionTypeOK
  <1>4. ASSUME NEW i \in Server,
               \/ \E cmd \in Command : Start(i, cmd)
               \/ Snapshot(i) \/ Restart(i)
               \/ \E m \in msgs : m.dst = i /\ AppendEntries(i, m)
               \/ \E m \in msgs : m.dst = i /\ InstallSnapshot(i, m)
        PROVE  /\ role[j] = "Leader" /\ currentTerm'[j] = currentTerm[j]
               /\ \/ log'[j] = log[j]
                  \/ \E cmd \in Command : Start(j, cmd)
                  \/ Snapshot(j)
    <2>1. Only(i)
      BY Zenon, <1>4, StartEffect, SnapshotEffect, RestartEffect, AppendEffect, InstallEffect
    <2>2. CASE i # j
      BY Zenon, <2>1, <2>2 DEF Only
    <2>3. CASE i = j
      BY Zenon, <1>1, <1>4, <2>3, StartEffect, SnapshotEffect, InstallEffect
    <2>4. QED
      BY Zenon, <2>2, <2>3
  <1>5. QED
    BY Zenon, <1>1, <1>2, <1>3, <1>4, StepKinds DEF RaftInvariant

\* Entries and snapshots are sent by append alone.
LEMMA NewLeaderMessage ==
    ASSUME RaftInvariant, Next, NEW m \in msgs' \ msgs,
           m.type \in {"AppendEntries", "InstallSnapshot"}
    PROVE  /\ m.src \in Server
           /\ \E k \in Server : append(m.src, k) /\ m = appendArgs(m.src, k)
  <1>1. \A i \in Server : becomeCandidateL(i) => m.type = "RequestVote"
    BY DEF becomeCandidateL, Send
  <1>2. \A i \in Server, k \in Server : appendArgs(i, k).src = i
    BY Zenon DEF appendArgs, makeAppendArgsL
  <1>3. \A i \in Server, r \in msgs : /\ appendReply(i, r).type = "AppendEntriesReply"
                                      /\ installReply(i, r).type = "InstallSnapshotReply"
    BY Zenon DEF appendReply, installReply
  <1>4. PICK i \in Server : \E k \in Server : append(i, k) /\ m = appendArgs(i, k)
    BY Zenon, <1>1, <1>3, SentKinds
  <1>5. QED
    BY Zenon, <1>2, <1>4

\* What a leader sends, and that nobody else sends in its term.
LEMMA SentByLeader ==
    ASSUME RaftInvariant, ElectionInv', Next, NEW j \in Server, role[j] = "Leader",
           NEW m \in msgs' \ msgs, m.type \in {"AppendEntries", "InstallSnapshot"},
           m.term = currentTerm[j]
    PROVE  /\ UNCHANGED <<log, commitIndex>>
           /\ m.type = "AppendEntries" => m.lastIndex = log[j].last
           /\ m.type = "InstallSnapshot" => m.snapshot.index = log[j].first
  <1>1. /\ m.src \in Server
        /\ \E k \in Server : append(m.src, k) /\ m = appendArgs(m.src, k)
    BY Zenon, NewLeaderMessage
  <1>2. PICK k \in Server : append(m.src, k) /\ m = appendArgs(m.src, k)
    BY Zenon, <1>1
  <1>a. \A i \in Server : appendArgs(i, k).term = currentTerm[i]
    BY Zenon DEF appendArgs, makeAppendArgsL
  <1>3. role[m.src] = "Leader" /\ m.term = currentTerm[m.src]
    BY <1>1, <1>2, <1>a, Zenon DEF append
  <1>4. m.src = j
    BY Zenon, <1>1, <1>3, OtherLeader DEF RaftInvariant
  <1>5. UNCHANGED <<log, commitIndex>>
    BY Zenon, <1>2 DEF append, persistent
  <1>6. snapshot[j].index = log[j].first
    BY Zenon DEF RaftInvariant, LogInv, SnapshotsOK
  <1>7. QED
    BY <1>2, <1>4, <1>5, <1>6 DEF appendArgs, makeAppendArgsL, LastSent

\* What moves nextIndex and matchIndex of a peer that stays leader.
LEMMA IndexKinds ==
    ASSUME RaftInvariant, Next, NEW j \in Server, role[j] = "Leader", role'[j] = "Leader"
    PROVE  \/ matchIndex'[j] = matchIndex[j] /\ nextIndex'[j] = nextIndex[j]
           \/ \E m \in msgs : m.dst = j /\ processAppendReplyL(j, m)
           \/ \E m \in msgs : m.dst = j /\ processInstallReplyL(j, m)
  <1>t. /\ matchIndex = [i \in Server |-> matchIndex[i]]
        /\ nextIndex = [i \in Server |-> nextIndex[i]]
    BY Zenon DEF RaftInvariant, LogInv, LogTypeOK
  <1>1. ASSUME NEW i \in Server, Step(i)
        PROVE  matchIndex'[j] = matchIndex[j] /\ nextIndex'[j] = nextIndex[j]
    <2>1. becomeCandidateL(i) => UNCHANGED leaderVars
      BY Zenon DEF becomeCandidateL
    <2>2. \A cmd \in Command : Start(i, cmd) => UNCHANGED leaderVars
      BY Zenon DEF Start
    <2>3. \A k \in Server : append(i, k) => UNCHANGED leaderVars
      BY Zenon DEF append
    <2>4. Snapshot(i) => UNCHANGED leaderVars
      BY Zenon DEF Snapshot
    <2>5. apply(i) \/ receiveApplyMsg(i) => UNCHANGED leaderVars
      BY Zenon DEF apply, receiveApplyMsg
    <2>6. CASE Restart(i)
      <3>1. i # j
        BY Zenon, <2>6, RestartEffect
      <3>2. QED
        BY Zenon, <1>t, <2>6, <3>1 DEF Restart
    <2>7. QED
      BY Zenon, <1>1, <2>1, <2>2, <2>3, <2>4, <2>5, <2>6 DEF Step, leaderVars
  <1>2. ASSUME NEW m \in msgs, Receive(m.dst, m), m.dst \in Server
        PROVE  \/ matchIndex'[j] = matchIndex[j] /\ nextIndex'[j] = nextIndex[j]
               \/ m.dst = j /\ processAppendReplyL(j, m)
               \/ m.dst = j /\ processInstallReplyL(j, m)
    <2>1. RequestVote(m.dst, m) => UNCHANGED leaderVars
      BY Zenon DEF RequestVote
    <2>2. AppendEntries(m.dst, m) \/ AppendEntriesStale(m.dst, m) => UNCHANGED leaderVars
      BY Zenon DEF AppendEntries, AppendEntriesStale
    <2>3. InstallSnapshot(m.dst, m) \/ InstallSnapshotStale(m.dst, m) => UNCHANGED leaderVars
      BY Zenon DEF InstallSnapshot, InstallSnapshotStale
    <2>4. CASE processRequestReplyL(m.dst, m)
      <3>1. m.dst # j
        BY Zenon, <2>4 DEF processRequestReplyL
      <3>2. UNCHANGED leaderVars \/ becomeLeaderL(m.dst)
        BY <2>4, Zenon DEF processRequestReplyL
      <3>3. QED
        BY Zenon, <1>t, <1>2, <3>1, <3>2 DEF becomeLeaderL, leaderVars
    <2>5. CASE m.dst # j /\ processAppendReplyL(m.dst, m)
      <3>1. \/ UNCHANGED leaderVars
            \/ updateMatchAndNextL(m.dst, m.src, m.lastIndex)
            \/ /\ nextIndex' = [nextIndex EXCEPT ![m.dst][m.src] = ConflictNext(m.dst, m)]
               /\ UNCHANGED matchIndex
        BY <2>5, Zenon DEF processAppendReplyL
      <3>2. QED
        BY Zenon, <1>t, <1>2, <2>5, <3>1 DEF updateMatchAndNextL, leaderVars
    <2>6. CASE m.dst # j /\ processInstallReplyL(m.dst, m)
      <3>1. UNCHANGED leaderVars \/ updateMatchAndNextL(m.dst, m.src, m.index)
        BY <2>6, Zenon DEF processInstallReplyL
      <3>2. QED
        BY Zenon, <1>t, <1>2, <2>6, <3>1 DEF updateMatchAndNextL, leaderVars
    <2>7. QED
      BY Zenon, <1>2, <2>1, <2>2, <2>3, <2>4, <2>5, <2>6 DEF Receive, leaderVars
  <1>3. \A m \in msgs : m.dst \in Server
    BY Zenon DEF RaftInvariant, ElectionInv, ElectionTypeOK
  <1>4. QED
    BY Zenon, <1>1, <1>2, <1>3 DEF Next

\* After a conflict the leader resumes inside its log, or just after it.
LEMMA ConflictNextOK ==
    ASSUME RaftInvariant, NEW i \in Server, NEW m \in msgs, m.type = "AppendEntriesReply",
           currentTerm[i] = m.argsTerm, role[i] = "Leader", ~m.success, m.term <= currentTerm[i]
    PROVE  ConflictNext(i, m) \in 0..(log[i].last + 1)
  <1> DEFINE minIndex == Max({m.conflictFirstIndex, log[i].first + 1})
             same == {k \in minIndex..(m.prevLogIndex - 1) : log[i].ent[k].term = m.conflictTerm}
  <1>1. /\ log[i].first \in Nat /\ log[i].last \in Nat /\ log[i].first <= log[i].last
        /\ log[i].last = ledger[currentTerm[i]].last
    BY Zenon, LogFacts, LeaderLog DEF Logs
  <1>2. /\ m.prevLogIndex \in 0..log[i].last
        /\ m.conflictTerm # NoTerm => m.prevLogIndex > 0
        /\ m.conflictFirstIndex \in 0..(log[i].last + 1)
    BY Zenon, <1>1 DEF RaftInvariant, LogInv, MessagesOK, MessageOK, AppendReplyOK
  <1>3. minIndex \in Nat /\ minIndex > 0
    <2>1. PICK S : S = {m.conflictFirstIndex, log[i].first + 1}
      BY Zenon
    <2>2. S \in SUBSET Nat /\ \A y \in S : y <= m.conflictFirstIndex + log[i].first + 1
      BY <1>1, <1>2, <2>1, SMTT(30)
    <2>3. Max(S) \in S /\ \A y \in S : y <= Max(S)
      BY <1>1, <1>2, <2>1, <2>2, MaxIs
    <2>4. QED
      BY <1>1, <2>1, <2>2, <2>3
  <1>4. CASE m.conflictTerm = NoTerm \/ m.conflictTerm > currentTerm[i]
    BY Zenon, <1>1, <1>2, <1>4 DEF ConflictNext
  <1>5. CASE ~(m.conflictTerm = NoTerm \/ m.conflictTerm > currentTerm[i]) /\ same # {}
    <2>1. same \in SUBSET Nat /\ \A y \in same : y <= m.prevLogIndex
      BY <1>1, <1>2, <1>3
    <2>p. m.prevLogIndex \in Nat
      BY <1>1, <1>2
    <2>2. Max(same) \in same
      BY Zenon, <1>5, <2>p, <2>1, MaxIs
    <2>3. ConflictNext(i, m) = Max(same) + 1
      BY Zenon, <1>5 DEF ConflictNext
    <2>4. Max(same) \in Nat /\ Max(same) <= m.prevLogIndex
      BY Zenon, <2>1, <2>2
    <2> HIDE DEF same
    <2>5. QED
      BY <1>1, <1>2, <2>3, <2>4, SMTT(30)
  <1>6. CASE ~(m.conflictTerm = NoTerm \/ m.conflictTerm > currentTerm[i]) /\ same = {}
    <2>1. ConflictNext(i, m) = Min({m.prevLogIndex - 1, minIndex - 1})
      BY Zenon, <1>6 DEF ConflictNext
    <2> HIDE DEF minIndex, same
    <2>2. PICK S : S = {m.prevLogIndex - 1, minIndex - 1}
      BY Zenon
    <2>3. S \in SUBSET Nat /\ S # {} /\ m.prevLogIndex - 1 \in S
      BY <1>2, <1>3, <1>6, <2>2
    <2>4. Min(S) \in S /\ \A y \in S : Min(S) <= y
      BY Zenon, <2>3, MinIs
    <2>5. Min(S) \in Nat /\ Min(S) <= m.prevLogIndex - 1
      BY Zenon, <2>3, <2>4
    <2>6. QED
      BY <1>1, <1>2, <2>1, <2>2, <2>5
  <1>7. QED
    BY Zenon, <1>4, <1>5, <1>6

\* nextIndex and matchIndex of a peer that stays leader, after a step.
LEMMA LeaderIndices ==
    ASSUME RaftInvariant, Next, NEW j \in Server, role[j] = "Leader", role'[j] = "Leader"
    PROVE  /\ matchIndex'[j] \in [Server -> Nat] /\ nextIndex'[j] \in [Server -> Nat]
           /\ matchIndex'[j][j] = 0
           /\ \A k \in Server :
                 /\ nextIndex'[j][k] <= log[j].last + 1
                 /\ \/ matchIndex'[j][k] = 0
                    \/ /\ AppendSent(currentTerm[j], matchIndex'[j][k])
                       /\ Acked(k, matchIndex'[j][k], currentTerm[j])
                    \/ InstallSent(currentTerm[j], matchIndex'[j][k])
  <1>0. /\ matchIndex \in [Server -> [Server -> Nat]] /\ nextIndex \in [Server -> [Server -> Nat]]
        /\ IndexOK /\ MessagesOK /\ log[j].last \in Nat /\ currentTerm[j] \in Term
        /\ log[j].last = ledger[currentTerm[j]].last
        /\ \A m \in msgs : m.src \in Server
    BY ZenonT(40), LogFacts, LeaderLog DEF Logs, RaftInvariant, LogInv, LogTypeOK, ElectionInv, ElectionTypeOK
  <1>1. CASE matchIndex'[j] = matchIndex[j] /\ nextIndex'[j] = nextIndex[j]
    BY ZenonT(40), <1>0, <1>1 DEF IndexOK
  <1>n. ASSUME NEW k \in Server, NEW n \in 0..log[j].last,
               nextIndex' = [nextIndex EXCEPT ![j][k] = IF n >= @ THEN n + 1 ELSE @]
        PROVE  /\ nextIndex'[j] \in [Server -> Nat]
               /\ \A i \in Server : nextIndex'[j][i] <= log[j].last + 1
    BY <1>0, <1>n DEF IndexOK
  <1>2. ASSUME NEW m \in msgs, m.dst = j, processAppendReplyL(j, m), m.success
        PROVE  /\ matchIndex'[j] \in [Server -> Nat] /\ nextIndex'[j] \in [Server -> Nat]
               /\ matchIndex'[j][j] = 0
               /\ \A k \in Server :
                     /\ nextIndex'[j][k] <= log[j].last + 1
                     /\ \/ matchIndex'[j][k] = 0
                        \/ /\ AppendSent(currentTerm[j], matchIndex'[j][k])
                           /\ Acked(k, matchIndex'[j][k], currentTerm[j])
                        \/ InstallSent(currentTerm[j], matchIndex'[j][k])
    <2>1. /\ m.type = "AppendEntriesReply" /\ currentTerm[j] = m.argsTerm
          /\ updateMatchAndNextL(j, m.src, m.lastIndex)
      BY Zenon, <1>2 DEF processAppendReplyL
    <2>2. AppendSent(currentTerm[j], m.lastIndex)
      BY ZenonT(40), <1>0, <2>1 DEF MessagesOK, MessageOK, AppendReplyOK
    <2>3. m.lastIndex \in 0..log[j].last
      BY <1>0, <2>2 DEF AppendSent, MessagesOK, MessageOK, AppendOK
    <2>4. /\ nextIndex'[j] \in [Server -> Nat]
          /\ \A i \in Server : nextIndex'[j][i] <= log[j].last + 1
      BY Zenon, <1>0, <1>n, <2>1, <2>3 DEF updateMatchAndNextL
    <2>5. QED
      BY Zenon, <1>2, <2>1, <2>4, MatchIsSent
  <1>3. ASSUME NEW m \in msgs, m.dst = j, processAppendReplyL(j, m), ~m.success
        PROVE  /\ matchIndex' = matchIndex /\ nextIndex'[j] \in [Server -> Nat]
               /\ \A k \in Server : nextIndex'[j][k] <= log[j].last + 1
    <2>1. /\ m.type = "AppendEntriesReply" /\ currentTerm[j] = m.argsTerm
          /\ \/ m.term > currentTerm[j] /\ becomeFollowerL(j, m.term)
             \/ /\ m.term <= currentTerm[j] /\ matchIndex' = matchIndex
                /\ nextIndex' = [nextIndex EXCEPT ![j][m.src] = ConflictNext(j, m)]
      BY Zenon, <1>3 DEF processAppendReplyL
    <2>2. ~becomeFollowerL(j, m.term)
      BY Zenon DEF becomeFollowerL, RaftInvariant, ElectionInv, ElectionTypeOK
    <2>3. ConflictNext(j, m) \in 0..(log[j].last + 1)
      BY Zenon, <1>3, <2>1, <2>2, ConflictNextOK
    <2>4. QED
      <3>1. PICK c : c = ConflictNext(j, m)
        BY Zenon
      <3>2. matchIndex' = matchIndex /\ nextIndex' = [nextIndex EXCEPT ![j][m.src] = c]
        BY Zenon, <2>1, <2>2, <3>1
      <3>3. \A k \in Server : nextIndex[j][k] <= log[j].last + 1
        BY Zenon, <1>0 DEF IndexOK
      <3>4. c \in Nat /\ c <= log[j].last + 1
        BY <1>0, <2>3, <3>1
      <3>5. QED
        BY <1>0, <3>2, <3>3, <3>4
  <1>4. ASSUME NEW m \in msgs, m.dst = j, processInstallReplyL(j, m)
        PROVE  /\ matchIndex'[j] \in [Server -> Nat] /\ nextIndex'[j] \in [Server -> Nat]
               /\ \A k \in Server : nextIndex'[j][k] <= log[j].last + 1
               /\ matchIndex'[j][j] = 0
               /\ \A k \in Server : \/ matchIndex'[j][k] = matchIndex[j][k]
                                    \/ InstallSent(currentTerm[j], matchIndex'[j][k])
    <2>1. m.type = "InstallSnapshotReply" /\ currentTerm[j] = m.argsTerm
      BY Zenon, <1>4 DEF processInstallReplyL
    <2>2. InstallSent(currentTerm[j], m.index) /\ m.src # j
      BY Zenon, <1>0, <1>4, <2>1 DEF MessagesOK, MessageOK, InstallReplyOK
    <2>3. m.index \in 0..log[j].last
      BY Zenon, <1>0, <2>2 DEF InstallSent, MessagesOK, MessageOK, InstallOK, Has
    <2>4. ~becomeFollowerL(j, m.term)
      BY Zenon DEF becomeFollowerL, RaftInvariant, ElectionInv, ElectionTypeOK
    <2>5. updateMatchAndNextL(j, m.src, m.index)
      BY Zenon, <1>4, <2>4 DEF processInstallReplyL
    <2>6. /\ nextIndex'[j] \in [Server -> Nat]
          /\ \A i \in Server : nextIndex'[j][i] <= log[j].last + 1
      BY Zenon, <1>0, <1>n, <2>3, <2>5 DEF updateMatchAndNextL
    <2>7. /\ matchIndex'[j] \in [Server -> Nat]
          /\ \A k \in Server : \/ matchIndex'[j][k] = matchIndex[j][k]
                               \/ k = m.src /\ matchIndex'[j][k] = m.index
      BY <1>0, <2>3, <2>5 DEF updateMatchAndNextL
    <2>8. QED
      BY Zenon, <1>0, <2>2, <2>6, <2>7 DEF IndexOK
  <1>6. QED
    BY Zenon, <1>0, <1>1, <1>2, <1>3, <1>4, IndexKinds DEF IndexOK

\* IndexOK survives every step: the leader's indices stay within its log.
LEMMA NextIndexOK ==
    ASSUME RaftInvariant, CountsMajority, ElectionInv', Next
    PROVE  IndexOK'
  <1>0. /\ Grows /\ LedgerOK /\ LogsOK /\ MessagesOK /\ IndexOK /\ ElectionInv
        /\ LeadersWereElected
    BY Zenon, NextGrows DEF RaftInvariant, LogInv, ElectionInv
  <1> DEFINE P(j, T, l, c, ms) ==
                 /\ \A m \in ms : m.type = "InstallSnapshot" /\ m.term = T =>
                       m.snapshot.index <= l.first
                 /\ l.ent[l.first].term = T => l.first <= c
                 /\ c < l.first => \A m \in ms : m.term = T =>
                       /\ m.type = "AppendEntries" => m.lastIndex >= l.first
                       /\ m.type = "InstallSnapshot" => m.snapshot.index >= l.first
  <1>p. \A j \in Server : role[j] = "Leader" =>
           P(j, currentTerm[j], log[j], commitIndex[j], msgs)
    BY Zenon, <1>0 DEF IndexOK
  <1> SUFFICES ASSUME NEW j \in Server, role'[j] = "Leader"
               PROVE  /\ matchIndex'[j][j] = 0
                      /\ \A k \in Server :
                            /\ nextIndex'[j][k] <= log'[j].last + 1
                            /\ \/ matchIndex'[j][k] = 0
                               \/ /\ AppendSent(currentTerm[j], matchIndex[j][k])'
                                  /\ Acked(k, matchIndex[j][k], currentTerm[j])'
                               \/ InstallSent(currentTerm[j], matchIndex[j][k])'
                      /\ P(j, currentTerm'[j], log'[j], commitIndex'[j], msgs')
    BY Zenon DEF IndexOK
  <1>t. /\ currentTerm[j] \in Term /\ log[j].first \in Nat /\ log[j].last \in Nat
        /\ log[j].first <= log[j].last
        /\ commitIndex[j] \in Nat /\ snapshot[j].index = log[j].first
    BY Zenon, LogFacts DEF Logs, RaftInvariant, LogInv, LogTypeOK, SnapshotsOK
  <1>1. CASE Wins(j)
    <2>1. /\ UNCHANGED <<currentTerm, log, commitIndex, msgs>> /\ ~Decided(currentTerm[j])
          /\ nextIndex'[j] = [k \in Server |-> log[j].last + 1]
          /\ matchIndex'[j] = [k \in Server |-> 0]
      BY Zenon, <1>0, <1>1, WinsFirst DEF Wins, becomeLeaderL, RaftInvariant, LogInv, LogTypeOK
    <2>2. \A m \in msgs : m.type \in {"AppendEntries", "InstallSnapshot"} =>
             m.term # currentTerm[j]
      BY <1>0, <2>1 DEF LeadersWereElected, Decided
    <2>3. log[j].ent[log[j].first].term # currentTerm[j]
      <3>1. PICK u : u = lastLogTerm(log[j])
        BY Zenon
      <3>2. /\ Within(log[j], u) /\ IsLog(log[j]) /\ u \in Term /\ u \in Nat
            /\ Has(u, log[j].last, u)
        BY Zenon, <3>1, LogFacts DEF Logs
      <3>3. u < currentTerm[j]
        BY Zenon, <1>0, <1>1, <3>1, WinsLedger
      <3>4. Has(u, log[j].first, log[j].ent[log[j].first].term)
        BY <1>0, <1>t, <3>2, EntryHas
      <3>5. PICK v : v = log[j].ent[log[j].first].term
        BY Zenon
      <3>6. v <= u /\ v \in Nat /\ currentTerm[j] \in Nat
        BY Zenon, <1>0, <1>t, <3>2, <3>4, <3>5, HasSame, TermIsNat
      <3>7. v # currentTerm[j]
        BY <3>2, <3>3, <3>6
      <3>8. QED
        BY Zenon, <3>5, <3>7
    <2>4. P(j, currentTerm[j], log[j], commitIndex[j], msgs)
      BY Zenon, <2>2, <2>3
    <2>5. QED
      BY <1>t, <2>1, <2>4
  <1>2. ASSUME role[j] = "Leader", currentTerm'[j] = currentTerm[j], ~Restart(j),
               \A m \in msgs : ~AppendEntries(j, m),
               \/ log'[j] = log[j]
               \/ \E cmd \in Command : Start(j, cmd)
               \/ Snapshot(j)
        PROVE  /\ matchIndex'[j][j] = 0
               /\ \A k \in Server :
                     /\ nextIndex'[j][k] <= log'[j].last + 1
                     /\ \/ matchIndex'[j][k] = 0
                        \/ /\ AppendSent(currentTerm[j], matchIndex[j][k])'
                           /\ Acked(k, matchIndex[j][k], currentTerm[j])'
                        \/ InstallSent(currentTerm[j], matchIndex[j][k])'
               /\ P(j, currentTerm'[j], log'[j], commitIndex'[j], msgs')
    <2>1. /\ matchIndex'[j] \in [Server -> Nat] /\ nextIndex'[j] \in [Server -> Nat]
          /\ matchIndex'[j][j] = 0
          /\ \A k \in Server :
                /\ nextIndex'[j][k] <= log[j].last + 1
                /\ \/ matchIndex'[j][k] = 0
                   \/ /\ AppendSent(currentTerm[j], matchIndex'[j][k])
                      /\ Acked(k, matchIndex'[j][k], currentTerm[j])
                   \/ InstallSent(currentTerm[j], matchIndex'[j][k])
      BY Zenon, <1>2, LeaderIndices
    <2>2. \/ log'[j] = log[j]
          \/ /\ \E cmd \in Command : Start(j, cmd)
             /\ log'[j].first = log[j].first /\ log'[j].last = log[j].last + 1
             /\ log'[j].ent[log[j].first] = log[j].ent[log[j].first]
             /\ commitIndex'[j] = commitIndex[j] /\ msgs' = msgs
          \/ /\ log'[j].first > log[j].first /\ log'[j].last = log[j].last
             /\ log'[j].first \in Nat
             /\ log'[j].first <= commitIndex[j] /\ commitIndex'[j] = commitIndex[j]
             /\ msgs' = msgs
      <3>1. CASE \E cmd \in Command : Start(j, cmd)
        <4>1. PICK cmd \in Command : Start(j, cmd)
          BY Zenon, <3>1
        <4>2. /\ log'[j].first = log[j].first /\ log'[j].last = log[j].last + 1
              /\ commitIndex' = commitIndex /\ msgs' = msgs
              /\ \A k \in log[j].first..log[j].last : log'[j].ent[k] = log[j].ent[k]
          BY ZenonT(40), <4>1, StartEffect
        <4>3. QED
          BY <1>t, <3>1, <4>2
      <3>2. CASE Snapshot(j)
        <4>1. PICK n : n = service[j].index
          BY Zenon
        <4>2. /\ n \in log[j].first..log[j].last /\ n > log[j].first /\ n <= commitIndex[j]
              /\ log'[j] = trimLogL(log[j], n) /\ commitIndex' = commitIndex /\ msgs' = msgs
          BY Zenon, <3>2, <4>1, SnapshotEffect
        <4>3. log'[j].first = n /\ log'[j].last = log[j].last
          BY <4>2 DEF trimLogL, MakeLog
        <4>4. QED
          BY <1>t, <4>2, <4>3
      <3>3. QED
        BY Zenon, <1>2, <3>1, <3>2
    <2>3. \A k \in Server : nextIndex'[j][k] <= log'[j].last + 1
      BY <1>t, <2>1, <2>2
    <2>4. ASSUME NEW k \in Server
          PROVE  \/ matchIndex'[j][k] = 0
                 \/ /\ AppendSent(currentTerm[j], matchIndex[j][k])'
                    /\ Acked(k, matchIndex[j][k], currentTerm[j])'
                 \/ InstallSent(currentTerm[j], matchIndex[j][k])'
      <3>1. PICK n, T : n = matchIndex'[j][k] /\ T = currentTerm[j]
        BY Zenon
      <3>2. \/ n = 0
            \/ AppendSent(T, n)' /\ Acked(k, n, T)'
            \/ InstallSent(T, n)'
        BY Zenon, <1>0, <2>1, <3>1 DEF Grows, AppendSent, Acked, InstallSent
      <3>3. QED
        BY <1>2, <3>1, <3>2, Zenon
    <2>5. P(j, currentTerm[j], log[j], commitIndex[j], msgs)
      BY Zenon, <1>2, <1>p
    <2>6. P(j, currentTerm[j], log'[j], commitIndex'[j], msgs')
      <3>1. CASE log'[j] = log[j]
        <4>1. \/ commitIndex'[j] = commitIndex[j]
              \/ commitIndex'[j] > commitIndex[j] /\ commitIndex'[j] > log[j].first
              \/ commitIndex'[j] = log[j].first
          <5>1. ASSUME NEW c, Counts(j, c)
                PROVE  commitIndex'[j] > commitIndex[j] /\ commitIndex'[j] > log[j].first
            BY Zenon, <5>1 DEF Counts, RaftInvariant, LogInv, LogTypeOK
          <5>2. QED
            BY Zenon, <1>t, <1>2, <5>1, CommitIndexStep
        <4>2. commitIndex'[j] \in Nat
          BY Zenon, <1>t, <1>2, CommitIndexStep DEF Counts, RaftInvariant, LogInv, LogTypeOK
        <4>3. ASSUME NEW m \in msgs' \ msgs, m.term = currentTerm[j]
              PROVE  /\ m.type = "AppendEntries" => m.lastIndex = log[j].last
                     /\ m.type = "InstallSnapshot" => m.snapshot.index = log[j].first
          BY Zenon, <1>2, <4>3, SentByLeader
        <4>4. QED
          BY <1>t, <2>5, <3>1, <4>1, <4>2, <4>3
      <3>2. CASE /\ \E cmd \in Command : Start(j, cmd)
                 /\ log'[j].first = log[j].first
                 /\ log'[j].ent[log[j].first] = log[j].ent[log[j].first]
                 /\ commitIndex'[j] = commitIndex[j] /\ msgs' = msgs
        BY Zenon, <1>t, <2>5, <3>2
      <3>3. CASE /\ log'[j].first > log[j].first /\ log'[j].first \in Nat
                 /\ log'[j].first <= commitIndex[j] /\ commitIndex'[j] = commitIndex[j]
                 /\ msgs' = msgs
        <4>1. \A m \in msgs : m.type = "InstallSnapshot" => m.snapshot.index \in Nat
          BY Zenon, <1>0 DEF MessagesOK, MessageOK, InstallOK, SnapshotType
        <4>2. QED
          BY <1>t, <2>5, <3>3, <4>1
      <3>4. QED
        BY Zenon, <2>2, <3>1, <3>2, <3>3
    <2> HIDE DEF P
    <2>7. QED
      BY <1>2, <2>1, <2>3, <2>4, <2>6, Zenon
  <1> HIDE DEF P
  <1>3. QED
    BY Zenon, <1>1, <1>2, LeaderKinds

-----------------------------------------------------------------------------
(***************************************************************************)
(* Types.                                                                  *)
(***************************************************************************)

\* Terms of entries, and the data on disk.
LEMMA LogTypes ==
    ASSUME RaftInvariant, NEW i \in Server
    PROVE  /\ log = [j \in Server |-> log[j]] /\ snapshot \in [Server -> SnapshotType]
           /\ \A l \in Logs(i) : \A k \in l.first..l.last : l.ent[k].term \in Nat
           /\ disk[i].data \in Seq(Command) /\ disk[i].log.first \in Nat
           /\ disk[i].log.ent[disk[i].log.first].term \in Nat
  <1>1. \A l \in Logs(i) : /\ l.first \in Nat /\ l.last \in Nat /\ l.first <= l.last
                           /\ l.ent \in [l.first..l.last -> LogEntry]
    BY Zenon, LogFacts DEF IsLog
  <1>2. \A l \in Logs(i) : \A k \in l.first..l.last : l.ent[k].term \in Nat
    BY Zenon, <1>1 DEF LogEntry
  <1>3. PICK d : d = disk[i].log
    BY Zenon
  <1>4. d.first \in Nat /\ d.ent[d.first].term \in Nat
    BY <1>1, <1>2, <1>3 DEF Logs
  <1>5. QED
    BY Zenon, <1>2, <1>3, <1>4 DEF RaftInvariant, LogInv, LogTypeOK, SnapshotsOK, Content

\* Logs and snapshots keep their types.
LEMMA NextLogShape ==
    ASSUME RaftInvariant, ElectionInv', Next
    PROVE  /\ log' = [j \in Server |-> log'[j]]
           /\ snapshot' \in [Server -> SnapshotType]
  <1>t. /\ log = [j \in Server |-> log[j]] /\ snapshot \in [Server -> SnapshotType]
        /\ service \in [Server -> [index : Nat, cmds : Seq(Command)]]
    BY Zenon DEF RaftInvariant, LogInv, LogTypeOK
  <1>1. CASE Still \/ \E i \in Server : Wins(i)
    BY Zenon, <1>t, <1>1 DEF Still, Wins
  <1>2. ASSUME NEW i \in Server, NEW cmd \in Command, Start(i, cmd)
        PROVE  /\ log' = [j \in Server |-> log'[j]]
               /\ snapshot' \in [Server -> SnapshotType]
    <2>1. log' = [log EXCEPT ![i] = log'[i]] /\ UNCHANGED snapshot
      BY Zenon, <1>t, <1>2 DEF Start
    <2>2. QED
      BY Zenon, <1>t, <2>1
  <1>3. ASSUME NEW i \in Server, Snapshot(i)
        PROVE  /\ log' = [j \in Server |-> log'[j]]
               /\ snapshot' \in [Server -> SnapshotType]
    <2>1. PICK n, s : n = service[i].index /\ s = snapshot'[i]
      BY Zenon
    <2>2. /\ log' = [log EXCEPT ![i] = log'[i]] /\ snapshot' = [snapshot EXCEPT ![i] = s]
      BY Zenon, <1>t, <1>3, <2>1 DEF Snapshot
    <2>3. /\ n \in log[i].first..log[i].last
          /\ s = [index |-> n, data |-> service[i].cmds, term |-> log[i].ent[n].term]
      BY Zenon, <1>3, <2>1, SnapshotEffect
    <2>4. n \in Nat /\ log[i].ent[n].term \in Nat /\ service[i].cmds \in Seq(Command)
      BY Zenon, <1>t, <2>1, <2>3, LogTypes DEF Logs
    <2>5. s \in SnapshotType
      BY Zenon, <2>3, <2>4 DEF SnapshotType
    <2>6. QED
      BY Zenon, <1>t, <2>2, <2>5
  <1>4. ASSUME NEW i \in Server, Restart(i)
        PROVE  /\ log' = [j \in Server |-> log'[j]]
               /\ snapshot' \in [Server -> SnapshotType]
    <2>1. PICK s : s = snapshot'[i]
      BY Zenon
    <2>2. log' = [log EXCEPT ![i] = log'[i]] /\ snapshot' = [snapshot EXCEPT ![i] = s]
      BY Zenon, <1>t, <1>4, <2>1 DEF Restart
    <2>3. s = [index |-> disk[i].log.first, data |-> disk[i].data,
               term |-> disk[i].log.ent[disk[i].log.first].term]
      BY Zenon, <1>4, <2>1, RestartEffect
    <2>4. s \in SnapshotType
      BY Zenon, <2>3, LogTypes DEF SnapshotType
    <2>5. QED
      BY Zenon, <1>t, <2>2, <2>4
  <1>5. ASSUME NEW i \in Server, NEW m \in msgs, AppendEntries(i, m)
        PROVE  /\ log' = [j \in Server |-> log'[j]]
               /\ snapshot' \in [Server -> SnapshotType]
    <2>1. log' = [log EXCEPT ![i] = log'[i]] /\ UNCHANGED snapshot
      BY Zenon, <1>t, <1>5 DEF AppendEntries
    <2>2. QED
      BY Zenon, <1>t, <2>1
  <1>6. ASSUME NEW i \in Server, NEW m \in msgs, InstallSnapshot(i, m)
        PROVE  /\ log' = [j \in Server |-> log'[j]]
               /\ snapshot' \in [Server -> SnapshotType]
    <2>1. m.snapshot \in SnapshotType
      BY Zenon, <1>6, InstallEffect DEF InstallOK
    <2>2. \/ UNCHANGED <<log, snapshot>>
          \/ log' = [log EXCEPT ![i] = log'[i]] /\ snapshot' = [snapshot EXCEPT ![i] = m.snapshot]
      BY Zenon, <1>t, <1>6 DEF InstallSnapshot
    <2>3. QED
      BY Zenon, <1>t, <2>1, <2>2
  <1>7. QED
    BY Zenon, <1>1, <1>2, <1>3, <1>4, <1>5, <1>6, StepKinds DEF RaftInvariant

\* The variables that are neither logs nor snapshots.
IndexTypeOK ==
    /\ commitIndex \in [Server -> Nat]
    /\ lastApplied \in [Server -> Nat]
    /\ nextIndex \in [Server -> [Server -> Nat]]
    /\ matchIndex \in [Server -> [Server -> Nat]]
    /\ applySnapshot \in [Server -> BOOLEAN]
    /\ applier \in [Server -> [pc : {"top", "wait", "snap", "resume", "cmd", "check", "exited"},
                               index : Nat, data : Seq(Command)]]
    /\ service \in [Server -> [index : Nat, cmds : Seq(Command)]]

\* applySignalL keeps the type of the apply goroutine.
LEMMA SignalType ==
    ASSUME IndexTypeOK, NEW i \in Server, UNCHANGED applier \/ applier' = applySignalL(i)
    PROVE  applier' \in [Server -> [pc : {"top", "wait", "snap", "resume", "cmd", "check", "exited"},
                                    index : Nat, data : Seq(Command)]]
  <1> DEFINE A == [pc : {"top", "wait", "snap", "resume", "cmd", "check", "exited"},
                   index : Nat, data : Seq(Command)]
  <1>1. applier \in [Server -> A]
    BY Zenon DEF IndexTypeOK
  <1>2. \A a \in A : [a EXCEPT !.pc = "top"] \in A
    BY Zenon
  <1>3. applier' = applier \/ applier' = [applier EXCEPT ![i] = [@ EXCEPT !.pc = "top"]]
    BY Zenon DEF applySignalL
  <1> HIDE DEF A
  <1>4. applier' \in [Server -> A]
    BY Zenon, <1>1, <1>2, <1>3
  <1>5. QED
    BY Zenon, <1>4 DEF A

\* A step of a peer keeps the types of its indices.
LEMMA StepIndexType ==
    ASSUME RaftInvariant, QuorumsMeet, IndexTypeOK, NEW i \in Server, Step(i)
    PROVE  IndexTypeOK'
  <1> DEFINE V == <<commitIndex, lastApplied, leaderVars, applyVars>>
  <1>0. UNCHANGED V => IndexTypeOK'
    BY Zenon DEF IndexTypeOK, leaderVars, applyVars
  <1>1. becomeCandidateL(i) => UNCHANGED V
    BY Zenon DEF becomeCandidateL
  <1>2. \A cmd \in Command : Start(i, cmd) => UNCHANGED V
    BY Zenon DEF Start
  <1>3. \A j \in Server : append(i, j) => UNCHANGED V
    BY Zenon DEF append
  <1>4. Snapshot(i) => UNCHANGED V
    BY Zenon DEF Snapshot
  <1>5. CASE apply(i)
    <2>1. /\ UNCHANGED <<leaderVars, service>>
          /\ \/ applySnapshot' = applySnapshot
             \/ applySnapshot' = [applySnapshot EXCEPT ![i] = FALSE]
      BY <1>5, Zenon DEF apply
    <2>2. /\ commitIndex' = [commitIndex EXCEPT ![i] = commitIndex'[i]]
          /\ lastApplied' = [lastApplied EXCEPT ![i] = lastApplied'[i]]
          /\ applier' = [applier EXCEPT ![i] = applier'[i]]
      <3>1. ASSUME NEW f, f \in {commitIndex, lastApplied, applier}, NEW g, NEW x,
                   g = f \/ g = [f EXCEPT ![i] = x]
            PROVE  g = [f EXCEPT ![i] = g[i]]
        BY Zenon, <3>1 DEF IndexTypeOK
      <3>2. commitIndex' = commitIndex \/ \E x : commitIndex' = [commitIndex EXCEPT ![i] = x]
        BY <1>5, Zenon DEF apply, applySnapshotL
      <3>3. lastApplied' = lastApplied \/ \E x : lastApplied' = [lastApplied EXCEPT ![i] = x]
        BY <1>5, Zenon DEF apply, applySnapshotL, applyCommand
      <3>4. applier' = applier \/ \E x : applier' = [applier EXCEPT ![i] = x]
        BY <1>5, Zenon DEF apply, applySnapshotL, applyCommand
      <3>5. QED
        BY Zenon, <3>1, <3>2, <3>3, <3>4
    <2>3. PeerApplyOK(i) /\ snapshot[i].index \in Nat /\ snapshot[i].data \in Seq(Command)
      BY Zenon DEF RaftInvariant, LogInv, ApplyOK, LogTypeOK, SnapshotType
    <2>4. ASSUME applier[i].pc \in {"top", "resume"}, commitIndex[i] > lastApplied[i],
                 lastApplied[i] + 1 > log[i].first
          PROVE  <<log[i].ent[lastApplied[i] + 1].cmd>> \in Seq(Command)
      <3>1. /\ lastApplied[i] + 1 = service[i].index + 1 /\ lastApplied[i] + 1 \in Nat
            /\ lastApplied[i] + 1 <= commitIndex[i]
        BY <2>3, <2>4 DEF PeerApplyOK, IndexTypeOK
      <3>2. log[i].ent[lastApplied[i] + 1].cmd \in Command
        BY Zenon, <2>4, <3>1, NextCommand
      <3>3. QED
        BY <3>2
    <2>5. /\ commitIndex'[i] \in Nat /\ lastApplied'[i] \in Nat
          /\ applier'[i] \in [pc : {"top", "wait", "snap", "resume", "cmd", "check", "exited"},
                              index : Nat, data : Seq(Command)]
      <3>1. commitIndex[i] \in Nat /\ lastApplied[i] \in Nat
        BY Zenon DEF IndexTypeOK
      <3>2. PICK n, d : n = lastApplied[i] + 1 /\ d = <<log[i].ent[lastApplied[i] + 1].cmd>>
        BY Zenon
      <3>3. n \in Nat
        BY <3>1, <3>2
      <3>s. /\ lastApplied'[i] = lastApplied[i] \/ lastApplied'[i] = n
                  \/ lastApplied'[i] = snapshot[i].index
            /\ commitIndex'[i] = commitIndex[i] \/ commitIndex'[i] = snapshot[i].index
        BY <1>5, <3>2, ApplyCases, Zenon
      <3>4. \/ applier'[i] = [pc |-> "snap", index |-> snapshot[i].index, data |-> snapshot[i].data]
            \/ applier'[i] \in {Idle("exited"), Idle("top"), Idle("wait")}
            \/ applier'[i] = [pc |-> "cmd", index |-> n, data |-> d] /\ d \in Seq(Command)
        BY Zenon, <1>5, <2>4, <3>2, ApplyCases
      <3>5. <<>> \in Seq(Command)
        OBVIOUS
      <3>6. applier'[i] \in [pc : {"top", "wait", "snap", "resume", "cmd", "check", "exited"},
                             index : Nat, data : Seq(Command)]
        <4>1. PICK s, e : s = snapshot[i].index /\ e = snapshot[i].data
          BY Zenon
        <4>2. s \in Nat /\ e \in Seq(Command)
          BY Zenon, <2>3, <4>1
        <4>3. CASE applier'[i] = [pc |-> "snap", index |-> s, data |-> e]
          BY <4>2, <4>3
        <4>4. CASE applier'[i] \in {Idle("exited"), Idle("top"), Idle("wait")}
          <5>1. \A p \in {"exited", "top", "wait"} :
                   Idle(p) \in [pc : {"top", "wait", "snap", "resume", "cmd", "check", "exited"},
                                index : Nat, data : Seq(Command)]
            BY Zenon, <3>5 DEF Idle
          <5>2. QED
            BY Zenon, <4>4, <5>1
        <4>5. CASE applier'[i] = [pc |-> "cmd", index |-> n, data |-> d] /\ d \in Seq(Command)
          BY <3>3, <4>5, SMTT(30)
        <4>6. QED
          BY Zenon, <3>4, <4>1, <4>3, <4>4, <4>5
      <3>7. QED
        BY Zenon, <2>3, <3>1, <3>3, <3>s, <3>6
    <2>6. QED
      BY Zenon, <2>1, <2>2, <2>5 DEF IndexTypeOK, leaderVars
  <1>6. CASE receiveApplyMsg(i)
    <2>1. /\ UNCHANGED <<commitIndex, lastApplied, leaderVars, applySnapshot>>
          /\ applier' = [applier EXCEPT ![i] =
                 Idle(IF applier[i].pc = "snap" THEN "resume" ELSE "check")]
          /\ service' = [service EXCEPT ![i] =
                 [index |-> applier[i].index,
                  cmds  |-> IF applier[i].pc = "snap" THEN applier[i].data
                            ELSE @.cmds \o applier[i].data]]
      BY <1>6, Zenon DEF receiveApplyMsg
    <2>2. /\ applier[i].index \in Nat /\ applier[i].data \in Seq(Command)
          /\ service[i].cmds \in Seq(Command)
      BY Zenon DEF IndexTypeOK
    <2>3. PICK d : d = IF applier[i].pc = "snap" THEN applier[i].data
                       ELSE service[i].cmds \o applier[i].data
      BY Zenon
    <2>4. d \in Seq(Command)
      BY <2>2, <2>3
    <2>5. service' = [service EXCEPT ![i] = [index |-> applier[i].index, cmds |-> d]]
      BY Zenon, <2>1, <2>3
    <2>6. service' \in [Server -> [index : Nat, cmds : Seq(Command)]]
      BY Zenon, <2>2, <2>4, <2>5 DEF IndexTypeOK
    <2>7. QED
      BY <2>1, <2>6 DEF IndexTypeOK, Idle, leaderVars
  <1>7. CASE Restart(i)
    <2>1. disk[i].data \in Seq(Command) /\ disk[i].log.first \in Nat
      BY Zenon, LogTypes
    <2>2. PICK n, d : n = disk[i].log.first /\ d = disk[i].data
      BY Zenon
    <2>3. /\ commitIndex' = [commitIndex EXCEPT ![i] = n]
          /\ lastApplied' = [lastApplied EXCEPT ![i] = n]
          /\ nextIndex' = [nextIndex EXCEPT ![i] = [j \in Server |-> 0]]
          /\ matchIndex' = [matchIndex EXCEPT ![i] = [j \in Server |-> 0]]
          /\ applySnapshot' = [applySnapshot EXCEPT ![i] = FALSE]
      BY Zenon, <1>7, <2>2 DEF Restart
    <2>4. /\ applier' = [applier EXCEPT ![i] = Idle("top")]
          /\ service' = [service EXCEPT ![i] = [index |-> n, cmds |-> d]]
      BY Zenon, <1>7, <2>2 DEF Restart
    <2>5. service' \in [Server -> [index : Nat, cmds : Seq(Command)]]
      BY Zenon, <2>1, <2>2, <2>4 DEF IndexTypeOK
    <2>6. applier' \in [Server -> [pc : {"top", "wait", "snap", "resume", "cmd", "check", "exited"},
                                   index : Nat, data : Seq(Command)]]
      BY <2>4 DEF IndexTypeOK, Idle
    <2>7. QED
      BY Zenon, <2>1, <2>2, <2>3, <2>5, <2>6 DEF IndexTypeOK
  <1>8. QED
    BY Zenon, <1>0, <1>1, <1>2, <1>3, <1>4, <1>5, <1>6, <1>7 DEF Step

\* becomeLeaderL replaces a row of nextIndex and of matchIndex.
LEMMA RowType ==
    ASSUME NEW f \in [Server -> [Server -> Nat]], NEW i \in Server, NEW r \in [Server -> Nat]
    PROVE  [f EXCEPT ![i] = r] \in [Server -> [Server -> Nat]]
  <1>1. PICK R : R = [Server -> Nat]
    BY Zenon
  <1>2. f \in [Server -> R] /\ r \in R
    BY Zenon, <1>1
  <1>3. [f EXCEPT ![i] = r] \in [Server -> R]
    BY Zenon, <1>2
  <1>4. QED
    BY Zenon, <1>1, <1>3

\* A reply replaces one cell of nextIndex and of matchIndex.
LEMMA CellType ==
    ASSUME NEW f \in [Server -> [Server -> Nat]], NEW i \in Server, NEW j \in Server, NEW n \in Nat
    PROVE  [f EXCEPT ![i][j] = n] \in [Server -> [Server -> Nat]]
  <1>1. [f[i] EXCEPT ![j] = n] \in [Server -> Nat]
    BY Zenon
  <1>2. [f EXCEPT ![i] = [f[i] EXCEPT ![j] = n]] \in [Server -> [Server -> Nat]]
    BY Zenon, <1>1, RowType
  <1>3. [f EXCEPT ![i][j] = n] = [f EXCEPT ![i] = [f[i] EXCEPT ![j] = n]]
    BY Zenon
  <1>4. QED
    BY Zenon, <1>2, <1>3

\* So does the receipt of a message.
LEMMA ReceiveIndexType ==
    ASSUME RaftInvariant, CountsMajority, IndexTypeOK, NEW m \in msgs, NEW i \in Server,
           i = m.dst, Receive(i, m)
    PROVE  IndexTypeOK'
  <1> DEFINE V == <<commitIndex, lastApplied, leaderVars, applyVars>>
  <1>0. /\ UNCHANGED V => IndexTypeOK'
        /\ MessagesOK /\ m.src \in Server
    BY Zenon DEF IndexTypeOK, leaderVars, applyVars, RaftInvariant, LogInv, ElectionInv, ElectionTypeOK
  <1>1. RequestVote(i, m) => UNCHANGED V
    BY Zenon DEF RequestVote
  <1>2. AppendEntriesStale(i, m) => UNCHANGED V
    BY Zenon DEF AppendEntriesStale
  <1>3. InstallSnapshotStale(i, m) => UNCHANGED V
    BY Zenon DEF InstallSnapshotStale
  <1>n. ASSUME NEW n \in Nat, updateMatchAndNextL(i, m.src, n)
        PROVE  /\ nextIndex' \in [Server -> [Server -> Nat]]
               /\ matchIndex' \in [Server -> [Server -> Nat]]
    <2>1. /\ nextIndex \in [Server -> [Server -> Nat]] /\ matchIndex \in [Server -> [Server -> Nat]]
          /\ n + 1 \in Nat
      BY DEF IndexTypeOK
    <2>2. nextIndex' = [nextIndex EXCEPT ![i][m.src] = n + 1] \/ nextIndex' = nextIndex
      BY Zenon, <1>0, <1>n, <2>1 DEF updateMatchAndNextL
    <2>3. matchIndex' = [matchIndex EXCEPT ![i][m.src] = n] \/ matchIndex' = matchIndex
      BY Zenon, <1>0, <1>n, <2>1 DEF updateMatchAndNextL
    <2>4. [nextIndex EXCEPT ![i][m.src] = n + 1] \in [Server -> [Server -> Nat]]
      BY <1>0, <2>1, CellType, Zenon
    <2>5. [matchIndex EXCEPT ![i][m.src] = n] \in [Server -> [Server -> Nat]]
      BY <1>0, <2>1, CellType, Zenon
    <2>6. QED
      BY <2>1, <2>2, <2>3, <2>4, <2>5, Zenon
  <1>4. CASE processRequestReplyL(i, m)
    <2>1. /\ UNCHANGED leaderVars \/ becomeLeaderL(i)
          /\ UNCHANGED <<commitIndex, lastApplied, applyVars>>
      BY <1>4, Zenon DEF processRequestReplyL
    <2>2. log[i].last + 1 \in Nat
      BY LogFacts DEF Logs
    <2>3. /\ [j \in Server |-> log[i].last + 1] \in [Server -> Nat]
          /\ [j \in Server |-> 0] \in [Server -> Nat]
      BY Zenon, <2>2
    <2>4. /\ nextIndex' \in [Server -> [Server -> Nat]]
          /\ matchIndex' \in [Server -> [Server -> Nat]]
      <3>1. nextIndex \in [Server -> [Server -> Nat]] /\ matchIndex \in [Server -> [Server -> Nat]]
        BY Zenon DEF IndexTypeOK
      <3>2. CASE UNCHANGED leaderVars
        BY Zenon, <3>1, <3>2 DEF leaderVars
      <3>3. CASE becomeLeaderL(i)
        BY <2>3, <3>1, <3>3, RowType, Zenon DEF becomeLeaderL
      <3>4. QED
        BY Zenon, <2>1, <3>2, <3>3
    <2>5. QED
      BY Zenon, <2>1, <2>4 DEF IndexTypeOK, applyVars
  <1>5. CASE AppendEntries(i, m)
    <2>1. /\ UNCHANGED <<lastApplied, leaderVars, applySnapshot, service>>
          /\ applier' = applier \/ applier' = applySignalL(i)
      BY <1>5, Zenon DEF AppendEntries
    <2>2. \/ commitIndex' = [commitIndex EXCEPT ![i] = @]
          \/ commitIndex' = [commitIndex EXCEPT ![i] = m.leaderCommit]
      BY Zenon, <1>5, HeardCommit DEF AppendEntries, HearsCommit
    <2>3. m.leaderCommit \in Nat
      BY Zenon, <1>5, AppendEffect DEF AppendOK
    <2>4. commitIndex' \in [Server -> Nat]
      BY Zenon, <2>2, <2>3 DEF IndexTypeOK
    <2>5. QED
      BY Zenon, <2>1, <2>4, SignalType DEF IndexTypeOK, leaderVars
  <1>6. CASE processAppendReplyL(i, m)
    <2>1. /\ m.type = "AppendEntriesReply" /\ currentTerm[i] = m.argsTerm /\ role[i] = "Leader"
          /\ UNCHANGED <<lastApplied, applySnapshot, service>>
      BY <1>6, Zenon DEF processAppendReplyL
    <2>2. commitIndex' \in [Server -> Nat]
      <3>1. CASE UNCHANGED commitIndex
        BY Zenon, <3>1 DEF IndexTypeOK
      <3>2. CASE \E c : Counts(i, c)
        BY Zenon, <3>2 DEF IndexTypeOK, Counts
      <3>3. QED
        BY Zenon, <1>6, <3>1, <3>2, CountStep
    <2>3. applier' = applier \/ applier' = applySignalL(i)
      BY Zenon, <1>6 DEF processAppendReplyL, setCommitIndexL
    <2>4. /\ nextIndex' \in [Server -> [Server -> Nat]]
          /\ matchIndex' \in [Server -> [Server -> Nat]]
      <3>1. \/ UNCHANGED leaderVars
            \/ updateMatchAndNextL(i, m.src, m.lastIndex)
            \/ /\ ~m.success /\ m.term <= currentTerm[i] /\ UNCHANGED matchIndex
               /\ nextIndex' = [nextIndex EXCEPT ![i][m.src] = ConflictNext(i, m)]
        BY <1>6, Zenon DEF processAppendReplyL
      <3>2. m.lastIndex \in Nat
        BY Zenon, <1>0, <2>1 DEF MessagesOK, MessageOK, AppendReplyOK, AppendSent, AppendOK
      <3>3. CASE /\ ~m.success /\ m.term <= currentTerm[i] /\ UNCHANGED matchIndex
                 /\ nextIndex' = [nextIndex EXCEPT ![i][m.src] = ConflictNext(i, m)]
        <4>1. PICK n : n = ConflictNext(i, m)
          BY Zenon
        <4>2. n \in 0..(log[i].last + 1) /\ log[i].last \in Nat
          BY Zenon, <2>1, <3>3, <4>1, ConflictNextOK, LogFacts DEF Logs
        <4>3. n \in Nat
          BY <4>2
        <4>4. QED
          BY Zenon, <1>0, <3>3, <4>1, <4>3, CellType DEF IndexTypeOK
      <3>4. QED
        BY Zenon, <1>n, <3>1, <3>2, <3>3 DEF IndexTypeOK, leaderVars
    <2>5. QED
      BY Zenon, <2>1, <2>2, <2>3, <2>4, SignalType DEF IndexTypeOK
  <1>7. CASE InstallSnapshot(i, m)
    <2>1. /\ UNCHANGED <<commitIndex, lastApplied, leaderVars, service>>
          /\ applier' = applier \/ applier' = applySignalL(i)
          /\ \/ applySnapshot' = applySnapshot
             \/ applySnapshot' = [applySnapshot EXCEPT ![i] = TRUE]
      BY <1>7, Zenon DEF InstallSnapshot
    <2>2. QED
      BY Zenon, <2>1, SignalType DEF IndexTypeOK, leaderVars
  <1>8. CASE processInstallReplyL(i, m)
    <2>1. /\ m.type = "InstallSnapshotReply"
          /\ UNCHANGED leaderVars \/ updateMatchAndNextL(i, m.src, m.index)
          /\ UNCHANGED <<commitIndex, lastApplied, applyVars>>
      BY <1>8, Zenon DEF processInstallReplyL
    <2>2. m.index \in Nat
      BY Zenon, <1>0, <2>1 DEF MessagesOK, MessageOK, InstallReplyOK, InstallSent, InstallOK, SnapshotType
    <2>3. QED
      BY Zenon, <1>n, <2>1, <2>2 DEF IndexTypeOK, leaderVars, applyVars
  <1>9. QED
    BY Zenon, <1>0, <1>1, <1>2, <1>3, <1>4, <1>5, <1>6, <1>7, <1>8 DEF Receive

\* LogTypeOK survives every step.
LEMMA NextLogTypeOK ==
    ASSUME RaftInvariant, QuorumsMeet, CountsMajority, ElectionInv', Next
    PROVE  LogTypeOK'
  <1>1. IndexTypeOK /\ \A m \in msgs : m.dst \in Server
    BY Zenon DEF RaftInvariant, LogInv, LogTypeOK, IndexTypeOK, ElectionInv, ElectionTypeOK
  <1>2. IndexTypeOK'
    BY Zenon, <1>1, StepIndexType, ReceiveIndexType DEF Next
  <1>3. \A i \in Server : IsLog(log'[i]) /\ IsLog(disk'[i].log)
    BY Zenon, NextLogFacts DEF Logs
  <1>4. QED
    BY Zenon, <1>2, <1>3, NextLogShape DEF LogTypeOK, IndexTypeOK, IsLog
=============================================================================
