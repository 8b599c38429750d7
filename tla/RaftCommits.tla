----------------------------- MODULE RaftCommits -----------------------------
(***************************************************************************)
(* What is committed stays: the rest of the inductive invariant.  The      *)
(* commit index of a leader counts peers that keep the entry and vote for  *)
(* no candidate without it; what peers know to be committed, and what the  *)
(* services execute, follows from that.                                    *)
(***************************************************************************)
EXTENDS RaftLogs

-----------------------------------------------------------------------------
(***************************************************************************)
(* What setCommitIndexL counts.                                            *)
(***************************************************************************)

\* Only the reply to an AppendEntries that succeeded counts.
LEMMA CommitKinds ==
    ASSUME RaftInvariant, Next, commits' # commits
    PROVE  \E i \in Server : \E m \in msgs : m.dst = i /\ processAppendReplyL(i, m)
  <1>1. ASSUME NEW i \in Server, Step(i)
        PROVE  UNCHANGED commits
    <2>1. becomeCandidateL(i) => UNCHANGED commits
      BY Zenon DEF becomeCandidateL, history
    <2>2. \A cmd \in Command : Start(i, cmd) => UNCHANGED commits
      BY Zenon DEF Start
    <2>3. \A j \in Server : append(i, j) => UNCHANGED commits
      BY Zenon DEF append, history
    <2>4. Snapshot(i) \/ Restart(i) => UNCHANGED commits
      BY Zenon DEF Snapshot, Restart, history
    <2>5. apply(i) \/ receiveApplyMsg(i) => UNCHANGED commits
      BY Zenon DEF apply, receiveApplyMsg, history
    <2>6. QED
      BY Zenon, <1>1, <2>1, <2>2, <2>3, <2>4, <2>5 DEF Step
  <1>2. ASSUME NEW m \in msgs, Receive(m.dst, m)
        PROVE  processAppendReplyL(m.dst, m)
    <2>1. RequestVote(m.dst, m) => UNCHANGED commits
      BY Zenon DEF RequestVote, history
    <2>2. processRequestReplyL(m.dst, m) \/ processInstallReplyL(m.dst, m) => UNCHANGED commits
      BY Zenon DEF processRequestReplyL, processInstallReplyL, history
    <2>3. AppendEntries(m.dst, m) \/ AppendEntriesStale(m.dst, m) => UNCHANGED commits
      BY Zenon DEF AppendEntries, AppendEntriesStale, history
    <2>4. InstallSnapshot(m.dst, m) \/ InstallSnapshotStale(m.dst, m) => UNCHANGED commits
      BY Zenon DEF InstallSnapshot, InstallSnapshotStale, history
    <2>5. QED
      BY Zenon, <1>2, <2>1, <2>2, <2>3, <2>4 DEF Receive
  <1>3. PICK m \in msgs : processAppendReplyL(m.dst, m)
    BY Zenon, <1>1, <1>2 DEF Next
  <1>4. m.dst \in Server
    BY Zenon DEF RaftInvariant, ElectionInv, ElectionTypeOK
  <1>5. QED
    BY Zenon, <1>3, <1>4

\* Where a leader's matchIndex comes from, with the reply at hand counted.
LEMMA MatchIsSent ==
    ASSUME RaftInvariant, NEW i \in Server, NEW m \in msgs, m.dst = i,
           processAppendReplyL(i, m), m.success,
           updateMatchAndNextL(i, m.src, m.lastIndex)
    PROVE  /\ role[i] = "Leader" /\ matchIndex'[i] \in [Server -> Nat] /\ matchIndex'[i][i] = 0
           /\ \A j \in Server :
                 \/ matchIndex'[i][j] = 0
                 \/ /\ AppendSent(currentTerm[i], matchIndex'[i][j])
                    /\ Acked(j, matchIndex'[i][j], currentTerm[i])
                 \/ InstallSent(currentTerm[i], matchIndex'[i][j])
  <1>1. /\ m.type = "AppendEntriesReply" /\ currentTerm[i] = m.argsTerm /\ role[i] = "Leader"
    BY Zenon DEF processAppendReplyL
  <1>2. /\ AppendReplyOK(m) /\ m.src \in Server /\ m.src # i
        /\ matchIndex \in [Server -> [Server -> Nat]] /\ IndexOK /\ MessagesOK
    BY <1>1, Zenon DEF RaftInvariant, LogInv, MessagesOK, MessageOK, AppendReplyOK, ElectionInv,
                ElectionTypeOK, LogTypeOK
  <1>3. AppendSent(m.argsTerm, m.lastIndex) /\ m.lastIndex \in Nat
    BY Zenon, <1>2 DEF AppendReplyOK, AppendSent, MessagesOK, MessageOK, AppendOK
  <1>4. Acked(m.src, m.lastIndex, m.argsTerm)
    BY <1>1, <1>3 DEF Acked
  <1>5. matchIndex' = [matchIndex EXCEPT ![i][m.src] = IF m.lastIndex > @ THEN m.lastIndex ELSE @]
    BY Zenon DEF updateMatchAndNextL
  <1>6. /\ matchIndex'[i] \in [Server -> Nat]
        /\ \A j \in Server : \/ matchIndex'[i][j] = matchIndex[i][j]
                             \/ j = m.src /\ matchIndex'[i][j] = m.lastIndex
    BY Zenon, <1>2, <1>3, <1>5
  <1>7. matchIndex'[i][i] = 0
    BY Zenon, <1>1, <1>2, <1>6 DEF IndexOK
  <1>8. QED
    BY Zenon, <1>1, <1>2, <1>3, <1>4, <1>6, <1>7 DEF IndexOK

\* An entry that can be counted lies above the leader's snapshot, and so above
\* every snapshot it sent.
LEMMA CountedIsAbove ==
    ASSUME RaftInvariant, NEW i \in Server, role[i] = "Leader", NEW N \in Nat,
           CommitsNow(i, N),
           AppendSent(currentTerm[i], N) \/ InstallSent(currentTerm[i], N)
    PROVE  /\ N > log[i].first /\ N <= log[i].last
           /\ Has(currentTerm[i], N, currentTerm[i])
           /\ ~Shipped(N, currentTerm[i])
           /\ \A n \in Nat : n >= N => ~InstallSent(currentTerm[i], n)
  <1>0. /\ LedgerOK /\ IsLog(log[i]) /\ log[i].first \in Nat /\ log[i].last \in Nat
        /\ log[i].first <= log[i].last
        /\ currentTerm[i] \in Term /\ commitIndex[i] \in Nat
    BY LogFacts, Zenon DEF Logs, RaftInvariant, LogInv, LogTypeOK
  <1>1. N > commitIndex[i] /\ log[i].ent[N].term = currentTerm[i]
    BY Zenon DEF CommitsNow
  <1>2. /\ \A m \in msgs : m.type = "InstallSnapshot" /\ m.term = currentTerm[i] =>
              m.snapshot.index <= log[i].first /\ m.snapshot.index \in Nat
        /\ log[i].ent[log[i].first].term = currentTerm[i] => log[i].first <= commitIndex[i]
        /\ commitIndex[i] < log[i].first => N >= log[i].first
    BY ZenonT(40) DEF RaftInvariant, LogInv, IndexOK, MessagesOK, MessageOK, InstallOK, SnapshotType,
           AppendSent, InstallSent
  <1>3. N > log[i].first
    BY <1>0, <1>1, <1>2
  <1>4. \A n \in Nat : n >= N => ~InstallSent(currentTerm[i], n)
    BY <1>0, <1>2, <1>3 DEF InstallSent
  <1>5. ~Shipped(N, currentTerm[i])
    BY <1>0, <1>2, <1>3 DEF Shipped
  <1>6. N <= ledger[currentTerm[i]].last
    BY <1>4 DEF AppendSent, RaftInvariant, LogInv, MessagesOK, MessageOK, AppendOK
  <1>7. Within(log[i], currentTerm[i]) /\ log[i].last = ledger[currentTerm[i]].last
    BY Zenon, LeaderLog
  <1>8. N \in log[i].first..log[i].last
    BY <1>0, <1>3, <1>6, <1>7
  <1>9. Has(currentTerm[i], N, currentTerm[i])
    BY Zenon, <1>0, <1>1, <1>7, <1>8, EntryHas
  <1>10. QED
    BY <1>3, <1>4, <1>5, <1>8, <1>9

\* Leader i counts c: enough peers answer for the entry.
Counts(i, c) ==
    /\ role[i] = "Leader" /\ c.term = currentTerm[i]
    /\ c.index \in Nat /\ c.index > commitIndex[i]
    /\ c.index > log[i].first /\ c.index <= log[i].last
    /\ commitIndex' = [commitIndex EXCEPT ![i] = c.index]
    /\ c.quorum \subseteq Server
    /\ 2 * Cardinality(c.quorum) > Cardinality(Server)
    /\ \A s \in c.quorum : Pledged(s, c.index, c.term)
    /\ Has(c.term, c.index, c.term)
    /\ commits' = commits \cup {c}
    /\ UNCHANGED <<currentTerm, log, snapshot, disk, ledger>>

\* A reply that moves the commit index of the leader counts a majority.
LEMMA CountStep ==
    ASSUME RaftInvariant, CountsMajority, NEW i \in Server, NEW m \in msgs, m.dst = i,
           processAppendReplyL(i, m), ~(UNCHANGED <<commitIndex, commits>>)
    PROVE  \E c : Counts(i, c)
  <1>1. /\ m.success
        /\ updateMatchAndNextL(i, m.src, m.lastIndex)
        /\ setCommitIndexL(i, matchIndex'[i])
        /\ UNCHANGED <<currentTerm, votedFor, role, disk>>
    BY Zenon DEF processAppendReplyL
  <1>2. PICK match : match = matchIndex'[i]
    BY Zenon
  <1>3. /\ role[i] = "Leader" /\ match \in [Server -> Nat] /\ match[i] = 0
        /\ \A j \in Server :
              \/ match[j] = 0
              \/ AppendSent(currentTerm[i], match[j]) /\ Acked(j, match[j], currentTerm[i])
              \/ InstallSent(currentTerm[i], match[j])
    BY Zenon, <1>1, <1>2, MatchIsSent
  <1>4. PICK N : N = SortedAt(match, Cardinality(Server) \div 2 + 1)
    BY Zenon
  <1>5. /\ CommitsNow(i, N) /\ commitIndex' = [commitIndex EXCEPT ![i] = N]
        /\ commits' = commits \cup {[term |-> currentTerm[i], index |-> N,
                                     quorum |-> {i} \cup {j \in Server : match[j] >= N}]}
    BY Zenon, <1>1, <1>2, <1>4 DEF setCommitIndexL
  <1>6. /\ N \in {match[j] : j \in Server}
        /\ match[i] < N => 2 * Cardinality({i} \cup {j \in Server : match[j] >= N})
                               > Cardinality(Server)
    BY Zenon, <1>3, <1>4 DEF CountsMajority
  <1>7. N \in Nat /\ N > commitIndex[i] /\ commitIndex[i] \in Nat
    BY <1>3, <1>5, <1>6 DEF CommitsNow, RaftInvariant, LogInv, LogTypeOK
  <1>8. AppendSent(currentTerm[i], N) \/ InstallSent(currentTerm[i], N)
    BY <1>3, <1>6, <1>7
  <1>9. /\ N > log[i].first /\ N <= log[i].last
        /\ Has(currentTerm[i], N, currentTerm[i]) /\ ~Shipped(N, currentTerm[i])
        /\ \A n \in Nat : n >= N => ~InstallSent(currentTerm[i], n)
    BY Zenon, <1>3, <1>5, <1>7, <1>8, CountedIsAbove
  <1>10. ASSUME NEW j \in Server, match[j] >= N
         PROVE  Acked(j, N, currentTerm[i])
    <2>1. match[j] \in Nat /\ match[j] # 0
      BY <1>3, <1>7, <1>10
    <2>2. AppendSent(currentTerm[i], match[j]) /\ Acked(j, match[j], currentTerm[i])
      BY Zenon, <1>3, <1>9, <1>10, <2>1
    <2>3. PICK r \in msgs : /\ r.type = "AppendEntriesReply" /\ r.success /\ r.src = j
                            /\ r.argsTerm = currentTerm[i] /\ match[j] <= r.lastIndex
      BY Zenon, <2>2 DEF Acked
    <2>4. r.lastIndex \in Nat
      BY Zenon, <2>3 DEF RaftInvariant, LogInv, MessagesOK, MessageOK, AppendReplyOK, AppendSent, AppendOK
    <2>5. QED
      BY <1>7, <1>10, <2>1, <2>3, <2>4 DEF Acked
  <1>11. Led(i, currentTerm[i])
    BY Zenon, <1>3 DEF Led, RaftInvariant, ElectionInv, LeadersWereElected
  <1>12. PICK c : c = [term |-> currentTerm[i], index |-> N,
                       quorum |-> {i} \cup {j \in Server : match[j] >= N}]
    BY Zenon
  <1>p. \A s \in c.quorum : Pledged(s, c.index, c.term)
    BY Zenon, <1>9, <1>10, <1>11, <1>12 DEF Pledged
  <1>13. match[i] < N
    BY <1>3, <1>7
  <1>14. UNCHANGED <<log, snapshot, ledger>>
    BY Zenon DEF processAppendReplyL
  <1>15. Counts(i, c)
    BY Zenon, <1>1, <1>3, <1>5, <1>6, <1>7, <1>9, <1>12, <1>p, <1>13, <1>14 DEF Counts
  <1>16. QED
    BY Zenon, <1>15

\* commits grows only by what setCommitIndexL counts.
LEMMA NewCommit ==
    ASSUME RaftInvariant, CountsMajority, Next, NEW c \in commits' \ commits
    PROVE  \E i \in Server : Counts(i, c)
  <1>1. PICK i \in Server, m \in msgs : m.dst = i /\ processAppendReplyL(i, m)
    BY Zenon, CommitKinds
  <1>2. PICK d : Counts(i, d)
    BY Zenon, <1>1, CountStep
  <1>3. QED
    BY Zenon, <1>2 DEF Counts

\* CommitsOK survives every step.
LEMMA NextCommitsOK ==
    ASSUME RaftInvariant, CountsMajority, ElectionInv', Next
    PROVE  CommitsOK'
  <1>0. CommitsOK /\ Grows /\ LedgerOK
    BY Zenon, NextGrows DEF RaftInvariant, LogInv
  <1>1. ASSUME NEW c \in commits', c \in commits \/ c \notin commits
        PROVE  /\ c.term \in Term /\ c.index \in Nat /\ c.quorum \subseteq Server
               /\ c.term = 0 \/ Decided(c.term)
               /\ Has(c.term, c.index, c.term)
               /\ 2 * Cardinality(c.quorum) > Cardinality(Server)
    <2>1. CASE c \in commits
      BY Zenon, <1>0, <2>1 DEF CommitsOK
    <2>2. CASE c \notin commits
      BY Zenon, <2>2, NewCommit, LeaderLog, LogFacts DEF Counts
    <2>3. QED
      BY Zenon, <2>1, <2>2
  <1>2. \A c \in commits' : Has(c.term, c.index, c.term)' /\ (Decided(c.term) => Decided(c.term)')
    BY Zenon, <1>0, <1>1, HasGrows DEF Grows, Decided
  <1>3. QED
    BY Zenon, <1>1, <1>2 DEF CommitsOK

-----------------------------------------------------------------------------
(***************************************************************************)
(* Promises are kept.                                                      *)
(***************************************************************************)

\* A leader without the entry never gets it, so safety only shrinks.
LEMMA SafeBefore ==
    ASSUME LedgerOK, Grows, NEW t \in Term, NEW n \in Nat, NEW u, NEW w \in Nat, u \in Nat,
           w <= u, Safe(n, t, u)'
    PROVE  Safe(n, t, w)
  <1> SUFFICES ASSUME NEW v \in Term, t < v, v <= w, Decided(v)
               PROVE  Has(v, n, t)
    BY Zenon DEF Safe
  <1>0. v \in Nat /\ t \in Nat /\ ledger[v].last \in Nat
    BY Zenon, TermIsNat, LedgerType
  <1>1. Has(v, n, t)'
    BY <1>0 DEF Safe, Decided, Grows
  <1>2. n <= ledger[v].last
    BY <1>0, <1>1 DEF Has, Grows, Extends
  <1>3. ledger'[v].ent[n] = ledger[v].ent[n]
    BY <1>0, <1>2 DEF Grows, Extends
  <1>4. QED
    BY <1>0, <1>1, <1>2, <1>3 DEF Has

\* What a peer comes to answer for, it does as a leader or as a follower of the
\* term of the entry.
LEMMA NewPledge ==
    ASSUME RaftInvariant, CountsMajority, ElectionInv', Next, NEW s \in Server, NEW t \in Term,
           NEW n, Pledged(s, n, t)', ~Pledged(s, n, t)
    PROVE  /\ ~Shipped(n, t)'
           /\ \/ \E cmd \in Command : /\ Start(s, cmd) /\ t = currentTerm[s]
                                      /\ n = ledger[t].last + 1
              \/ \E r \in msgs : /\ AppendEntries(s, r) /\ ~PrevLogConflict(log[s], r)
                                 /\ r.term = t /\ n <= r.lastIndex /\ Has(t, n, t)
  <1>0. /\ Grows /\ LedgerOK /\ Has(t, n, t)' /\ t \in Nat /\ ledger[t].last \in Nat
        /\ ElectionInv /\ MessagesOK /\ LogsOK
    BY Zenon, NextGrows, TermIsNat, LedgerType DEF Pledged, RaftInvariant, LogInv
  <1>n. n \in Nat /\ n <= ledger'[t].last /\ ledger'[t].ent[n].term = t /\ ledger'[t].last \in Nat
    BY <1>0 DEF Has, Grows, Extends
  <1>1. ~Counted(s, n, t)'
    <2> SUFFICES ASSUME Counted(s, n, t)' PROVE FALSE
      BY Zenon
    <2>1. PICK c \in commits' : c.term = t /\ c.index = n /\ s \in c.quorum
      BY Zenon DEF Counted
    <2>2. CASE c \in commits
      <3>1. Has(t, n, t)
        BY Zenon, <2>1, <2>2 DEF RaftInvariant, LogInv, CommitsOK
      <3>2. QED
        BY Zenon, <2>1, <2>2, <3>1 DEF Pledged, Counted
    <2>3. CASE c \notin commits
      BY Zenon, <2>1, <2>3, NewCommit DEF Counts
    <2>4. QED
      BY Zenon, <2>2, <2>3
  <1>2. ~Shipped(n, t)' /\ (Led(s, t)' \/ Acked(s, n, t)')
    BY Zenon, <1>1 DEF Pledged
  <1>3. ~Shipped(n, t)
    BY Zenon, <1>0, <1>2 DEF Shipped, Grows
  <1>4. ~Has(t, n, t) \/ ~(Led(s, t) \/ Acked(s, n, t))
    BY Zenon, <1>3 DEF Pledged
  <1>5. CASE Led(s, t) /\ ~Has(t, n, t)
    <2>1. ledger'[t] # ledger[t] /\ n > ledger[t].last
      BY <1>0, <1>n, <1>5 DEF Has, Grows, Extends
    <2>2. Decided(t)
      BY Zenon, <1>5 DEF Led, Decided
    <2>3. ~Still /\ ~(\E i \in Server : Snapshot(i) \/ Restart(i))
          /\ ~(\E i \in Server : \E m \in msgs : AppendEntries(i, m) \/ InstallSnapshot(i, m))
      BY <2>1, SnapshotEffect, RestartEffect, AppendEffect, InstallEffect, Zenon DEF Still
    <2>4. ~(\E i \in Server : Wins(i))
      BY Zenon, <1>0, <2>1, <2>2, WinsLedger, WinsFirst
    <2>5. PICK i \in Server, cmd \in Command : Start(i, cmd)
      BY Zenon, <2>3, <2>4, StepKinds DEF RaftInvariant
    <2>6. PICK T : T = currentTerm[i]
      BY Zenon
    <2>7. /\ T \in Term /\ ledger'[T].last = ledger[T].last + 1
          /\ \A v \in Term : v # T => ledger'[v] = ledger[v]
      BY <1>0, <2>5, <2>6, StartLedger, Zenon
    <2>8. t = T /\ n = ledger[t].last + 1
      BY <1>0, <1>n, <2>1, <2>7
    <2>9. role[i] = "Leader"
      BY Zenon, <2>5 DEF Start
    <2>10. i = s
      BY <1>0, <1>5, <2>6, <2>8, <2>9 DEF Led, ElectionInv, LeadersWereElected, ElectionSafety
    <2>11. QED
      BY Zenon, <1>2, <2>5, <2>6, <2>8, <2>10
  <1>6. CASE Acked(s, n, t) /\ ~Has(t, n, t)
    <2>1. n <= ledger[t].last
      <3>1. PICK m \in msgs : m.type = "AppendEntriesReply" /\ m.argsTerm = t /\ n <= m.lastIndex
        BY Zenon, <1>6 DEF Acked
      <3>2. AppendSent(t, m.lastIndex)
        BY Zenon, <1>0, <3>1 DEF MessagesOK, MessageOK, AppendReplyOK
      <3>3. m.lastIndex \in Nat /\ m.lastIndex <= ledger[t].last
        BY Zenon, <1>0, <3>2 DEF AppendSent, MessagesOK, MessageOK, AppendOK
      <3>4. QED
        BY <1>0, <1>n, <3>1, <3>3
    <2>2. QED
      BY <1>0, <1>n, <1>6, <2>1 DEF Has, Grows, Extends
  <1>7. CASE ~Led(s, t) /\ Led(s, t)'
    <2>1. PICK e \in elections' : e.term = t /\ e.leader = s
      BY Zenon, <1>7 DEF Led
    <2>2. PICK i \in Server : Wins(i) /\ e.term = currentTerm[i]
      BY Zenon, <1>7, <2>1, NewElection DEF Led
    <2>3. PICK u : u = lastLogTerm(log[i])
      BY Zenon
    <2>4. /\ u \in Term /\ u < t /\ ledger'[t].last = log[i].last
          /\ \A k \in 0..log[i].last : ledger'[t].ent[k] = ledger[u].ent[k]
          /\ Has(u, log[i].last, u) /\ log[i].last \in Nat
      BY <1>0, <2>1, <2>2, <2>3, WinsLedger, LogFacts, SMTT(30) DEF Logs
    <2>5. n \in 0..log[i].last /\ Has(u, n, t)
      <3>1. n \in 0..log[i].last /\ ledger[u].ent[n].term = t
        BY <1>n, <2>4
      <3>2. log[i].last \in 0..ledger[u].last /\ ledger[u].last \in Nat
        BY Zenon, <1>0, <2>4, LedgerType DEF Has
      <3>3. QED
        BY <2>4, <3>1, <3>2 DEF Has
    <2>6. QED
      <3>1. u < t /\ t <= u
        BY Zenon, <1>0, <2>4, <2>5, HasSame
      <3>2. u \in Nat /\ t \in Nat
        BY Zenon, <2>4, TermIsNat
      <3>3. QED
        BY <3>1, <3>2
  <1>8. CASE ~Acked(s, n, t) /\ Acked(s, n, t)'
    <2>1. PICK m \in msgs' : /\ m.type = "AppendEntriesReply" /\ m.success
                             /\ m.src = s /\ m.argsTerm = t /\ n <= m.lastIndex
      BY Zenon, <1>8 DEF Acked
    <2>2. m \notin msgs
      BY Zenon, <1>8, <2>1 DEF Acked
    <2>3. PICK i \in Server, r \in msgs : /\ AppendEntries(i, r) \/ AppendEntriesStale(i, r)
                                          /\ m = appendReply(i, r)
      <3>1. ~(\E i \in Server : becomeCandidateL(i))
        BY <2>1, <2>2, SMTT(30) DEF becomeCandidateL, Send
      <3>2. \A i, j \in Server : m # appendArgs(i, j)
        <4>1. ASSUME NEW i, NEW j
              PROVE  appendArgs(i, j).type # "AppendEntriesReply"
          <5>1. makeAppendArgsL(i, j).type = "AppendEntries"
            BY DEF makeAppendArgsL
          <5>2. QED
            BY <5>1 DEF appendArgs
        <4>2. QED
          BY Zenon, <2>1, <4>1
      <3>3. \A i \in Server : \A r \in msgs : m # installReply(i, r)
        BY <2>1 DEF installReply
      <3>4. QED
        BY Zenon, <2>1, <2>2, <3>1, <3>2, <3>3, SentKinds
    <2>4. /\ i = s /\ r.term = t /\ r.lastIndex = m.lastIndex
          /\ ~(r.term < currentTerm[s]) /\ ~PrevLogConflict(log[s], r)
      BY Zenon, <2>1, <2>3 DEF appendReply
    <2>5. AppendEntries(s, r)
      BY Zenon, <2>3, <2>4 DEF AppendEntriesStale
    <2>6. Has(t, n, t)
      BY Zenon, <1>0, <2>5, AppendEffect DEF Has
    <2>7. QED
      BY Zenon, <1>2, <2>1, <2>4, <2>5, <2>6
  <1>9. QED
    BY Zenon, <1>2, <1>4, <1>5, <1>6, <1>7, <1>8

\* KeepOK survives every step: an acknowledged entry is not dropped for a
\* leader without it.
LEMMA NextKeepOK ==
    ASSUME RaftInvariant, CountsMajority, ElectionInv', Next
    PROVE  KeepOK'
  <1>0. Grows /\ LedgerOK /\ LedgerOK' /\ KeepOK /\ DiskOK' /\ MessagesOK
    BY Zenon, NextGrows, NextDiskOK DEF RaftInvariant, LogInv
  <1> SUFFICES ASSUME NEW s \in Server, NEW t \in Term, NEW n \in 0..ledger'[t].last,
                      Pledged(s, n, t)'
               PROVE  /\ t <= currentTerm'[s]
                      /\ Safe(n, t, currentTerm[s])' => \A x \in Logs(s)' : Holds(x, n, t)'
    BY Zenon DEF KeepOK
  <1>t. /\ currentTerm[s] \in Nat /\ currentTerm'[s] \in Nat /\ currentTerm'[s] \in Term
        /\ t \in Nat /\ currentTerm[s] <= currentTerm'[s] /\ n \in Nat
    BY <1>0, TermIsNat DEF RaftInvariant, ElectionInv, ElectionTypeOK, Grows
  <1>1. CASE Pledged(s, n, t)
    <2>0. Has(t, n, t) /\ n \in 0..ledger[t].last
      BY Zenon, <1>1 DEF Pledged, Has
    <2>1. /\ t <= currentTerm[s]
          /\ Safe(n, t, currentTerm[s]) => \A l \in Logs(s) : Holds(l, n, t)
      BY Zenon, <1>0, <1>1, <2>0 DEF KeepOK
    <2>2. ASSUME Safe(n, t, currentTerm[s])', NEW x \in Logs(s)'
          PROVE  Holds(x, n, t)'
      <3>0. PICK u : u = currentTerm'[s]
        BY Zenon
      <3>1. Safe(n, t, u) /\ Safe(n, t, currentTerm[s])
        <4>1. Safe(n, t, u)'
          BY Zenon, <2>2, <3>0
        <4>2. Safe(n, t, u)
          <5>1. u \in Nat /\ u <= u
            BY <1>t, <3>0
          <5>2. QED
            BY Zenon, <1>0, <1>t, <4>1, <5>1, SafeBefore
        <4>3. Safe(n, t, currentTerm[s])
          <5> SUFFICES ASSUME NEW v \in Term, t < v, v <= currentTerm[s], Decided(v)
                       PROVE  Has(v, n, t)
            BY Zenon DEF Safe
          <5>1. v \in Nat
            BY Zenon, TermIsNat
          <5>2. v <= u
            BY <1>t, <3>0, <5>1
          <5>3. QED
            BY Zenon, <4>2, <5>2 DEF Safe
        <4>4. QED
          BY Zenon, <4>2, <4>3
      <3>2. PICK l \in Logs(s) : Alike(l, x) \/ (Decided(u) /\ Advance(l, x, u))
        BY Zenon, <2>2, <3>0, LogStep DEF Follows
      <3>3. /\ Holds(l, n, t) /\ l.last \in Nat /\ lastLogTerm(l) \in Term
        BY Zenon, <2>1, <3>1, LogFacts
      <3>4. n <= x.last /\ lastLogTerm(x) \in Term /\ Has(lastLogTerm(x), n, t)
        <4>1. CASE Alike(l, x)
          BY Zenon, <3>3, <4>1 DEF Alike, Holds
        <4>2. CASE Decided(u) /\ Advance(l, x, u)
          <5>1. Has(u, n, t) /\ u \in Term
            BY <1>t, <2>0, <2>1, <3>0, <3>1, <4>2 DEF Safe
          <5>2. Same(lastLogTerm(l), u, n)
            BY Zenon, <1>0, <3>3, <5>1, Matching DEF Holds
          <5>3. n <= x.last /\ Same(lastLogTerm(x), u, n)
            BY Zenon, <1>t, <3>3, <4>2, <5>2 DEF Advance, Holds
          <5>4. lastLogTerm(x) \in Term
            BY <1>t, <2>2, LogStep, BoundsAssumption, SMTT(30) DEF Follows, Term
          <5>5. Has(lastLogTerm(x), n, t)
            <6>1. Same(u, lastLogTerm(x), n)
              BY Zenon, <5>3, SameSym
            <6>2. n \in 0..n
              BY <1>t
            <6>3. QED
              BY Zenon, <1>0, <1>t, <5>1, <5>4, <6>1, <6>2, SameHas
          <5>6. QED
            BY Zenon, <5>3, <5>4, <5>5
        <4>3. QED
          BY Zenon, <3>2, <4>1, <4>2
      <3>5. PICK w : w = lastLogTerm(x)
        BY Zenon
      <3>6. Has(w, n, t)'
        BY Zenon, <1>0, <3>4, <3>5, HasGrows DEF Grows
      <3>7. QED
        BY Zenon, <3>4, <3>5, <3>6 DEF Holds
    <2>3. QED
      BY <1>t, <2>1, <2>2
  <1>2. CASE ~Pledged(s, n, t)
    <2>0. ~Shipped(n, t)'
      BY Zenon, <1>2, NewPledge
    <2>1. CASE \E cmd \in Command : Start(s, cmd) /\ t = currentTerm[s] /\ n = ledger[t].last + 1
      <3>1. PICK cmd \in Command : Start(s, cmd) /\ t = currentTerm[s] /\ n = ledger[t].last + 1
        BY Zenon, <2>1
      <3>2. /\ currentTerm'[s] = t /\ disk'[s].log = log'[s] /\ log'[s].last = log[s].last + 1
            /\ lastLogTerm(log'[s]) = t /\ role[s] = "Leader"
        BY <3>1, StartEffect, Zenon
      <3>3. log[s].last = ledger[t].last
        BY Zenon, <3>1, <3>2, LeaderLog
      <3>4. Has(t, n, t)'
        BY Zenon DEF Pledged
      <3>5. \A x \in Logs(s)' : n <= x.last /\ lastLogTerm(x) = t
        BY <1>t, <3>1, <3>2, <3>3, SMTT(30) DEF Logs
      <3>6. QED
        BY <1>t, <3>2, <3>4, <3>5 DEF Holds
    <2>2. CASE \E r \in msgs : /\ AppendEntries(s, r) /\ ~PrevLogConflict(log[s], r)
                               /\ r.term = t /\ n <= r.lastIndex /\ Has(t, n, t)
      <3>1. PICK r \in msgs : /\ AppendEntries(s, r) /\ ~PrevLogConflict(log[s], r)
                              /\ r.term = t /\ n <= r.lastIndex /\ Has(t, n, t)
        BY Zenon, <2>2
      <3>2. /\ AppendOK(r) /\ currentTerm'[s] = t /\ ledger' = ledger
            /\ log'[s] = AppendNewEntries(log[s], r)
            /\ disk'[s].log = disk[s].log \/ disk'[s].log = log'[s]
        BY Zenon, <3>1, AppendEffect
      <3>3. PICK x : x = log'[s]
        BY Zenon
      <3>4. /\ IsLog(log[s]) /\ lastLogTerm(log[s]) \in Term
            /\ Within(log[s], lastLogTerm(log[s]))
        BY Zenon, LogFacts DEF Logs
      <3>5. /\ IsLog(x) /\ lastLogTerm(x) \in Term /\ Within(x, lastLogTerm(x))
            /\ r.lastIndex <= x.last /\ Same(lastLogTerm(x), t, r.lastIndex)
        BY Zenon, <1>0, <3>1, <3>2, <3>3, <3>4, AppendNewOK
      <3>6. r.lastIndex \in Nat /\ x.last \in Nat /\ n <= x.last
        BY <1>t, <3>1, <3>2, <3>5, SMTT(30) DEF AppendOK, IsLog
      <3>7. Has(lastLogTerm(x), n, t)
        <4>1. PICK u : u = lastLogTerm(x)
          BY Zenon
        <4>2. Same(t, u, r.lastIndex)
          BY <3>5, <4>1, SameSym, ZenonT(40)
        <4>3. n \in 0..r.lastIndex
          BY <1>t, <3>1, <3>6
        <4>4. QED
          BY <1>0, <1>t, <3>1, <3>5, <3>6, <4>1, <4>2, <4>3, SameHas, Zenon
      <3>8. \A y : y.last = x.last /\ lastLogTerm(y) = lastLogTerm(x) => Holds(y, n, t)'
        BY ZenonT(40), <3>2, <3>6, <3>7 DEF Holds, Has
      <3>9. disk'[s].log.last = x.last /\ lastLogTerm(disk'[s].log) = lastLogTerm(x)
        <4> SUFFICES ASSUME ~(disk'[s].log.last = x.last /\ lastLogTerm(disk'[s].log) = lastLogTerm(x))
                     PROVE  FALSE
          BY Zenon
        <4>1. PICK m \in msgs' : /\ m.type = "InstallSnapshot" /\ m.term <= t
                                 /\ m.snapshot.index = x.last
                                 /\ m.snapshot.term = lastLogTerm(x)
          BY Zenon, <1>0, <3>2, <3>3 DEF DiskOK
        <4>2. m.term # t
          BY ZenonT(40), <2>0, <3>6, <4>1 DEF Shipped
        <4>3. m \in msgs
          BY <3>1, <4>1, AppendEffect DEF appendReply
        <4>4. InstallOK(m) /\ m.term \in Term /\ m.term \in Nat
          BY <1>0, <4>1, <4>3, TermIsNat, Zenon
          DEF MessagesOK, MessageOK, RaftInvariant, ElectionInv, ElectionTypeOK
        <4>5. lastLogTerm(x) <= m.term
          BY Zenon, <1>0, <4>1, <4>4, HasSame DEF InstallOK
        <4>6. t <= lastLogTerm(x)
          BY Zenon, <1>0, <3>5, <3>7, HasSame
        <4>7. lastLogTerm(x) \in Nat
          BY Zenon, <3>5, TermIsNat
        <4>8. QED
          BY <1>t, <4>1, <4>2, <4>4, <4>5, <4>6, <4>7, SMTT(30)
      <3>10. QED
        BY <1>t, <3>2, <3>3, <3>8, <3>9, SMTT(30) DEF Logs
    <2>3. QED
      BY Zenon, <1>2, <2>1, <2>2, NewPledge
  <1>3. QED
    BY Zenon, <1>1, <1>2

\* A request that is as up to date as a log that holds the entry covers it.
LEMMA UpToDateCovers ==
    ASSUME RaftInvariant, NEW s \in Server, NEW n \in Nat, NEW t \in Term,
           Holds(log[s], n, t), NEW m, UpToDate(s, m), m.lastLogIndex \in Nat, m.lastLogTerm \in Nat
    PROVE  Covers(m, n, t)
  <1>1. /\ LedgerOK /\ lastLogTerm(log[s]) \in Term /\ lastLogTerm(log[s]) \in Nat
        /\ log[s].last \in Nat /\ t \in Nat
    BY Zenon, LogFacts, TermIsNat DEF Logs
  <1>2. t <= lastLogTerm(log[s])
    BY Zenon, <1>1, HasSame DEF Holds
  <1>3. n <= log[s].last
    BY Zenon DEF Holds
  <1>4. QED
    BY <1>1, <1>2, <1>3 DEF UpToDate, Covers

\* A vote that may count was asked for, and is given in an undecided term.
LEMMA NewVote ==
    ASSUME RaftInvariant, Next, NEW s \in Server, NEW m \in msgs, m.type = "RequestVote",
           VoteCounts(s, m)', ~Granted(s, m.src, m.term)
    PROVE  /\ ~Decided(m.term) /\ currentTerm[s] <= m.term
           /\ \E q \in msgs : /\ q.type = "RequestVote" /\ q.src = m.src /\ q.term = m.term
                              /\ UpToDate(s, q)
  <1>1. PICK r \in msgs' : /\ r.type = "RequestVoteReply" /\ r.granted
                           /\ r.src = s /\ r.dst = m.src /\ r.argsTerm = m.term
    BY Zenon DEF VoteCounts, Granted, Campaigned
  <1>2. r \notin msgs
    BY Zenon, <1>1 DEF Granted
  <1>3. PICK i \in Server, q \in msgs : RequestVote(i, q)
    <2>1. ~(\E i \in Server : becomeCandidateL(i))
      BY <1>1, <1>2 DEF becomeCandidateL, Send
    <2>2. QED
      BY <1>1, <1>2, <2>1, SentKinds, SMTT(30) DEF appendArgs, makeAppendArgsL, appendReply, installReply
  <1>4. currentTerm[i] \in Nat /\ q.term \in Nat
    BY Zenon, TermIsNat DEF RaftInvariant, ElectionInv, ElectionTypeOK
  <1>5. /\ i = s /\ q.src = m.src /\ q.term = m.term /\ q.type = "RequestVote"
        /\ UpToDate(s, q) /\ currentTerm[s] <= m.term
    <2> DEFINE newer == q.term > currentTerm[i]
               term  == IF newer THEN q.term ELSE currentTerm[i]
               vote  == IF newer THEN NA ELSE votedFor[i]
               grant == q.term = term /\ vote \in {NA, q.src} /\ UpToDate(i, q)
    <2>1. /\ q.type = "RequestVote"
          /\ r = [type |-> "RequestVoteReply", term |-> term, src |-> i,
                  dst |-> q.src, argsTerm |-> q.term, granted |-> grant]
      BY Zenon, <1>2, <1>3 DEF RequestVote, Send
    <2>2. r.granted = grant /\ r.src = i /\ r.dst = q.src /\ r.argsTerm = q.term
      BY Zenon, <2>1
    <2>3. q.term = term /\ UpToDate(i, q)
      BY Zenon, <1>1, <2>2
    <2>4. currentTerm[i] <= q.term
      BY <1>4, <2>3
    <2>5. QED
      BY Zenon, <1>1, <2>1, <2>2, <2>3, <2>4
  <1>6. ~Decided(m.term)
    <2> SUFFICES ASSUME NEW e \in elections, e.term = m.term PROVE FALSE
      BY Zenon DEF Decided
    <2>1. UNCHANGED elections
      BY Zenon, <1>3 DEF RequestVote, history
    <2>2. e.leader = m.src /\ s \in e.voters
      BY Zenon, <2>1 DEF VoteCounts
    <2>3. QED
      BY Zenon, <2>2 DEF RaftInvariant, ElectionInv, VotersAreBound
  <1>7. QED
    BY Zenon, <1>5, <1>6

\* VoteOK survives every step: no vote goes to a candidate without an entry
\* that the voter has acknowledged.
LEMMA NextVoteOK ==
    ASSUME RaftInvariant, CountsMajority, ElectionInv', Next
    PROVE  VoteOK'
  <1>0. Grows /\ LedgerOK /\ LedgerOK' /\ KeepOK /\ VoteOK /\ MessagesOK
    BY Zenon, NextGrows DEF RaftInvariant, LogInv
  <1> SUFFICES ASSUME NEW s \in Server, NEW t \in Term, NEW n \in 0..ledger'[t].last,
                      Pledged(s, n, t)', NEW m \in msgs', m.type = "RequestVote", m.term > t,
                      VoteCounts(s, m)', Safe(n, t, m.term - 1)'
               PROVE  Covers(m, n, t)
    BY Zenon DEF VoteOK, Covers
  <1>t. /\ currentTerm[s] \in Nat /\ m.term \in Term /\ m.term \in Nat /\ t \in Nat
        /\ m.src \in Server /\ n \in Nat
    BY <1>0, TermIsNat DEF RaftInvariant, ElectionInv, ElectionTypeOK
  <1>g. Granted(s, m.src, m.term)' /\ m.term <= currentTerm'[s]
    BY Zenon, <1>t DEF VoteCounts, ElectionInv, VotesAreKept
  <1>1. Pledged(s, n, t)
    <2> SUFFICES ASSUME ~Pledged(s, n, t) PROVE FALSE
      BY Zenon
    <2>1. currentTerm'[s] = t
      <3>1. CASE \E cmd \in Command : Start(s, cmd) /\ t = currentTerm[s]
        BY <3>1, StartEffect, Zenon
      <3>2. CASE \E r \in msgs : AppendEntries(s, r) /\ r.term = t
        BY Zenon, <3>2, AppendEffect
      <3>3. QED
        BY Zenon, <3>1, <3>2, NewPledge
    <2>2. QED
      BY <1>t, <1>g, <2>1, SMTT(30)
  <1>2. /\ Has(t, n, t) /\ n \in 0..ledger[t].last
        /\ Safe(n, t, currentTerm[s]) => Holds(log[s], n, t)
    BY Zenon, <1>0, <1>1 DEF Pledged, Has, KeepOK, Logs
  <1>3. Safe(n, t, m.term - 1)
    <2>1. PICK u : u = m.term - 1
      BY Zenon
    <2>2. Safe(n, t, u)' /\ u \in Nat /\ u <= u
      BY <1>t, <2>1
    <2>3. QED
      BY Zenon, <1>0, <1>t, <2>1, <2>2, SafeBefore
  <1>4. CASE m \notin msgs
    <2>1. /\ becomeCandidateL(m.src) /\ m.term = currentTerm[m.src] + 1
          /\ m.lastLogIndex = log[m.src].last /\ m.lastLogTerm = lastLogTerm(log[m.src])
      BY Zenon, <1>4, NewRequest
    <2>2. s = m.src
      <3> SUFFICES ASSUME s # m.src PROVE FALSE
        BY Zenon
      <3>1. PICK r \in msgs' : /\ r.type = "RequestVoteReply" /\ r.dst = m.src
                               /\ r.argsTerm = m.term
        BY ZenonT(40), <1>g DEF Granted
      <3>2. r \in msgs
        BY <2>1, <3>1, SMTT(30) DEF becomeCandidateL, Send
      <3>3. Campaigned(m.src, m.term)
        BY ZenonT(40), <1>0, <3>1, <3>2 DEF MessagesOK, MessageOK
      <3>4. QED
        BY Zenon, <1>4, <3>3, CampaignsOnce
    <2>3. Safe(n, t, currentTerm[s])
      BY <1>t, <1>3, <2>1, <2>2, SMTT(30)
    <2>4. /\ log[s].last \in Nat /\ lastLogTerm(log[s]) \in Nat /\ UpToDate(s, m)
      BY <2>1, <2>2, LogFacts, SMTT(30) DEF Logs, UpToDate
    <2>5. QED
      BY Zenon, <1>t, <1>2, <2>1, <2>2, <2>3, <2>4, UpToDateCovers
  <1>5. CASE m \in msgs /\ Granted(s, m.src, m.term)
    <2>1. VoteCounts(s, m)
      BY Zenon, <1>0, <1>5 DEF VoteCounts, Grows
    <2>2. QED
      BY Zenon, <1>0, <1>1, <1>2, <1>3, <1>5, <2>1 DEF VoteOK
  <1>6. CASE m \in msgs /\ ~Granted(s, m.src, m.term)
    <2>1. ~Decided(m.term) /\ currentTerm[s] <= m.term
      BY Zenon, <1>6, NewVote
    <2>2. PICK q \in msgs : /\ q.type = "RequestVote" /\ q.src = m.src /\ q.term = m.term
                            /\ UpToDate(s, q)
      BY Zenon, <1>6, NewVote
    <2>3. Safe(n, t, currentTerm[s])
      <3> SUFFICES ASSUME NEW v \in Term, t < v, v <= currentTerm[s], Decided(v)
                   PROVE  Has(v, n, t)
        BY Zenon DEF Safe
      <3>0. v \in Nat /\ v # m.term
        BY Zenon, <2>1, TermIsNat
      <3>1. v <= m.term - 1
        BY <1>t, <2>1, <3>0, SMTT(30)
      <3>2. QED
        BY Zenon, <1>3, <3>1 DEF Safe
    <2>4. RequestOK(q) /\ q.lastLogIndex \in Nat /\ q.lastLogTerm \in Nat
      BY <1>0, <2>2, SMTT(30) DEF MessagesOK, MessageOK, RequestOK, Has
    <2>5. Covers(q, n, t)
      BY Zenon, <1>t, <1>2, <2>2, <2>3, <2>4, UpToDateCovers
    <2>6. QED
      BY Zenon, <1>6, <2>2, <2>5 DEF Covers, RaftInvariant, LogInv, RequestsOK
  <1>7. QED
    BY Zenon, <1>4, <1>5, <1>6

-----------------------------------------------------------------------------
(***************************************************************************)
(* What peers know to be committed.                                        *)
(***************************************************************************)

\* x ends like l, or takes over what the leader of the term has.
Moves(j, l, x) ==
    \/ Alike(l, x)
    \/ Decided(currentTerm'[j]) /\ Advance(l, x, currentTerm'[j])

\* What precedes a committed entry is committed.
LEMMA CommittedDown ==
    ASSUME LedgerOK, CommitsOK, NEW j \in Server, NEW l, l.last \in Nat, lastLogTerm(l) \in Term,
           NEW n \in Nat, NEW k \in 0..n, Committed(j, l, n)
    PROVE  Committed(j, l, k)
  <1>1. PICK c \in commits : /\ c.term <= currentTerm[j] /\ n <= c.index
                             /\ Same(lastLogTerm(l), c.term, n)
    BY Zenon DEF Committed
  <1>2. Same(lastLogTerm(l), c.term, k) /\ c.index \in Nat
    BY Zenon, <1>1, SameDown DEF CommitsOK
  <1>3. QED
    BY <1>1, <1>2 DEF Committed

\* What is committed survives in the log that takes over from another.
LEMMA CommittedMoves ==
    ASSUME RaftInvariant, QuorumsMeet, ElectionInv', Grows, NEW j \in Server, NEW l \in Logs(j),
           NEW x, lastLogTerm(x) \in Term, Moves(j, l, x), NEW n \in Nat, Committed(j, l, n)
    PROVE  /\ n <= x.last /\ Same(lastLogTerm(l), lastLogTerm(x), n)
           /\ Committed(j, x, n)'
  <1>0. /\ LedgerOK /\ CommitsOK /\ lastLogTerm(l) \in Term /\ l.last \in Nat
        /\ currentTerm[j] \in Nat /\ currentTerm'[j] \in Nat /\ currentTerm'[j] \in Term
        /\ currentTerm[j] <= currentTerm'[j] /\ Extends
    BY Zenon, LogFacts, TermIsNat DEF RaftInvariant, LogInv, ElectionInv, ElectionTypeOK, Grows
  <1>1. PICK c \in commits : /\ c.term <= currentTerm[j] /\ n <= c.index
                             /\ Same(lastLogTerm(l), c.term, n)
    BY Zenon DEF Committed
  <1>2. n <= l.last /\ c.term \in Term /\ c.index \in Nat /\ c.term \in Nat
    BY <1>0, <1>1, TermIsNat, Zenon DEF Committed, CommitsOK
  <1>3. n <= x.last /\ Same(lastLogTerm(l), lastLogTerm(x), n)
    <2>1. CASE Alike(l, x)
      BY Zenon, <1>0, <1>1, <1>2, <2>1, SameSym, SameTrans DEF Alike
    <2>2. CASE Decided(currentTerm'[j]) /\ Advance(l, x, currentTerm'[j])
      <3>1. PICK u : u = currentTerm'[j]
        BY Zenon
      <3>2. u \in Term /\ c.term <= u
        BY <1>0, <1>1, <1>2, <3>1
      <3>3. Same(u, c.term, c.index)
        BY Zenon, <2>2, <3>1, <3>2, LeaderAgrees
      <3>4. Same(c.term, u, n)
        BY <1>0, <1>1, <1>2, <3>2, <3>3, SameDown, SameSym
      <3>5. Same(lastLogTerm(l), u, n)
        BY Zenon, <1>1, <3>4, SameTrans
      <3>6. n <= x.last /\ Same(lastLogTerm(x), u, n)
        BY Zenon, <1>2, <2>2, <3>1, <3>5 DEF Advance
      <3>7. QED
        BY Zenon, <3>5, <3>6, SameSym, SameTrans
    <2>3. QED
      BY Zenon, <2>1, <2>2 DEF Moves
  <1>4. PICK w : w = lastLogTerm(x)
    BY Zenon
  <1>5. Same(w, c.term, n)
    BY Zenon, <1>1, <1>3, <1>4, SameSym, SameTrans
  <1>6. Same(w, c.term, n)'
    BY Zenon, <1>0, <1>2, <1>4, <1>5, SameGrows
  <1>7. c \in commits' /\ c.term <= currentTerm'[j]
    BY <1>0, <1>1, <1>2 DEF Grows
  <1>8. Committed(j, x, n)'
    BY Zenon, <1>1, <1>3, <1>4, <1>6, <1>7 DEF Committed
  <1>9. QED
    BY Zenon, <1>3, <1>8

\* What the leader of the term says is committed, is.
LEMMA KnownCommitted ==
    ASSUME RaftInvariant, QuorumsMeet, Grows, NEW j \in Server, NEW x, NEW n \in Nat,
           NEW t \in Term, Decided(t), Known(n, t), currentTerm'[j] = t,
           lastLogTerm(x) \in Term, n <= x.last, Same(lastLogTerm(x), t, n)
    PROVE  Committed(j, x, n)'
  <1>0. LedgerOK /\ CommitsOK /\ Extends
    BY Zenon DEF RaftInvariant, LogInv, Grows
  <1>1. PICK c \in commits : c.term <= t /\ n <= c.index
    BY Zenon DEF Known
  <1>2. c.term \in Term /\ c.index \in Nat /\ Same(t, c.term, c.index)
    BY Zenon, <1>0, <1>1, LeaderAgrees DEF CommitsOK
  <1>3. PICK w : w = lastLogTerm(x)
    BY Zenon
  <1>4. Same(w, c.term, n)
    BY <1>0, <1>1, <1>2, <1>3, SameDown, SameTrans
  <1>5. Same(w, c.term, n)'
    BY Zenon, <1>0, <1>2, <1>3, <1>4, SameGrows
  <1>6. QED
    BY Zenon, <1>1, <1>3, <1>5 DEF Committed, Grows

\* How the copies of a log and of the snapshot change, other than by a restart.
LEMMA CopyStep ==
    ASSUME RaftInvariant, Next, NEW j \in Server, ~Restart(j)
    PROVE  /\ Moves(j, log[j], log'[j])
           /\ \/ disk'[j].log = disk[j].log /\ disk'[j].data = disk[j].data
              \/ disk'[j].log = log[j] /\ disk'[j].data = snapshot[j].data
              \/ disk'[j].log = log'[j] /\ disk'[j].data = snapshot'[j].data
           /\ \/ /\ log'[j].first = log[j].first /\ snapshot'[j] = snapshot[j]
                 /\ log'[j].ent[log[j].first].term = log[j].ent[log[j].first].term
              \/ Snapshot(j)
              \/ \E m \in msgs : InstallSnapshot(j, m) /\ m.snapshot.index > log[j].first
  <1> DEFINE Goal ==
           /\ Moves(j, log[j], log'[j])
           /\ \/ disk'[j].log = disk[j].log /\ disk'[j].data = disk[j].data
              \/ disk'[j].log = log[j] /\ disk'[j].data = snapshot[j].data
              \/ disk'[j].log = log'[j] /\ disk'[j].data = snapshot'[j].data
           /\ \/ /\ log'[j].first = log[j].first /\ snapshot'[j] = snapshot[j]
                 /\ log'[j].ent[log[j].first].term = log[j].ent[log[j].first].term
              \/ Snapshot(j)
              \/ \E m \in msgs : InstallSnapshot(j, m) /\ m.snapshot.index > log[j].first
  <1>0. /\ LedgerOK /\ IsLog(log[j]) /\ log[j].first \in Nat /\ log[j].last \in Nat
        /\ log[j].first <= log[j].last
        /\ lastLogTerm(log[j]) \in Term /\ Within(log[j], lastLogTerm(log[j]))
        /\ currentTerm[j] \in Term
    BY Zenon, LogFacts DEF Logs
  <1>o. ASSUME log'[j] = log[j], snapshot'[j] = snapshot[j],
               \/ disk'[j].log = disk[j].log /\ disk'[j].data = disk[j].data
               \/ disk'[j].log = log[j] /\ disk'[j].data = snapshot[j].data
        PROVE  Goal
    BY Zenon, <1>o DEF Moves, Alike
  <1>i. ASSUME NEW i \in Server, Only(i), i # j
        PROVE  Goal
    BY Zenon, <1>i, <1>o DEF Only
  <1>1. CASE Still
    BY Zenon, <1>1, <1>o DEF Still, Saves
  <1>2. ASSUME NEW i \in Server, Wins(i)
        PROVE  Goal
    BY Zenon, <1>2, <1>o DEF Wins
  <1>3. ASSUME NEW i \in Server, NEW cmd \in Command, Start(i, cmd)
        PROVE  Goal
    <2>1. CASE i = j
      <3>1. /\ role[j] = "Leader" /\ currentTerm' = currentTerm
            /\ log'[j].first = log[j].first /\ log'[j].last = log[j].last + 1
            /\ \A k \in log[j].first..log[j].last : log'[j].ent[k] = log[j].ent[k]
            /\ lastLogTerm(log'[j]) = currentTerm[j]
            /\ disk'[j].log = log'[j] /\ disk'[j].data = snapshot[j].data /\ snapshot' = snapshot
        BY <1>3, <2>1, StartEffect, Zenon
      <3>2. Decided(currentTerm[j]) /\ log[j].last = ledger[currentTerm[j]].last
        BY ZenonT(40), <3>1, LeaderLog
      <3>3. ASSUME NEW n \in Nat, n <= log[j].last
            PROVE  n <= log'[j].last /\ Same(currentTerm[j], currentTerm[j], n)
        BY <1>0, <3>1, <3>2, <3>3, SameSelf, SMTT(30)
      <3>4. Moves(j, log[j], log'[j])
        BY Zenon, <3>1, <3>2, <3>3 DEF Moves, Advance
      <3>5. log[j].first \in log[j].first..log[j].last
        BY <1>0, SMTT(30)
      <3>6. QED
        BY Zenon, <3>1, <3>4, <3>5
    <2>2. QED
      BY <1>3, <1>i, <2>1, StartEffect, Zenon
  <1>4. ASSUME NEW i \in Server, Snapshot(i)
        PROVE  Goal
    <2>1. CASE i = j
      <3>1. /\ service[j].index \in log[j].first..log[j].last
            /\ log'[j] = trimLogL(log[j], service[j].index)
            /\ disk'[j].log = log'[j] /\ disk'[j].data = snapshot'[j].data
        <4>1. /\ service[i].index \in log[i].first..log[i].last
              /\ log'[i] = trimLogL(log[i], service[i].index)
              /\ disk'[i].log = log'[i] /\ disk'[i].data = service[i].cmds
              /\ snapshot'[i] = [index |-> service[i].index, data |-> service[i].cmds,
                                 term |-> log[i].ent[service[i].index].term]
          BY ZenonT(40), <1>4, SnapshotEffect
        <4>2. QED
          BY <2>1, <4>1, SMTT(30)
      <3>2. Alike(log[j], log'[j])
        BY <1>0, <3>1, TrimOK, SMTT(30) DEF Alike
      <3>3. QED
        BY Zenon, <1>4, <2>1, <3>1, <3>2 DEF Moves
    <2>2. QED
      BY <1>4, <1>i, <2>1, SnapshotEffect, Zenon
  <1>5. ASSUME NEW i \in Server, Restart(i)
        PROVE  Goal
    BY <1>5, <1>i, RestartEffect, Zenon
  <1>6. ASSUME NEW i \in Server, NEW m \in msgs, AppendEntries(i, m)
        PROVE  Goal
    <2>1. CASE i = j
      <3>1. /\ m.term \in Term /\ Decided(m.term) /\ AppendOK(m) /\ currentTerm'[j] = m.term
            /\ log'[j] = IF PrevLogConflict(log[j], m) THEN log[j]
                                                       ELSE AppendNewEntries(log[j], m)
            /\ snapshot'[j] = snapshot[j]
            /\ \/ disk'[j] = disk[j] /\ log'[j] = log[j]
               \/ disk'[j].log = log'[j] /\ disk'[j].data = snapshot[j].data
        BY Zenon, <1>6, <2>1, AppendEffect
      <3>2. CASE log'[j] = log[j]
        BY <1>o, <3>1, <3>2, Zenon
      <3>3. CASE log'[j] # log[j]
        <4>1. /\ Advance(log[j], log'[j], m.term) /\ log'[j].first = log[j].first
              /\ log'[j].ent[log[j].first].term = log[j].ent[log[j].first].term
          <5>1. PICK x : x = AppendNewEntries(log[j], m)
            BY Zenon
          <5>2. /\ Advance(log[j], x, m.term) /\ x.first = log[j].first
                /\ x.ent[x.first].term = log[j].ent[log[j].first].term
            BY <1>0, <3>1, <3>3, <5>1, AppendNewOK, Zenon
          <5>3. QED
            BY Zenon, <3>1, <3>3, <5>1, <5>2
        <4>2. QED
          BY Zenon, <3>1, <3>3, <4>1 DEF Moves
      <3>4. QED
        BY Zenon, <3>2, <3>3
    <2>2. QED
      BY Zenon, <1>6, <1>i, <2>1, AppendEffect
  <1>7. ASSUME NEW i \in Server, NEW m \in msgs, InstallSnapshot(i, m)
        PROVE  Goal
    <2>1. CASE i = j
      <3>1. /\ m.term \in Term /\ Decided(m.term) /\ InstallOK(m) /\ currentTerm'[j] = m.term
            /\ \/ log'[j] = log[j] /\ snapshot'[j] = snapshot[j]
               \/ m.snapshot.index > log[j].first /\ log'[j] = InstalledLog(log[j], m.snapshot)
            /\ \/ disk'[j] = disk[j]
               \/ disk'[j].log = log[j] /\ disk'[j].data = snapshot[j].data
        BY Zenon, <1>7, <2>1, InstallEffect
      <3>2. CASE log'[j] = log[j] /\ snapshot'[j] = snapshot[j]
        BY Zenon, <1>o, <3>1, <3>2
      <3>3. CASE m.snapshot.index > log[j].first /\ log'[j] = InstalledLog(log[j], m.snapshot)
        <4>1. Advance(log[j], log'[j], m.term)
          BY Zenon, <1>0, <3>1, <3>3, InstalledOK
        <4>2. Moves(j, log[j], log'[j])
          BY Zenon, <3>1, <4>1 DEF Moves
        <4>3. QED
          BY <1>7, <2>1, <3>1, <3>3, <4>2, Zenon
      <3>4. QED
        BY <3>1, <3>2, <3>3, Zenon
    <2>2. QED
      BY <1>7, <1>i, <2>1, InstallEffect, Zenon
  <1>8. QED
    BY <1>1, <1>2, <1>3, <1>4, <1>5, <1>6, <1>7, StepKinds, Zenon DEF RaftInvariant

\* The minimum in step 5 of AppendEntries is the leader's commit index.
LEMMA HeardCommit ==
    ASSUME RaftInvariant, NEW j \in Server, NEW m \in msgs, AppendEntries(j, m),
           HearsCommit(j, m)
    PROVE  Min({m.leaderCommit, AppendNewEntries(log[j], m).last}) = m.leaderCommit
  <1>1. ~PrevLogConflict(log[j], m) /\ m.term \in Term /\ AppendOK(m)
    BY Zenon, AppendEffect DEF HearsCommit
  <1>2. /\ LedgerOK /\ IsLog(log[j]) /\ lastLogTerm(log[j]) \in Term
        /\ Within(log[j], lastLogTerm(log[j]))
    BY Zenon, LogFacts DEF Logs
  <1>3. PICK x : x = AppendNewEntries(log[j], m)
    BY Zenon
  <1>4. m.lastIndex <= x.last /\ x.last \in Nat
    BY Zenon, <1>1, <1>2, <1>3, AppendNewOK DEF IsLog
  <1>5. {m.leaderCommit, x.last} \in SUBSET Nat /\ m.leaderCommit <= x.last
    BY <1>1, <1>4, SMTT(30) DEF AppendOK
  <1>6. PICK n : n = Min({m.leaderCommit, x.last})
    BY Zenon
  <1>7. n \in {m.leaderCommit, x.last} /\ n <= m.leaderCommit
    BY Zenon, <1>5, <1>6, MinIs
  <1>8. QED
    BY <1>3, <1>5, <1>6, <1>7

\* The ways in which a commit index moves.
LEMMA CommitIndexStep ==
    ASSUME RaftInvariant, CountsMajority, Next, NEW j \in Server, ~Restart(j),
           commitIndex'[j] # commitIndex[j]
    PROVE  \/ \E c : Counts(j, c)
           \/ \E m \in msgs : /\ AppendEntries(j, m) /\ HearsCommit(j, m)
                              /\ commitIndex'[j] = m.leaderCommit
           \/ /\ apply(j) /\ commitIndex'[j] = snapshot[j].index
              /\ UNCHANGED <<currentTerm, log, snapshot, disk>>
  <1>0. commitIndex \in [Server -> Nat]
    BY Zenon DEF RaftInvariant, LogInv, LogTypeOK
  <1>1. ASSUME NEW i \in Server, Step(i)
        PROVE  /\ apply(j) /\ commitIndex'[j] = snapshot[j].index
               /\ UNCHANGED <<currentTerm, log, snapshot, disk>>
    <2>1. becomeCandidateL(i) => UNCHANGED commitIndex
      BY Zenon DEF becomeCandidateL
    <2>2. \A cmd \in Command : Start(i, cmd) => UNCHANGED commitIndex
      BY Zenon DEF Start
    <2>3. \A k \in Server : append(i, k) => UNCHANGED commitIndex
      BY Zenon DEF append
    <2>4. Snapshot(i) \/ receiveApplyMsg(i) => UNCHANGED commitIndex
      BY Zenon DEF Snapshot, receiveApplyMsg
    <2>5. ~Restart(i)
      BY Zenon, RestartEffect DEF Only
    <2>6. apply(i)
      BY Zenon, <1>1, <2>1, <2>2, <2>3, <2>4, <2>5 DEF Step
    <2>7. UNCHANGED <<currentTerm, log, snapshot, disk>>
      BY Zenon, <2>6 DEF apply, persistent
    <2>8. commitIndex' = [commitIndex EXCEPT ![i] = snapshot[i].index] \/ UNCHANGED commitIndex
      BY Zenon, <2>6 DEF apply, applySnapshotL
    <2>9. QED
      BY Zenon, <1>0, <2>6, <2>7, <2>8
  <1>2. ASSUME NEW m \in msgs, Receive(m.dst, m)
        PROVE  \/ \E c : Counts(j, c)
               \/ AppendEntries(j, m) /\ HearsCommit(j, m) /\ commitIndex'[j] = m.leaderCommit
    <2>0. m.dst \in Server
      BY Zenon DEF RaftInvariant, ElectionInv, ElectionTypeOK
    <2>1. RequestVote(m.dst, m) => UNCHANGED commitIndex
      BY Zenon DEF RequestVote
    <2>2. processRequestReplyL(m.dst, m) \/ processInstallReplyL(m.dst, m) => UNCHANGED commitIndex
      BY Zenon DEF processRequestReplyL, processInstallReplyL
    <2>3. AppendEntriesStale(m.dst, m) => UNCHANGED commitIndex
      BY Zenon DEF AppendEntriesStale
    <2>4. InstallSnapshot(m.dst, m) \/ InstallSnapshotStale(m.dst, m) => UNCHANGED commitIndex
      BY Zenon DEF InstallSnapshot, InstallSnapshotStale
    <2>5. CASE processAppendReplyL(m.dst, m)
      <3>1. PICK c : Counts(m.dst, c)
        BY Zenon, <2>0, <2>5, CountStep
      <3>2. m.dst = j
        BY Zenon, <1>0, <3>1 DEF Counts
      <3>3. QED
        BY Zenon, <3>1, <3>2
    <2>6. CASE AppendEntries(m.dst, m)
      <3>1. commitIndex' = [commitIndex EXCEPT ![m.dst] =
               IF HearsCommit(m.dst, m)
               THEN Min({m.leaderCommit, (IF PrevLogConflict(log[m.dst], m) THEN log[m.dst]
                                          ELSE AppendNewEntries(log[m.dst], m)).last})
               ELSE @]
        BY Zenon, <2>6 DEF AppendEntries
      <3>2. m.dst = j /\ HearsCommit(j, m)
        BY Zenon, <1>0, <3>1
      <3>3. ~PrevLogConflict(log[j], m)
        BY Zenon, <3>2 DEF HearsCommit
      <3>4. QED
        BY Zenon, <1>0, <2>6, <3>1, <3>2, <3>3, HeardCommit
    <2>7. QED
      BY Zenon, <1>2, <2>1, <2>2, <2>3, <2>4, <2>5, <2>6 DEF Receive
  <1>3. QED
    BY Zenon, <1>1, <1>2 DEF Next

\* The shape of the logs after a step.
LEMMA NextLogFacts ==
    ASSUME RaftInvariant, ElectionInv', Next, NEW j \in Server, NEW x \in Logs(j)'
    PROVE  /\ IsLog(x) /\ x.first \in Nat /\ x.last \in Nat /\ x.first <= x.last
           /\ lastLogTerm(x) \in Term
  <1>1. IsLog(x) /\ lastLogTerm(x) \in 0..currentTerm'[j] /\ currentTerm'[j] \in Term
    BY Zenon, LogStep DEF Follows, ElectionInv, ElectionTypeOK
  <1>2. QED
    BY <1>1, BoundsAssumption DEF IsLog, Term

\* The snapshot that is installed is committed.
LEMMA InstalledCommitted ==
    ASSUME RaftInvariant, QuorumsMeet, Grows, NEW j \in Server, NEW m \in msgs,
           InstallSnapshot(j, m), m.snapshot.index > log[j].first
    PROVE  /\ log'[j].first = m.snapshot.index /\ snapshot'[j] = m.snapshot
           /\ log'[j].ent[m.snapshot.index].term = m.snapshot.term
           /\ Same(lastLogTerm(log'[j]), m.term, m.snapshot.index)
           /\ Committed(j, log[j], m.snapshot.index)'
  <1>1. /\ m.term \in Term /\ Decided(m.term) /\ InstallOK(m) /\ currentTerm'[j] = m.term
        /\ \/ m.snapshot.index <= log[j].first
           \/ log'[j] = InstalledLog(log[j], m.snapshot) /\ snapshot'[j] = m.snapshot
    BY Zenon, InstallEffect
  <1>2. m.snapshot.index \in Nat /\ Known(m.snapshot.index, m.term)
    BY Zenon, <1>1 DEF InstallOK, SnapshotType
  <1>3. /\ LedgerOK /\ IsLog(log[j]) /\ log[j].first \in Nat
        /\ lastLogTerm(log[j]) \in Term /\ Within(log[j], lastLogTerm(log[j]))
    BY Zenon, LogFacts DEF Logs
  <1>4. log'[j] = InstalledLog(log[j], m.snapshot) /\ snapshot'[j] = m.snapshot
    BY <1>1, <1>2, <1>3, SMTT(30)
  <1>5. PICK x : x = log'[j]
    BY Zenon
  <1>6. /\ IsLog(x) /\ x.first = m.snapshot.index /\ lastLogTerm(x) \in Term
        /\ x.ent[x.first].term = m.snapshot.term
        /\ Same(lastLogTerm(x), m.term, m.snapshot.index)
    <2>1. x = InstalledLog(log[j], m.snapshot)
      BY Zenon, <1>4, <1>5
    <2>2. QED
      BY Zenon, <1>1, <1>3, <2>1, InstalledOK
  <1>7. Committed(j, x, m.snapshot.index)'
    BY Zenon, <1>1, <1>2, <1>6, KnownCommitted DEF IsLog
  <1>8. QED
    BY Zenon, <1>4, <1>5, <1>6, <1>7

\* CoverOK survives every step: what a peer takes as committed is.
LEMMA NextCoverOK ==
    ASSUME RaftInvariant, QuorumsMeet, CountsMajority, ElectionInv', Next
    PROVE  CoverOK'
  <1>0. Grows /\ LedgerOK /\ LedgerOK' /\ CoverOK /\ CommitsOK /\ SnapshotsOK
    BY Zenon, NextGrows DEF RaftInvariant, LogInv
  <1> SUFFICES ASSUME NEW j \in Server
               PROVE  /\ Committed(j, log[j], commitIndex[j])'
                      /\ \A x \in Logs(j)' : Committed(j, x, x.first)'
    BY Zenon DEF CoverOK
  <1>f. /\ log[j] \in Logs(j) /\ disk[j].log \in Logs(j) /\ commitIndex[j] \in Nat
        /\ \A l \in Logs(j) : /\ IsLog(l) /\ l.first \in Nat /\ l.last \in Nat
                              /\ lastLogTerm(l) \in Term /\ l.first <= l.last
    BY Zenon, LogFacts DEF Logs, RaftInvariant, LogInv, LogTypeOK
  <1>x. /\ log'[j] \in Logs(j)' /\ disk'[j].log \in Logs(j)'
        /\ \A x \in Logs(j)' : /\ x.first \in Nat /\ x.last \in Nat /\ lastLogTerm(x) \in Term
                               /\ IsLog(x)
    BY Zenon, NextLogFacts DEF Logs
  <1>c. Committed(j, log[j], commitIndex[j]) /\ \A l \in Logs(j) : Committed(j, l, l.first)
    BY Zenon, <1>0 DEF CoverOK
  <1>o. ASSUME NEW l \in Logs(j), NEW n \in Nat, Committed(j, l, n)
        PROVE  Committed(j, l, n)'
    BY Zenon, <1>0, <1>f, <1>o, CommittedMoves DEF Moves, Alike
  <1>1. CASE Restart(j)
    <2>1. log'[j] = disk[j].log /\ disk'[j] = disk[j] /\ commitIndex'[j] = disk[j].log.first
      BY Zenon, <1>1, RestartEffect
    <2>2. PICK l \in Logs(j) : l = disk[j].log
      BY Zenon, <1>f
    <2>3. Committed(j, l, l.first)'
      BY Zenon, <1>c, <1>f, <1>o
    <2>4. QED
      BY Zenon, <2>1, <2>2, <2>3 DEF Logs
  <1>2. CASE ~Restart(j)
    <2>0. PICK x : x = log'[j]
      BY Zenon
    <2>x. /\ Moves(j, log[j], x) /\ lastLogTerm(x) \in Term /\ x.last \in Nat /\ x.first \in Nat
          /\ IsLog(x)
      BY Zenon, <1>2, <1>x, <2>0, CopyStep
    <2>1. ASSUME NEW n \in Nat, Committed(j, log[j], n)
          PROVE  Committed(j, x, n)'
      BY Zenon, <1>0, <1>f, <2>x, <2>1, CommittedMoves
    <2>2. Committed(j, x, x.first)'
      <3>1. CASE log'[j].first = log[j].first
        BY Zenon, <1>c, <1>f, <2>0, <2>1, <3>1
      <3>2. CASE Snapshot(j)
        <4>1. /\ service[j].index \in log[j].first..log[j].last /\ service[j].index <= commitIndex[j]
              /\ log'[j] = trimLogL(log[j], service[j].index)
          BY ZenonT(40), <3>2, SnapshotEffect
        <4>2. x.first = service[j].index
          BY <1>f, <2>0, <4>1, TrimOK, SMTT(30)
        <4>3. service[j].index \in 0..commitIndex[j]
          BY <1>f, <4>1, SMTT(30)
        <4>4. Committed(j, log[j], x.first)
          BY Zenon, <1>0, <1>c, <1>f, <4>2, <4>3, CommittedDown
        <4>5. QED
          BY Zenon, <2>x, <2>1, <4>4
      <3>3. CASE \E m \in msgs : InstallSnapshot(j, m) /\ m.snapshot.index > log[j].first
        <4>1. PICK m \in msgs : InstallSnapshot(j, m) /\ m.snapshot.index > log[j].first
          BY Zenon, <3>3
        <4>2. PICK n : n = m.snapshot.index
          BY Zenon
        <4>3. log'[j].first = n /\ Committed(j, log[j], n)'
          BY Zenon, <1>0, <4>1, <4>2, InstalledCommitted
        <4>4. QED
          BY Zenon, <2>0, <4>3
      <3>4. QED
        BY Zenon, <1>2, <3>1, <3>2, <3>3, CopyStep
    <2>3. ASSUME NEW y \in Logs(j)'
          PROVE  Committed(j, y, y.first)'
      <3>1. y = x \/ y = log[j] \/ y = disk[j].log
        BY Zenon, <1>2, <2>0, <2>3, CopyStep DEF Logs
      <3>2. CASE y = x
        BY Zenon, <2>2, <3>2
      <3>3. CASE y \in Logs(j)
        BY Zenon, <1>c, <1>f, <1>o, <3>3
      <3>4. QED
        BY Zenon, <1>f, <3>1, <3>2, <3>3
    <2>4. PICK n : n = commitIndex'[j]
      BY Zenon
    <2>5. Committed(j, x, n)'
      <3>1. CASE n = commitIndex[j]
        BY Zenon, <1>c, <1>f, <2>1, <3>1
      <3>2. CASE \E c : Counts(j, c)
        <4>1. PICK c : Counts(j, c)
          BY Zenon, <3>2
        <4>2. /\ c \in commits' /\ c.term = currentTerm'[j] /\ n = c.index /\ log'[j] = log[j]
              /\ c.index <= log[j].last /\ c.index \in Nat /\ role[j] = "Leader"
              /\ currentTerm'[j] = currentTerm[j] /\ ledger' = ledger /\ c.term \in Nat
          BY Zenon, <1>f, <2>4, <4>1, LogFacts DEF Counts, RaftInvariant, LogInv, LogTypeOK
        <4>3. Same(c.term, lastLogTerm(log[j]), log[j].last) /\ c.term \in Term
          BY Zenon, <4>2, LeaderLog, LogFacts
        <4>4. Same(lastLogTerm(log[j]), c.term, n)
          BY <1>0, <1>f, <4>2, <4>3, SameSym, SameDown, SMTT(30)
        <4>5. PICK w : w = lastLogTerm(x)
          BY Zenon
        <4>6. Same(w, c.term, n)'
          BY Zenon, <2>0, <4>2, <4>4, <4>5 DEF Same
        <4>7. QED
          BY <2>0, <4>2, <4>5, <4>6 DEF Committed
      <3>3. CASE \E m \in msgs : /\ AppendEntries(j, m) /\ HearsCommit(j, m)
                                 /\ n = m.leaderCommit
        <4>1. PICK m \in msgs : /\ AppendEntries(j, m) /\ HearsCommit(j, m)
                                /\ n = m.leaderCommit
          BY Zenon, <3>3
        <4>2. ~PrevLogConflict(log[j], m)
          BY Zenon, <4>1 DEF HearsCommit
        <4>3. /\ m.term \in Term /\ Decided(m.term) /\ AppendOK(m) /\ currentTerm'[j] = m.term
              /\ x = AppendNewEntries(log[j], m)
          BY Zenon, <2>0, <4>1, <4>2, AppendEffect
        <4>4. Within(log[j], lastLogTerm(log[j]))
          BY Zenon, <1>f, LogFacts
        <4>5. m.lastIndex <= x.last /\ Same(lastLogTerm(x), m.term, m.lastIndex)
          BY Zenon, <1>0, <1>f, <4>2, <4>3, <4>4, AppendNewOK
        <4>6. /\ m.leaderCommit \in Nat /\ m.lastIndex \in Nat /\ m.leaderCommit <= m.lastIndex
              /\ Known(m.leaderCommit, m.term)
          BY Zenon, <4>3 DEF AppendOK
        <4>7. n <= x.last /\ Same(lastLogTerm(x), m.term, n)
          BY <1>0, <2>x, <4>1, <4>3, <4>5, <4>6, SameDown, SMTT(30)
        <4>8. QED
          BY Zenon, <1>0, <2>x, <4>1, <4>3, <4>6, <4>7, KnownCommitted
      <3>4. CASE n = snapshot[j].index /\ log'[j] = log[j]
        <4>1. n = log[j].first
          BY Zenon, <1>0, <3>4 DEF SnapshotsOK
        <4>2. QED
          BY Zenon, <1>c, <1>f, <2>1, <4>1
      <3>5. QED
        BY Zenon, <1>2, <2>4, <3>1, <3>2, <3>3, <3>4, CommitIndexStep
    <2>6. QED
      BY Zenon, <2>0, <2>3, <2>4, <2>5
  <1>3. QED
    BY Zenon, <1>1, <1>2
=============================================================================
