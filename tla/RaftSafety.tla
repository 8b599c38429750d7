----------------------------- MODULE RaftSafety -----------------------------
(***************************************************************************)
(* RaftInvariant is inductive, and what follows from it: the safety        *)
(* properties of Raft's logs, for every odd number of peers.               *)
(***************************************************************************)
EXTENDS RaftService, RaftElections

-----------------------------------------------------------------------------
(***************************************************************************)
(* Majorities.                                                             *)
(***************************************************************************)

\* Some peer of Q has the largest match.
LEMMA TopOf ==
    ASSUME NEW match \in [Server -> Nat], NEW Q \in SUBSET Server, Q # {}
    PROVE  \E j \in Q : \A i \in Q : match[i] <= match[j]
  <1> DEFINE Above(j) == {i \in Q : match[i] > match[j]}
             S == {Cardinality(Above(j)) : j \in Q}
  <1>1. \A j \in Q : IsFiniteSet(Above(j)) /\ Cardinality(Above(j)) \in Nat
    BY Zenon, ServerAssumption, FS_Subset, FS_CardinalityType
  <1>s. S \in SUBSET Nat /\ S # {}
    BY Zenon, <1>1
  <1>2. PICK n \in S : \A y \in S : n <= y
    <2> HIDE DEF S
    <2>1. QED
      BY Zenon, <1>s, LeastExists
  <1>3. PICK j \in Q : n = Cardinality(Above(j))
    BY Zenon, <1>2
  <1>4. ASSUME NEW i \in Q, ~(match[i] <= match[j])
        PROVE  FALSE
    <2>1. /\ i \in Above(j) /\ i \notin Above(i)
          /\ \A k \in Above(i) : k \in Above(j)
      BY <1>4
    <2>2. Above(i) \subseteq Above(j) /\ Above(i) # Above(j)
      BY Zenon, <2>1
    <2>3. Cardinality(Above(i)) < Cardinality(Above(j))
      BY <1>1, <2>2, FS_Subset, FS_CardinalityType
    <2>4. Cardinality(Above(j)) <= Cardinality(Above(i))
      BY Zenon, <1>2, <1>3
    <2>5. Cardinality(Above(i)) \in Nat /\ Cardinality(Above(j)) \in Nat
      BY Zenon, <1>1
    <2> HIDE DEF Above
    <2>6. QED
      BY <2>3, <2>4, <2>5
  <1>5. QED
    BY Zenon, <1>4

\* There is an element at position pos of match sorted, and sort finds it.
LEMMA SortedAtIs ==
    ASSUME NEW match \in [Server -> Nat], NEW pos \in Nat, pos < Cardinality(Server)
    PROVE  LET N == SortedAt(match, pos)
           IN  /\ N \in {match[j] : j \in Server}
               /\ Cardinality({j \in Server : match[j] < N}) <= pos
  <1> DEFINE V == {match[j] : j \in Server}
             Upto(v) == {j \in Server : match[j] <= v}
             Below(v) == {j \in Server : match[j] < v}
             S == {v \in V : pos < Cardinality(Upto(v))}
  <1>0. IsFiniteSet(Server) /\ Server # {} /\ Cardinality(Server) \in Nat
    BY ServerAssumption, FS_EmptySet, FS_CardinalityType
  <1>1. \A v : /\ IsFiniteSet(Upto(v)) /\ IsFiniteSet(Below(v))
               /\ Cardinality(Upto(v)) \in Nat /\ Cardinality(Below(v)) \in Nat
    BY Zenon, <1>0, FS_Subset, FS_CardinalityType
  <1>2. S # {}
    <2>1. PICK j \in Server : \A i \in Server : match[i] <= match[j]
      BY Zenon, <1>0, TopOf
    <2>2. Upto(match[j]) = Server
      BY Zenon, <2>1
    <2>3. QED
      BY Zenon, <2>2
  <1>s. S \in SUBSET Nat
    BY Zenon
  <1>3. PICK N \in S : \A y \in S : N <= y
    <2> HIDE DEF S
    <2>1. QED
      BY Zenon, <1>2, <1>s, LeastExists
  <1>4. Cardinality(Below(N)) <= pos
    <2>1. CASE Below(N) = {}
      BY <2>1, FS_EmptySet
    <2>2. CASE Below(N) # {}
      <3>1. PICK j \in Below(N) : \A i \in Below(N) : match[i] <= match[j]
        BY Zenon, <2>2, TopOf
      <3>2. N \in Nat /\ match[j] < N /\ match[j] \in V
        BY Zenon, <1>3, <3>1
      <3>3. Upto(match[j]) = Below(N)
        BY <3>1, <3>2
      <3>4. match[j] \notin S
        BY <1>3, <3>2
      <3>5. ~(pos < Cardinality(Upto(match[j])))
        BY Zenon, <3>2, <3>4
      <3>6. Cardinality(Upto(match[j])) \in Nat
        BY Zenon, <1>1
      <3> HIDE DEF Upto, Below
      <3>7. QED
        BY <3>3, <3>5, <3>6, SMTT(30)
    <2>3. QED
      BY Zenon, <2>1, <2>2
  <1>5. \E v \in V : /\ Cardinality({j \in Server : match[j] < v}) <= pos
                     /\ pos < Cardinality({j \in Server : match[j] <= v})
    BY Zenon, <1>3, <1>4
  <1>6. QED
    BY Zenon, <1>5 DEF SortedAt

\* With an odd number of peers, element nPeers/2+1 is one that the leader and
\* half of the others have reached.
LEMMA OddCounts ==
    ASSUME Cardinality(Server) % 2 = 1
    PROVE  CountsMajority
  <1>0. IsFiniteSet(Server) /\ Cardinality(Server) \in Nat /\ Cardinality(Server) >= 3
    BY Zenon, ServerAssumption, FS_CardinalityType
  <1>1. PICK k \in Nat : Cardinality(Server) = 2 * k + 1 /\ Cardinality(Server) \div 2 = k
    BY <1>0
  <1> SUFFICES ASSUME NEW match \in [Server -> Nat], NEW N,
                      N = SortedAt(match, Cardinality(Server) \div 2 + 1)
               PROVE  /\ N \in {match[j] : j \in Server}
                      /\ \A i \in Server : match[i] < N =>
                            2 * Cardinality({i} \cup {j \in Server : match[j] >= N})
                                > Cardinality(Server)
    BY Zenon DEF CountsMajority
  <1>2. /\ N \in {match[j] : j \in Server}
        /\ Cardinality({j \in Server : match[j] < N}) <= k + 1
    BY <1>0, <1>1, SortedAtIs
  <1>3. ASSUME NEW i \in Server, match[i] < N
        PROVE  2 * Cardinality({i} \cup {j \in Server : match[j] >= N}) > Cardinality(Server)
    <2> DEFINE B == {j \in Server : match[j] < N}
               H == {j \in Server : match[j] >= N}
    <2>1. IsFiniteSet(B) /\ IsFiniteSet(H) /\ B \subseteq Server
      BY Zenon, <1>0, FS_Subset
    <2>2. N \in Nat
      BY Zenon, <1>2
    <2>3. Server \ B = H /\ i \notin H /\ Server \cap B = B
      BY <1>3, <2>2
    <2>4. Cardinality(H) = Cardinality(Server) - Cardinality(B)
      BY Zenon, <1>0, <2>3, FS_Difference
    <2>5. Cardinality(H \cup {i}) = Cardinality(H) + 1
      BY Zenon, <2>1, <2>3, FS_AddElement
    <2>6. {i} \cup H = H \cup {i}
      BY Zenon
    <2>7. Cardinality(B) \in Nat /\ Cardinality(H) \in Nat
      BY Zenon, <2>1, FS_CardinalityType
    <2>b. Cardinality(B) <= k + 1
      BY Zenon, <1>2
    <2> HIDE DEF B, H
    <2>c. Cardinality({i} \cup H) = Cardinality(H) + 1
      BY <2>5, <2>6, Zenon
    <2>d. PICK x, b, h : x = Cardinality({i} \cup H) /\ b = Cardinality(B) /\ h = Cardinality(H)
      BY Zenon
    <2>e. x = h + 1 /\ h = (2 * k + 1) - b /\ b \in Nat /\ h \in Nat /\ b <= k + 1
      <3>1. x = h + 1
        BY <2>c, <2>d, Zenon
      <3>2. h = (2 * k + 1) - b
        BY <1>1, <2>d, <2>4, Zenon
      <3>3. b \in Nat /\ h \in Nat /\ b <= k + 1
        BY <2>b, <2>d, <2>7, Zenon
      <3>4. QED
        BY Zenon, <3>1, <3>2, <3>3
    <2>f. 2 * x > 2 * k + 1
      BY <2>e
    <2>8. 2 * Cardinality({i} \cup H) > Cardinality(Server)
      BY <1>1, <2>d, <2>f, Zenon
    <2>9. QED
      BY Zenon, <2>8 DEF H
  <1>4. QED
    BY Zenon, <1>2, <1>3

\* Two majorities have a peer in common.
LEMMA QuorumsDoMeet ==
    ASSUME ElectionInv, CommitsOK
    PROVE  QuorumsMeet
  <1> SUFFICES ASSUME NEW e \in elections, NEW c \in commits
               PROVE  \E s \in e.voters : s \in c.quorum
    BY Zenon DEF QuorumsMeet
  <1>1. e.voters \in SUBSET Server /\ 2 * Cardinality(e.voters) > Cardinality(Server)
    BY Zenon DEF ElectionInv, ElectionTypeOK, VotersAreBound
  <1>2. c.quorum \in SUBSET Server /\ 2 * Cardinality(c.quorum) > Cardinality(Server)
    BY Zenon DEF CommitsOK
  <1>3. QED
    BY Zenon, <1>1, <1>2, MajoritiesMeet

-----------------------------------------------------------------------------
(***************************************************************************)
(* The induction.                                                          *)
(***************************************************************************)

\* The log that initL makes.
LEMMA BootLogIs ==
    /\ IsLog(BootLog) /\ BootLog.first = 0 /\ BootLog.last = 0
    /\ BootLog.ent[0] = [term |-> 0, cmd |-> NA] /\ lastLogTerm(BootLog) = 0
  BY DEF BootLog, SingletonLog, MakeLog, IsLog, LogEntry, lastLogTerm

\* LogInv holds when the peers boot.
LEMMA InitLogInv ==
    ASSUME Init
    PROVE  LogInv
  <1>0. /\ currentTerm = [i \in Server |-> 0] /\ log = [i \in Server |-> BootLog]
        /\ role = [i \in Server |-> "Follower"] /\ msgs = {} /\ elections = {}
        /\ ledger = [t \in Term |-> BootLog]
        /\ commits = {[term |-> 0, index |-> 0, quorum |-> Server]}
    BY Zenon DEF Init
  <1>d. \A i \in Server : disk[i].log = BootLog /\ disk[i].data = <<>>
    BY Zenon DEF Init
  <1>t. 0 \in Term
    BY BoundsAssumption DEF Term
  <1>l. \A t \in Term : /\ ledger[t] = BootLog /\ ledger[t].first = 0 /\ ledger[t].last = 0
                        /\ ledger[t].ent[0] = [term |-> 0, cmd |-> NA]
    BY Zenon, <1>0, BootLogIs
  <1>s. \A t \in Term, u \in Term : Same(t, u, 0)
    BY <1>l DEF Same
  <1>h. Has(0, 0, 0)
    BY <1>l, <1>t DEF Has
  <1>c. Content(<<>>, 0, 0)
    BY <1>t DEF Content
  <1>w. Within(BootLog, 0)
    BY <1>l, <1>t, BootLogIs DEF Within
  <1>g. \A i \in Server : \A l \in Logs(i) : l = BootLog
    BY Zenon, <1>0, <1>d DEF Logs
  <1>1. LogTypeOK
    <2>1. /\ log = [i \in Server |-> log[i]]
          /\ \A i \in Server : IsLog(log[i]) /\ IsLog(disk[i].log)
      BY Zenon, <1>0, <1>d, BootLogIs
    <2>2. <<>> \in Seq(Command)
      OBVIOUS
    <2>3. snapshot \in [Server -> SnapshotType]
      BY Zenon, <2>2 DEF Init, SnapshotType
    <2>4. /\ commitIndex \in [Server -> Nat] /\ lastApplied \in [Server -> Nat]
          /\ applySnapshot \in [Server -> BOOLEAN]
          /\ service \in [Server -> [index : Nat, cmds : Seq(Command)]]
      BY Zenon, <2>2 DEF Init
    <2>5. /\ nextIndex \in [Server -> [Server -> Nat]] /\ matchIndex \in [Server -> [Server -> Nat]]
      BY Zenon DEF Init
    <2>6. applier \in [Server -> [pc : {"top", "wait", "snap", "resume", "cmd", "check", "exited"},
                                  index : Nat, data : Seq(Command)]]
      BY ZenonT(40), <2>2 DEF Init, Idle
    <2>7. QED
      BY Zenon, <2>1, <2>3, <2>4, <2>5, <2>6 DEF LogTypeOK
  <1>2. LedgerOK
    <2>1. \A t \in Term : 0 \in 0..t
      BY BoundsAssumption DEF Term
    <2>2. QED
      BY <1>0, <1>l, <1>s, <1>t, <2>1, BootLogIs DEF LedgerOK
  <1>3. LogsOK
    BY <1>0, <1>g, <1>w, BootLogIs DEF LogsOK
  <1>4. MessagesOK /\ RequestsOK /\ CandidatesOK /\ ElectedOK /\ VoteOK
    BY ZenonT(40), <1>0 DEF MessagesOK, RequestsOK, CandidatesOK, ElectedOK, VoteOK
  <1>5. KeepOK
    <2> SUFFICES ASSUME NEW s \in Server, NEW t \in Term, NEW n \in 0..ledger[t].last,
                        Pledged(s, n, t)
                 PROVE  t <= currentTerm[s] /\ \A l \in Logs(s) : Holds(l, n, t)
      BY Zenon DEF KeepOK
    <2>1. n = 0 /\ t = 0
      BY <1>l DEF Pledged, Has
    <2>2. QED
      BY <1>0, <1>g, <1>h, <2>1, BootLogIs, SMTT(30) DEF Holds
  <1>6. CommitsOK
    <2>1. Cardinality(Server) \in Nat /\ Cardinality(Server) >= 3
      BY Zenon, ServerAssumption, FS_CardinalityType
    <2>2. QED
      BY <1>0, <1>h, <1>t, <2>1 DEF CommitsOK
  <1>7. DiskOK
    BY Zenon, <1>0, <1>d DEF DiskOK
  <1>8. CoverOK
    <2>1. \A i \in Server : commitIndex[i] = 0
      BY Zenon DEF Init
    <2>2. \A i \in Server : Committed(i, BootLog, 0)
      BY <1>0, <1>s, <1>t, BootLogIs DEF Committed
    <2>3. QED
      BY Zenon, <1>0, <1>g, <2>1, <2>2, BootLogIs DEF CoverOK
  <1>9. IndexOK
    BY ZenonT(40), <1>0 DEF IndexOK
  <1>10. SnapshotsOK
    <2>1. \A i \in Server : snapshot[i] = [index |-> 0, term |-> 0, data |-> <<>>]
      BY Zenon DEF Init
    <2>2. QED
      BY <1>0, <1>c, <1>d, <2>1, BootLogIs DEF SnapshotsOK
  <1>11. ApplyOK
    <2>1. Executed(<<>>)
      BY <1>0, <1>c DEF Executed
    <2>2. \A i \in Server : /\ commitIndex[i] = 0 /\ lastApplied[i] = 0
                            /\ service[i] = [index |-> 0, cmds |-> <<>>]
                            /\ applier[i].pc = "top"
      BY Zenon DEF Init, Idle
    <2>3. QED
      BY <2>1, <2>2, SMTT(30) DEF ApplyOK, PeerApplyOK
  <1>12. QED
    BY Zenon, <1>1, <1>2, <1>3, <1>4, <1>5, <1>6, <1>7, <1>8, <1>9, <1>10, <1>11 DEF LogInv

\* AloneInv holds when the peers boot.
LEMMA InitAloneInv == Init => AloneInv
  BY Zenon DEF Init, AloneInv, LeaderIsAlone

\* A step that changes nothing.
LEMMA StutterLogInv ==
    ASSUME LogInv, UNCHANGED vars
    PROVE  LogInv'
  <1> USE DEF vars
  <1>1. LogTypeOK'
    BY Zenon DEF LogInv, LogTypeOK, IsLog
  <1>s. /\ \A t, u, n : Same(t, u, n)' <=> Same(t, u, n)
        /\ \A t, u, n : Has(t, n, u)' <=> Has(t, n, u)
        /\ \A l, t : Within(l, t)' <=> Within(l, t)
        /\ \A t : Decided(t)' <=> Decided(t)
        /\ \A i \in Server : Logs(i)' = Logs(i)
    BY Zenon DEF Same, Has, Within, Decided, Logs
  <1>m. /\ \A t, n : (AppendSent(t, n)' <=> AppendSent(t, n)) /\ (Known(n, t)' <=> Known(n, t))
        /\ \A t, n : InstallSent(t, n)' <=> InstallSent(t, n)
        /\ \A s, n, t : Acked(s, n, t)' <=> Acked(s, n, t)
        /\ \A c, t : Campaigned(c, t)' <=> Campaigned(c, t)
        /\ \A data, n, t : Content(data, n, t)' <=> Content(data, n, t)
    BY Zenon DEF AppendSent, Known, InstallSent, Acked, Campaigned, Content
  <1>2. LedgerOK'
    BY Zenon, <1>s DEF LogInv, LedgerOK
  <1>l. LogsOK'
    BY Zenon, <1>s DEF LogInv, LogsOK
  <1>3. \A m \in msgs : MessageOK(m) => MessageOK(m)'
    <2> SUFFICES ASSUME NEW m \in msgs, MessageOK(m) PROVE MessageOK(m)'
      BY Zenon
    <2>1. /\ RequestOK(m)' <=> RequestOK(m)
          /\ AppendOK(m)' <=> AppendOK(m)
          /\ InstallOK(m)' <=> InstallOK(m)
      BY Zenon, <1>s, <1>m DEF RequestOK, AppendOK, InstallOK
    <2>2. AppendReplyOK(m)' <=> AppendReplyOK(m)
      BY Zenon, <1>m DEF AppendReplyOK
    <2>3. InstallReplyOK(m)' <=> InstallReplyOK(m)
      BY Zenon, <1>m DEF InstallReplyOK
    <2>4. QED
      BY Zenon, <1>m, <2>1, <2>2, <2>3 DEF MessageOK
  <1>4. MessagesOK' /\ RequestsOK'
    BY Zenon, <1>3 DEF LogInv, MessagesOK, RequestsOK
  <1>5. CandidatesOK' /\ ElectedOK'
    BY Zenon DEF LogInv, CandidatesOK, ElectedOK, Has, Decided, Campaigned, lastLogTerm
  <1>6. \A s, n, t : (Pledged(s, n, t)' <=> Pledged(s, n, t)) /\ (Safe(n, t, s)' <=> Safe(n, t, s))
    BY DEF Pledged, Acked, Led, Shipped, Counted, Has, Safe, Decided
  <1>7. KeepOK'
    <2>1. \A l, n, t : Holds(l, n, t)' <=> Holds(l, n, t)
      BY Zenon, <1>s DEF Holds
    <2>2. QED
      BY Zenon, <1>s, <1>6, <2>1 DEF LogInv, KeepOK
  <1>8. VoteOK'
    BY <1>6 DEF LogInv, VoteOK, VoteCounts, Granted, Campaigned, Covers
  <1>9. CommitsOK' /\ DiskOK'
    BY Zenon, <1>s DEF LogInv, CommitsOK, DiskOK
  <1>c. CoverOK'
    <2>1. \A i \in Server : \A l, n : Committed(i, l, n)' <=> Committed(i, l, n)
      BY Zenon, <1>s DEF Committed
    <2>2. QED
      BY Zenon, <1>s, <2>1 DEF LogInv, CoverOK
  <1>10. IndexOK'
    BY Zenon, <1>m DEF LogInv, IndexOK
  <1>11. SnapshotsOK'
    BY Zenon DEF LogInv, SnapshotsOK, Content, lastLogTerm
  <1>12. \A cmds : Executed(cmds)' <=> Executed(cmds)
    BY Zenon DEF Executed, Content
  <1>13. ApplyOK'
    BY Zenon, <1>12 DEF LogInv, ApplyOK, PeerApplyOK
  <1>14. QED
    BY Zenon, <1>1, <1>2, <1>l, <1>4, <1>5, <1>7, <1>8, <1>9, <1>c, <1>10, <1>11, <1>13 DEF LogInv

\* Every step preserves RaftInvariant.
LEMMA NextRaftInvariant ==
    ASSUME CountsMajority, RaftInvariant, [Next]_vars
    PROVE  RaftInvariant'
  <1>1. ElectionInv' /\ AloneInv' /\ QuorumsMeet
    BY Zenon, NextElectionInv, NextAloneInv, QuorumsDoMeet DEF RaftInvariant, LogInv
  <1>2. CASE UNCHANGED vars
    BY Zenon, <1>1, <1>2, StutterLogInv DEF RaftInvariant
  <1>3. CASE Next
    <2>1. LogTypeOK' /\ LedgerOK' /\ LogsOK' /\ MessagesOK'
      BY Zenon, <1>1, <1>3, NextLogTypeOK, NextGrows, NextLogsOK, NextMessagesOK
    <2>2. RequestsOK' /\ CandidatesOK' /\ ElectedOK'
      BY Zenon, <1>1, <1>3, NextRequestsOK, NextCandidatesOK, NextElectedOK
    <2>3. KeepOK' /\ VoteOK' /\ CommitsOK' /\ DiskOK'
      BY Zenon, <1>1, <1>3, NextKeepOK, NextVoteOK, NextCommitsOK, NextDiskOK
    <2>4. CoverOK' /\ IndexOK' /\ SnapshotsOK' /\ ApplyOK'
      BY Zenon, <1>1, <1>3, NextCoverOK, NextIndexOK, NextSnapshotsOK, NextApplyOK
    <2>5. QED
      BY Zenon, <1>1, <2>1, <2>2, <2>3, <2>4 DEF RaftInvariant, LogInv
  <1>4. QED
    BY Zenon, <1>2, <1>3

\* The inductive invariant of Raft holds for every odd number of peers.  For
\* an even number setCommitIndexL counts one peer too few.
THEOREM RaftIsInvariant ==
    ASSUME Cardinality(Server) % 2 = 1
    PROVE  Spec => []RaftInvariant
  <1>1. CountsMajority
    BY Zenon, OddCounts
  <1>2. Init => RaftInvariant
    BY Zenon, InitElectionInv, InitAloneInv, InitLogInv DEF RaftInvariant
  <1>3. RaftInvariant /\ [Next]_vars => RaftInvariant'
    BY Zenon, <1>1, NextRaftInvariant
  <1>4. QED
    BY <1>2, <1>3, PTL DEF Spec

-----------------------------------------------------------------------------
(***************************************************************************)
(* What follows.                                                           *)
(***************************************************************************)

\* Two stretches of ledgers that agree on an entry agree before it.
LEMMA InvLogMatching ==
    ASSUME RaftInvariant
    PROVE  LogMatching
  <1> SUFFICES ASSUME NEW i \in Server, NEW j \in Server,
                      NEW k \in (log[i].first..log[i].last) \cap (log[j].first..log[j].last),
                      log[i].ent[k].term = log[j].ent[k].term,
                      NEW n \in (log[i].first..k) \cap (log[j].first..k)
               PROVE  /\ log[i].ent[n].term = log[j].ent[n].term
                      /\ n > log[i].first /\ n > log[j].first =>
                            log[i].ent[n].cmd = log[j].ent[n].cmd
    BY Zenon DEF LogMatching
  <1>1. PICK t, u : t = lastLogTerm(log[i]) /\ u = lastLogTerm(log[j])
    BY Zenon
  <1>2. /\ LedgerOK /\ t \in Term /\ u \in Term
        /\ IsLog(log[i]) /\ IsLog(log[j]) /\ Within(log[i], t) /\ Within(log[j], u)
        /\ log[i].first \in Nat /\ log[i].last \in Nat
        /\ log[j].first \in Nat /\ log[j].last \in Nat
    BY Zenon, <1>1, LogFacts DEF Logs
  <1>3. Has(t, k, log[i].ent[k].term) /\ Has(u, k, log[j].ent[k].term)
    BY Zenon, <1>2, EntryHas
  <1>4. Same(t, u, k)
    BY Zenon, <1>2, <1>3, Matching
  <1>5. n \in log[i].first..log[i].last /\ n \in log[j].first..log[j].last /\ n \in 0..k
    BY <1>2
  <1>6. ledger[t].ent[n] = ledger[u].ent[n]
    BY Zenon, <1>4, <1>5 DEF Same
  <1>7. QED
    BY Zenon, <1>2, <1>5, <1>6 DEF Within

\* What i knows to be committed is in the ledger of every later leader.
LEMMA InvLeaderCompleteness ==
    ASSUME RaftInvariant, QuorumsMeet
    PROVE  LeaderCompleteness
  <1> SUFFICES ASSUME NEW i \in Server, NEW j \in Server, role[j] = "Leader",
                      currentTerm[j] >= currentTerm[i]
               PROVE  /\ commitIndex[i] <= log[j].last
                      /\ \A k \in Max({log[i].first, log[j].first})..commitIndex[i] :
                             k <= log[i].last => log[i].ent[k].term = log[j].ent[k].term
    BY Zenon DEF LeaderCompleteness
  <1>1. PICK t, u, T : t = lastLogTerm(log[i]) /\ u = lastLogTerm(log[j]) /\ T = currentTerm[j]
    BY Zenon
  <1>2. /\ LedgerOK /\ t \in Term /\ u \in Term /\ T \in Term /\ T \in Nat
        /\ currentTerm[i] \in Nat
        /\ IsLog(log[i]) /\ Within(log[i], t)
        /\ log[i].first \in Nat /\ log[i].last \in Nat
        /\ log[j].first \in Nat /\ log[j].last \in Nat /\ commitIndex[i] \in Nat
    BY Zenon, <1>1, LogFacts DEF Logs, RaftInvariant, LogInv, LogTypeOK
  <1>3. Decided(T) /\ Within(log[j], T) /\ log[j].last = ledger[T].last
    BY Zenon, <1>1, LeaderLog
  <1>4. PICK c \in commits : /\ c.term <= currentTerm[i] /\ commitIndex[i] <= c.index
                             /\ Same(t, c.term, commitIndex[i])
    BY Zenon, <1>1 DEF RaftInvariant, LogInv, CoverOK, Committed
  <1>5. c.term \in Term /\ c.term \in Nat /\ c.index \in Nat
    BY Zenon, TermIsNat DEF RaftInvariant, LogInv, CommitsOK
  <1>6. Has(T, c.index, c.term) /\ Same(T, c.term, c.index)
    BY <1>1, <1>2, <1>3, <1>4, <1>5, LeaderAgrees
  <1>7. commitIndex[i] <= log[j].last
    BY <1>2, <1>3, <1>4, <1>5, <1>6, LedgerType, SMTT(30) DEF Has
  <1>8. ASSUME NEW k \in Max({log[i].first, log[j].first})..commitIndex[i], k <= log[i].last
        PROVE  log[i].ent[k].term = log[j].ent[k].term
    <2>1. PICK S : S = {log[i].first, log[j].first}
      BY Zenon
    <2>2. S \in SUBSET Nat /\ S # {} /\ \A y \in S : y <= log[i].first + log[j].first
      BY <1>2, <2>1, SMTT(30)
    <2>3. Max(S) \in S /\ \A y \in S : y <= Max(S)
      <3>1. PICK b \in Nat : b = log[i].first + log[j].first
        BY <1>2
      <3>2. QED
        BY Zenon, <2>2, <3>1, MaxIs
    <2>4. Max(S) \in Nat /\ log[i].first <= Max(S) /\ log[j].first <= Max(S)
      BY Zenon, <2>1, <2>2, <2>3
    <2>5. k \in Int /\ Max(S) <= k /\ k <= commitIndex[i]
      BY <1>2, <1>8, <2>1, <2>4, SMTT(30)
    <2>6. /\ k \in log[i].first..log[i].last /\ k \in log[j].first..log[j].last
          /\ k \in 0..commitIndex[i] /\ k \in 0..c.index
      BY <1>2, <1>4, <1>5, <1>7, <1>8, <2>4, <2>5, SMTT(30)
    <2>7. /\ ledger[t].ent[k] = ledger[c.term].ent[k]
          /\ ledger[T].ent[k] = ledger[c.term].ent[k]
      BY Zenon, <1>4, <1>6, <2>6 DEF Same
    <2>8. QED
      BY <1>2, <1>3, <2>6, <2>7 DEF Within
  <1>9. QED
    BY Zenon, <1>7, <1>8

\* Services execute prefixes of one sequence.
LEMMA InvStateMachineSafety ==
    ASSUME RaftInvariant, QuorumsMeet
    PROVE  StateMachineSafety
  <1> SUFFICES ASSUME NEW i \in Server, NEW j \in Server,
                      NEW k \in 1..Min({Len(service[i].cmds), Len(service[j].cmds)})
               PROVE  service[i].cmds[k] = service[j].cmds[k]
    BY Zenon DEF StateMachineSafety
  <1>1. PICK a, b : a = service[i].cmds /\ b = service[j].cmds
    BY Zenon
  <1>2. a \in Seq(Command) /\ b \in Seq(Command)
    BY ZenonT(40), <1>1 DEF RaftInvariant, LogInv, LogTypeOK
  <1>3. k \in 1..Len(a) /\ k \in 1..Len(b)
    <2>1. PICK S : S = {Len(a), Len(b)}
      BY Zenon
    <2>2. S \in SUBSET Nat /\ S # {}
      BY <1>2, <2>1, SMTT(30)
    <2>3. Min(S) \in Nat /\ Min(S) <= Len(a) /\ Min(S) <= Len(b)
      BY Zenon, <2>1, <2>2, MinIs
    <2>4. k \in 1..Min(S)
      BY Zenon, <1>1, <2>1
    <2>5. Len(a) \in Nat /\ Len(b) \in Nat
      BY <1>2, SMTT(30)
    <2>6. QED
      BY <2>3, <2>4, <2>5, SMTT(30)
  <1>4. Executed(a) /\ Executed(b)
    BY ZenonT(40), <1>1 DEF RaftInvariant, LogInv, ApplyOK, PeerApplyOK
  <1>5. PICK c \in commits : Len(a) <= c.index /\ Content(a, Len(a), c.term)
    BY Zenon, <1>4 DEF Executed
  <1>6. PICK d \in commits : Len(b) <= d.index /\ Content(b, Len(b), d.term)
    BY ZenonT(40), <1>4 DEF Executed
  <1>7. c.index \in Nat /\ d.index \in Nat /\ Len(a) \in Nat /\ Len(b) \in Nat /\ k \in Nat
    BY <1>2, <1>3, SMTT(30) DEF RaftInvariant, LogInv, CommitsOK
  <1>8. Same(c.term, d.term, k)
    BY <1>3, <1>5, <1>6, <1>7, CommitsAgree
  <1>9. ledger[c.term].ent[k] = ledger[d.term].ent[k]
    BY <1>7, <1>8, SMTT(30) DEF Same
  <1>10. a[k] = ledger[c.term].ent[k].cmd /\ b[k] = ledger[d.term].ent[k].cmd
    BY Zenon, <1>3, <1>5, <1>6 DEF Content
  <1>11. QED
    BY Zenon, <1>1, <1>9, <1>10

\* A peer that was counted for a commit has kept its entry on disk.
LEMMA InvCommittedOnMajority ==
    ASSUME RaftInvariant, QuorumsMeet
    PROVE  CommittedOnMajority
  <1> SUFFICES ASSUME NEW i \in Server, NEW k \in log[i].first..commitIndex[i], k <= log[i].last
               PROVE  2 * Cardinality({s \in Server : SavedAt(s, k, log[i].ent[k].term)})
                          > Cardinality(Server)
    BY Zenon DEF CommittedOnMajority
  <1>1. PICK t, v : t = lastLogTerm(log[i]) /\ v = log[i].ent[k].term
    BY Zenon
  <1>2. /\ LedgerOK /\ t \in Term /\ IsLog(log[i]) /\ Within(log[i], t)
        /\ log[i].first \in Nat /\ log[i].last \in Nat
        /\ commitIndex[i] \in Nat /\ k \in Nat /\ k \in log[i].first..log[i].last
    <2>1. /\ LedgerOK /\ t \in Term /\ IsLog(log[i]) /\ Within(log[i], t)
          /\ log[i].first \in Nat /\ log[i].last \in Nat
      BY Zenon, <1>1, LogFacts DEF Logs
    <2>2. commitIndex[i] \in Nat
      BY Zenon DEF RaftInvariant, LogInv, LogTypeOK
    <2>3. QED
      BY <2>1, <2>2
  <1>3. PICK c \in commits : /\ commitIndex[i] <= c.index
                             /\ Same(t, c.term, commitIndex[i])
    BY Zenon, <1>1 DEF RaftInvariant, LogInv, CoverOK, Committed
  <1>4. /\ c.term \in Term /\ c.term \in Nat /\ c.index \in Nat /\ c.quorum \subseteq Server
        /\ Has(c.term, c.index, c.term)
        /\ 2 * Cardinality(c.quorum) > Cardinality(Server)
    BY Zenon, TermIsNat DEF RaftInvariant, LogInv, CommitsOK
  <1>5. Has(t, k, v)
    BY Zenon, <1>1, <1>2, EntryHas
  <1>6. Has(c.term, k, v)
    BY <1>2, <1>3, <1>4, <1>5, SameHas
  <1>7. ASSUME NEW s \in c.quorum
        PROVE  s \in Server /\ SavedAt(s, k, v)
    <2>1. s \in Server /\ Pledged(s, c.index, c.term)
      BY Zenon, <1>4 DEF Pledged, Counted
    <2>2. c.index \in 0..ledger[c.term].last
      BY Zenon, <1>4 DEF Has
    <2>3. Safe(c.index, c.term, currentTerm[s])
      BY Zenon, <1>4, LeaderHasCommit DEF Safe
    <2>4. PICK l, u : l = disk[s].log /\ u = lastLogTerm(l)
      BY Zenon
    <2>5. Holds(l, c.index, c.term)
      BY Zenon, <1>4, <2>1, <2>2, <2>3, <2>4 DEF RaftInvariant, LogInv, KeepOK, Logs
    <2>6. /\ IsLog(l) /\ u \in Term /\ Within(l, u) /\ l.first \in Nat /\ l.last \in Nat
      BY Zenon, <2>1, <2>4, LogFacts DEF Logs
    <2>7. c.index <= l.last /\ Has(u, c.index, c.term)
      BY Zenon, <2>4, <2>5 DEF Holds
    <2>8. Same(c.term, u, c.index)
      BY Zenon, <1>2, <1>4, <2>6, <2>7, Matching
    <2>9. Has(u, k, v)
      BY <1>2, <1>3, <1>4, <1>6, <2>6, <2>8, SameHas
    <2>10. k <= l.last
      BY <1>2, <1>3, <1>4, <2>6, <2>7
    <2>11. k >= l.first => l.ent[k].term = v
      BY <1>2, <2>6, <2>9, <2>10, SMTT(30) DEF Within, Has
    <2>12. QED
      BY <1>2, <2>1, <2>4, <2>6, <2>10, <2>11 DEF SavedAt
  <1>8. PICK S : S = {s \in Server : SavedAt(s, k, v)}
    BY Zenon
  <1>9. S \subseteq Server /\ c.quorum \subseteq S
    BY Zenon, <1>7, <1>8
  <1>10. /\ IsFiniteSet(Server) /\ IsFiniteSet(S) /\ Cardinality(Server) \in Nat
         /\ Cardinality(S) \in Nat /\ Cardinality(c.quorum) \in Nat
         /\ Cardinality(c.quorum) <= Cardinality(S)
    <2>1. IsFiniteSet(S) /\ IsFiniteSet(Server)
      BY Zenon, <1>9, ServerAssumption, FS_Subset
    <2>2. IsFiniteSet(c.quorum) /\ Cardinality(c.quorum) <= Cardinality(S)
      BY Zenon, <1>9, <2>1, FS_Subset
    <2>3. QED
      BY Zenon, <2>1, <2>2, FS_CardinalityType
  <1>11. 2 * Cardinality(S) > Cardinality(Server)
    BY <1>4, <1>10
  <1>12. QED
    BY Zenon, <1>1, <1>8, <1>11

\* Every index that is used lies within the log.
LEMMA InvLogAccessInRange ==
    ASSUME RaftInvariant
    PROVE  LogAccessInRange
  <1> SUFFICES ASSUME NEW i \in Server
               PROVE  /\ commitIndex[i] <= log[i].last
                      /\ service[i].index <= log[i].last
                      /\ role[i] = "Leader" => \A j \in Server :
                            /\ nextIndex[i][j] <= log[i].last + 1
                            /\ matchIndex[i][j] > commitIndex[i] =>
                                   matchIndex[i][j] \in log[i].first..log[i].last
    BY Zenon DEF LogAccessInRange
  <1>1. /\ log[i].first \in Nat /\ log[i].last \in Nat
    BY ZenonT(40), LogFacts DEF Logs
  <1>2. /\ commitIndex[i] \in Nat /\ lastApplied[i] \in Nat /\ service[i].index \in Nat
        /\ matchIndex \in [Server -> [Server -> Nat]]
    BY Zenon DEF RaftInvariant, LogInv, LogTypeOK
  <1>3. commitIndex[i] <= log[i].last
    BY Zenon DEF RaftInvariant, LogInv, CoverOK, Committed
  <1>4. service[i].index <= log[i].last
    <2>1. service[i].index <= lastApplied[i] /\ lastApplied[i] <= commitIndex[i]
      BY Zenon DEF RaftInvariant, LogInv, ApplyOK, PeerApplyOK
    <2>2. QED
      BY <1>1, <1>2, <1>3, <2>1
  <1>5. ASSUME role[i] = "Leader", NEW j \in Server
        PROVE  /\ nextIndex[i][j] <= log[i].last + 1
               /\ matchIndex[i][j] > commitIndex[i] =>
                      matchIndex[i][j] \in log[i].first..log[i].last
    <2>1. PICK n \in Nat : n = matchIndex[i][j]
      BY ZenonT(40), <1>2
    <2>2. /\ nextIndex[i][j] <= log[i].last + 1
          /\ n = 0 \/ AppendSent(currentTerm[i], n) \/ InstallSent(currentTerm[i], n)
          /\ commitIndex[i] < log[i].first =>
                (AppendSent(currentTerm[i], n) \/ InstallSent(currentTerm[i], n)
                    => n >= log[i].first)
      BY ZenonT(40), <1>5, <2>1 DEF RaftInvariant, LogInv, IndexOK, AppendSent, InstallSent
    <2>3. log[i].last = ledger[currentTerm[i]].last
      BY Zenon, <1>5, LeaderLog
    <2>4. n <= log[i].last
      <3>1. CASE n = 0
        BY <1>1, <3>1
      <3>2. CASE AppendSent(currentTerm[i], n)
        <4>1. PICK m \in msgs : m.type = "AppendEntries" /\ m.term = currentTerm[i] /\ m.lastIndex = n
          BY Zenon, <3>2 DEF AppendSent
        <4>2. AppendOK(m)
          BY Zenon, <4>1 DEF RaftInvariant, LogInv, MessagesOK, MessageOK
        <4>3. QED
          BY Zenon, <2>3, <4>1, <4>2 DEF AppendOK
      <3>3. CASE InstallSent(currentTerm[i], n)
        <4>1. PICK m \in msgs : /\ m.type = "InstallSnapshot" /\ m.term = currentTerm[i]
                                /\ m.snapshot.index = n
          BY Zenon, <3>3 DEF InstallSent
        <4>2. InstallOK(m)
          BY Zenon, <4>1 DEF RaftInvariant, LogInv, MessagesOK, MessageOK
        <4>3. n \in 0..log[i].last
          BY Zenon, <2>3, <4>1, <4>2 DEF InstallOK, Has
        <4>4. QED
          BY <1>1, <4>3
      <3>4. QED
        BY Zenon, <2>2, <3>1, <3>2, <3>3
    <2>5. QED
      BY <1>1, <1>2, <2>1, <2>2, <2>4
  <1>6. QED
    BY Zenon, <1>3, <1>4, <1>5

\* Only a restart takes a service back.
LEMMA StepMovesForward ==
    ASSUME RaftInvariant, [Next]_vars, NEW i \in Server, restarts' = restarts
    PROVE  service'[i].index >= service[i].index
  <1>1. /\ service[i].index \in Nat /\ restarts \in Nat
        /\ service = [j \in Server |-> service[j]]
    BY Zenon DEF RaftInvariant, ElectionInv, ElectionTypeOK, LogInv, LogTypeOK
  <1>2. CASE service'[i] = service[i]
    BY <1>1, <1>2
  <1>3. CASE UNCHANGED vars
    BY Zenon, <1>2, <1>3 DEF vars
  <1>4. CASE Next
    <2>1. CASE Restart(i)
      BY <1>1, <2>1 DEF Restart
    <2>2. CASE apply(i)
      BY Zenon, <1>2, <2>2, ApplyCases
    <2>3. CASE receiveApplyMsg(i)
      <3>1. applier[i].pc \in {"snap", "cmd"}
        BY Zenon, <2>3 DEF receiveApplyMsg
      <3>2. service'[i].index = applier[i].index
        BY Zenon, <1>1, <2>3 DEF receiveApplyMsg
      <3>3. applier[i].index = lastApplied[i] /\ service[i].index <= lastApplied[i]
        BY ZenonT(40), <3>1 DEF RaftInvariant, LogInv, ApplyOK, PeerApplyOK
      <3>4. lastApplied[i] \in Nat
        BY Zenon DEF RaftInvariant, LogInv, LogTypeOK
      <3>5. QED
        BY Zenon, <1>1, <3>2, <3>3, <3>4
    <2>4. CASE Quiet(i)
      BY Zenon, <1>2, <2>4 DEF Quiet
    <2>5. QED
      BY Zenon, <1>4, <2>1, <2>2, <2>3, <2>4, ApplyKinds
  <1>5. QED
    BY Zenon, <1>3, <1>4

\* AppendEntries keeps logs that share an entry the same up to that entry,
\* whatever trimLogL and InstallSnapshot have dropped.
THEOREM LogsMatch ==
    ASSUME Cardinality(Server) % 2 = 1
    PROVE  Spec => []LogMatching
  BY RaftIsInvariant, InvLogMatching, PTL

\* What setCommitIndexL, a leader's commit index or a snapshot made a peer
\* commit is in the log of every leader of its term or a later one.
THEOREM LeadersAreComplete ==
    ASSUME Cardinality(Server) % 2 = 1
    PROVE  Spec => []LeaderCompleteness
  <1>1. RaftInvariant => LeaderCompleteness
    BY Zenon, QuorumsDoMeet, InvLeaderCompleteness DEF RaftInvariant, LogInv
  <1>2. QED
    BY <1>1, RaftIsInvariant, PTL

\* No two services are told different commands by apply, one by one or in a
\* snapshot, across leader changes, restarts and lost or repeated messages.
THEOREM ServicesAgree ==
    ASSUME Cardinality(Server) % 2 = 1
    PROVE  Spec => []StateMachineSafety
  <1>1. RaftInvariant => StateMachineSafety
    BY Zenon, QuorumsDoMeet, InvStateMachineSafety DEF RaftInvariant, LogInv
  <1>2. QED
    BY <1>1, RaftIsInvariant, PTL

\* apply hands every index to the service once and in order.
THEOREM ApplyIsInOrder ==
    ASSUME Cardinality(Server) % 2 = 1
    PROVE  Spec => []AppliedInOrder
  <1>1. RaftInvariant => AppliedInOrder
    BY Zenon DEF RaftInvariant, LogInv, ApplyOK, PeerApplyOK, AppliedInOrder
  <1>2. QED
    BY <1>1, RaftIsInvariant, PTL

\* An entry that a peer regards as committed is on the disks of a majority,
\* although InstallSnapshot is answered before persistL saves the snapshot.
THEOREM CommitsSurviveCrashes ==
    ASSUME Cardinality(Server) % 2 = 1
    PROVE  Spec => []CommittedOnMajority
  <1>1. RaftInvariant => CommittedOnMajority
    BY Zenon, QuorumsDoMeet, InvCommittedOnMajority DEF RaftInvariant, LogInv
  <1>2. QED
    BY <1>1, RaftIsInvariant, PTL

\* appendArgs announces no commit index beyond the entries it carries.
THEOREM AppendsCoverCommit ==
    ASSUME Cardinality(Server) % 2 = 1
    PROVE  Spec => []AppendCoversCommit
  <1>1. RaftInvariant => AppendCoversCommit
    BY Zenon DEF RaftInvariant, LogInv, MessagesOK, MessageOK, AppendOK, AppendCoversCommit
  <1>2. QED
    BY <1>1, RaftIsInvariant, PTL

\* The indices with which apply, Snapshot, append and setCommitIndexL read the
\* log are in it: none of them panics.
THEOREM LogAccessesAreInRange ==
    ASSUME Cardinality(Server) % 2 = 1
    PROVE  Spec => []LogAccessInRange
  BY RaftIsInvariant, InvLogAccessInRange, PTL

\* The variables of raft.go keep their types.
THEOREM RaftTypes ==
    ASSUME Cardinality(Server) % 2 = 1
    PROVE  Spec => []TypeOK
  <1>1. RaftInvariant => TypeOK
    BY Zenon DEF RaftInvariant, ElectionInv, LogInv, TypeOK
  <1>2. QED
    BY <1>1, RaftIsInvariant, PTL

\* receiveApplyMsg never takes a service to an earlier index.
THEOREM ServicesMoveForward ==
    ASSUME Cardinality(Server) % 2 = 1
    PROVE  Spec => ServiceMovesForward
  <1>1. RaftInvariant /\ [Next]_vars =>
          [\A i \in Server : restarts' = restarts => service'[i].index >= service[i].index]_vars
    BY Zenon, StepMovesForward
  <1>2. QED
    BY <1>1, RaftIsInvariant, PTL DEF Spec, ServiceMovesForward
=============================================================================
