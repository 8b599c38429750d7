--------------------------- MODULE RaftElections ----------------------------
(***************************************************************************)
(* Proofs about Raft: elections.  First the kinds of step that many        *)
(* handlers are (quiet, adopting a term, giving up, campaigning) and that  *)
(* each of them preserves ElectionInv; then votes and restarts; then every *)
(* handler; at last what a leader knows of other leaders.                  *)
(***************************************************************************)
EXTENDS Raft, FiniteSetTheorems, TLAPS

\* Two majorities of the peers have a peer in common (the test
\* *votes > nPeers/2 of processRequestReplyL).
LEMMA MajoritiesMeet ==
    ASSUME NEW P \in SUBSET Server, NEW Q \in SUBSET Server,
           2 * Cardinality(P) > Cardinality(Server),
           2 * Cardinality(Q) > Cardinality(Server)
    PROVE  P \cap Q # {}
  <1>1. IsFiniteSet(Server) /\ IsFiniteSet(P) /\ IsFiniteSet(Q)
    BY Zenon, ServerAssumption, FS_Subset
  <1>2. /\ Cardinality(Server) \in Nat /\ Cardinality(P) \in Nat
        /\ Cardinality(Q) \in Nat /\ Cardinality(P \cap Q) \in Nat
        /\ Cardinality(P \cup Q) \in Nat
    BY Zenon, <1>1, FS_CardinalityType, FS_Union, FS_Intersection
  <1>3. Cardinality(P \cup Q) = Cardinality(P) + Cardinality(Q) - Cardinality(P \cap Q)
    BY Zenon, <1>1, FS_Union
  <1>4. Cardinality(P \cup Q) <= Cardinality(Server)
    BY Zenon, <1>1, FS_Subset
  <1>5. Cardinality(P \cap Q) # 0
    BY <1>2, <1>3, <1>4
  <1>6. QED
    BY Zenon, <1>5, FS_EmptySet

\* votes > n/2 in integer division is the same as 2*votes > n.
LEMMA HalfOf ==
    ASSUME NEW v \in Nat, NEW n \in Nat, v > n \div 2
    PROVE  2 * v > n
  OBVIOUS

-----------------------------------------------------------------------------
(***************************************************************************)
(* What a step may do to the state that elections depend on.               *)
(***************************************************************************)

\* Messages are added, and none of them is about votes; a leader's message
\* comes from a leader.
NoVotesSent ==
    /\ msgs \subseteq msgs'
    /\ \A m \in msgs' \ msgs :
          /\ m.type \in {"AppendEntries", "AppendEntriesReply",
                         "InstallSnapshot", "InstallSnapshotReply"}
          /\ m.term \in Term /\ m.src \in Server /\ m.dst \in Server
          /\ m.type \in {"AppendEntries", "InstallSnapshot"} =>
                role[m.src] = "Leader" /\ m.term = currentTerm[m.src]

\* Term and vote on disk are those in memory.
DiskInStep ==
    /\ disk' = [i \in Server |-> disk'[i]]
    /\ \A i \in Server : /\ disk'[i].currentTerm = currentTerm'[i]
                         /\ disk'[i].votedFor = votedFor'[i]

Side == leaderId' \in [Server -> Server \cup {NA}] /\ restarts' \in Nat

\* Nothing that elections depend on changes.
QuietStep ==
    /\ UNCHANGED <<currentTerm, votedFor, role, votes, elections>>
    /\ NoVotesSent /\ DiskInStep /\ Side

\* Peer i follows in a later term, its vote cleared.
AdoptTerm(i, term) ==
    /\ term > currentTerm[i]
    /\ currentTerm' = [currentTerm EXCEPT ![i] = term]
    /\ votedFor' = [votedFor EXCEPT ![i] = NA]
    /\ role' = [role EXCEPT ![i] = "Follower"]
    /\ UNCHANGED <<votes, elections>>
    /\ NoVotesSent /\ DiskInStep /\ Side

\* Candidate i gives up for the elected leader of its term, its vote cleared.
GiveUp(i) ==
    /\ role[i] = "Candidate"
    /\ Decided(currentTerm[i])
    /\ UNCHANGED <<currentTerm, votes, elections>>
    /\ votedFor' = [votedFor EXCEPT ![i] = NA]
    /\ role' = [role EXCEPT ![i] = "Follower"]
    /\ NoVotesSent /\ DiskInStep /\ Side

\* Without messages about votes, who has voted for whom stays the same.
LEMMA GrantedSame ==
    ASSUME ElectionTypeOK, NoVotesSent
    PROVE  /\ \A c, term : Campaigned(c, term)' <=> Campaigned(c, term)
           /\ \A s, c, term : Granted(s, c, term)' <=> Granted(s, c, term)
  <1>1. \A c, term : Campaigned(c, term)' <=> Campaigned(c, term)
    BY Zenon DEF NoVotesSent, Campaigned
  <1>2. QED
    BY Zenon, <1>1 DEF NoVotesSent, Granted

\* A quiet step preserves the election invariant.
LEMMA QuietPreserves ==
    ASSUME ElectionInv, QuietStep
    PROVE  ElectionInv'
  <1>0. ElectionTypeOK /\ NoVotesSent
    BY Zenon DEF ElectionInv, QuietStep
  <1>1. /\ \A c, term : Campaigned(c, term)' <=> Campaigned(c, term)
        /\ \A s, c, term : Granted(s, c, term)' <=> Granted(s, c, term)
    BY Zenon, <1>0, GrantedSame
  <1>2. ElectionTypeOK'
    BY Zenon DEF ElectionInv, ElectionTypeOK, QuietStep, NoVotesSent, DiskInStep, Side
  <1>3. \A term : Decided(term)' <=> Decided(term)
    BY Zenon DEF QuietStep, Decided
  <1>4. VotesAreKept'
    BY Zenon, <1>1, <1>3 DEF ElectionInv, VotesAreKept, QuietStep, DiskInStep
  <1>5. CandidatesCount'
    BY Zenon, <1>1 DEF ElectionInv, CandidatesCount, QuietStep
  <1>6. VotersAreBound'
    BY ZenonT(40), <1>1 DEF ElectionInv, VotersAreBound, QuietStep
  <1>7. LeadersWereElected'
    BY ZenonT(40) DEF ElectionInv, LeadersWereElected, QuietStep, NoVotesSent
  <1>8. ElectionSafety'
    BY Zenon DEF ElectionInv, ElectionSafety, QuietStep
  <1>9. QED
    BY Zenon, <1>2, <1>4, <1>5, <1>6, <1>7, <1>8 DEF ElectionInv

\* So does adopting a later term.
LEMMA AdoptPreserves ==
    ASSUME ElectionInv, NEW i \in Server, NEW term \in Term, AdoptTerm(i, term)
    PROVE  ElectionInv'
  <1>0. ElectionTypeOK /\ NoVotesSent
    BY Zenon DEF ElectionInv, AdoptTerm
  <1>1. /\ \A c, t : Campaigned(c, t)' <=> Campaigned(c, t)
        /\ \A s, c, t : Granted(s, c, t)' <=> Granted(s, c, t)
    BY Zenon, <1>0, GrantedSame
  <1>a. /\ \A j \in Server : currentTerm'[j] >= currentTerm[j]
        /\ \A j \in Server : currentTerm'[j] \in Term /\ currentTerm[j] \in Term
        /\ \A j \in Server : j # i => /\ currentTerm'[j] = currentTerm[j]
                                      /\ votedFor'[j] = votedFor[j]
                                      /\ role'[j] = role[j]
        /\ role'[i] = "Follower" /\ currentTerm'[i] > currentTerm[i]
    BY BoundsAssumption DEF ElectionInv, ElectionTypeOK, AdoptTerm, Term
  <1>2. ElectionTypeOK'
    BY Zenon DEF ElectionInv, ElectionTypeOK, AdoptTerm, NoVotesSent, DiskInStep, Side
  <1>3. \A t : Decided(t)' <=> Decided(t)
    BY Zenon DEF AdoptTerm, Decided
  <1>4. VotesAreKept'
    BY <1>1, <1>3, <1>a, BoundsAssumption DEF ElectionInv, VotesAreKept, AdoptTerm, DiskInStep, Term
  <1>5. CandidatesCount'
    BY Zenon, <1>1, <1>a DEF ElectionInv, CandidatesCount, AdoptTerm
  <1>6. VotersAreBound'
    <2> SUFFICES ASSUME NEW e \in elections'
                 PROVE  /\ e.leader \in e.voters
                        /\ 2 * Cardinality(e.voters) > Cardinality(Server)
                        /\ \A s \in e.voters :
                              /\ Granted(s, e.leader, e.term)'
                              /\ \A c \in Server : Granted(s, c, e.term)' => c = e.leader
                              /\ currentTerm'[s] = e.term =>
                                    votedFor'[s] = e.leader /\ role'[s] # "Candidate"
      BY Zenon DEF VotersAreBound
    <2>1. e \in elections /\ e.term \in Term /\ e.leader \in Server /\ e.voters \subseteq Server
      BY Zenon, <1>0 DEF AdoptTerm, ElectionTypeOK
    <2>2. ASSUME NEW s \in e.voters, currentTerm'[s] = e.term
          PROVE  s # i
      <3>1. Granted(s, e.leader, e.term)
        BY Zenon, <2>1 DEF ElectionInv, VotersAreBound
      <3>2. e.term <= currentTerm[s]
        BY Zenon, <2>1, <3>1 DEF ElectionInv, VotesAreKept
      <3>3. QED
        BY <2>1, <2>2, <3>2, <1>a, BoundsAssumption DEF Term
    <2>3. QED
      BY <1>1, <1>a, <2>1, <2>2 DEF ElectionInv, VotersAreBound
  <1>7. LeadersWereElected'
    BY <1>a DEF ElectionInv, LeadersWereElected, AdoptTerm, NoVotesSent
  <1>8. ElectionSafety'
    BY Zenon DEF ElectionInv, ElectionSafety, AdoptTerm
  <1>9. QED
    BY Zenon, <1>2, <1>4, <1>5, <1>6, <1>7, <1>8 DEF ElectionInv

\* So does a candidate that gives up: the election of its term is decided, and
\* it is not one of the peers whose vote decided it.
LEMMA GiveUpPreserves ==
    ASSUME ElectionInv, NEW i \in Server, GiveUp(i)
    PROVE  ElectionInv'
  <1>0. ElectionTypeOK /\ NoVotesSent
    BY Zenon DEF ElectionInv, GiveUp
  <1>1. /\ \A c, t : Campaigned(c, t)' <=> Campaigned(c, t)
        /\ \A s, c, t : Granted(s, c, t)' <=> Granted(s, c, t)
    BY Zenon, <1>0, GrantedSame
  <1>a. /\ currentTerm' = currentTerm
        /\ \A j \in Server : j # i => votedFor'[j] = votedFor[j] /\ role'[j] = role[j]
        /\ role'[i] = "Follower"
    BY Zenon DEF ElectionInv, ElectionTypeOK, GiveUp
  <1>2. ElectionTypeOK'
    BY Zenon DEF ElectionInv, ElectionTypeOK, GiveUp, NoVotesSent, DiskInStep, Side
  <1>3. \A t : Decided(t)' <=> Decided(t)
    BY Zenon DEF GiveUp, Decided
  <1>4. VotesAreKept'
    <2>1. ASSUME NEW s \in Server, NEW c \in Server, NEW t \in Term, Granted(s, c, t)
          PROVE  Decided(t) \/ t < currentTerm[s] \/ votedFor'[s] = c
      <3>1. CASE s = i
        <4>1. t <= currentTerm[i]
          BY Zenon, <2>1, <3>1 DEF ElectionInv, VotesAreKept
        <4>2. CASE t = currentTerm[i]
          BY Zenon, <4>2 DEF GiveUp
        <4>3. CASE t < currentTerm[i]
          BY Zenon, <4>3, <3>1
        <4>4. currentTerm[i] \in Nat /\ t \in Nat
          BY <1>0, BoundsAssumption DEF ElectionTypeOK, Term
        <4>5. QED
          BY <4>1, <4>2, <4>3, <4>4
      <3>2. CASE s # i
        BY Zenon, <3>2, <2>1, <1>a DEF ElectionInv, VotesAreKept
      <3>3. QED
        BY Zenon, <3>1, <3>2
    <2>2. QED
      BY <1>1, <1>3, <1>a, <2>1 DEF ElectionInv, VotesAreKept, GiveUp, DiskInStep
  <1>5. CandidatesCount'
    BY Zenon, <1>1, <1>a DEF ElectionInv, CandidatesCount, GiveUp
  <1>6. VotersAreBound'
    <2>1. ASSUME NEW e \in elections, NEW s \in e.voters, currentTerm[s] = e.term
          PROVE  s # i
      BY Zenon, <2>1 DEF ElectionInv, VotersAreBound, GiveUp
    <2>2. \A e \in elections : e.voters \subseteq Server
      BY Zenon, <1>0 DEF ElectionTypeOK
    <2>3. QED
      BY <1>1, <1>a, <2>1, <2>2 DEF ElectionInv, VotersAreBound, GiveUp
  <1>7. LeadersWereElected'
    BY <1>a DEF ElectionInv, LeadersWereElected, GiveUp, NoVotesSent
  <1>8. ElectionSafety'
    BY Zenon DEF ElectionInv, ElectionSafety, GiveUp
  <1>9. QED
    BY Zenon, <1>2, <1>4, <1>5, <1>6, <1>7, <1>8 DEF ElectionInv

\* becomeCandidateL: a vote for oneself in a term nobody could use before.
LEMMA CampaignPreserves ==
    ASSUME ElectionInv, NEW i \in Server, becomeCandidateL(i)
    PROVE  ElectionInv'
  <1> DEFINE T == currentTerm[i] + 1
             sent == {[type |-> "RequestVote", term |-> T, src |-> i,
                       dst |-> j, lastLogIndex |-> log[i].last,
                       lastLogTerm |-> lastLogTerm(log[i])] : j \in Server \ {i}}
  <1>0. ElectionTypeOK
    BY Zenon DEF ElectionInv
  <1>t. T \in Term /\ T > currentTerm[i] /\ \A j \in Server : currentTerm[j] \in Term
    BY <1>0, BoundsAssumption DEF becomeCandidateL, ForgetLeader, ElectionTypeOK, Term
  <1>a. /\ msgs' = msgs \cup sent
        /\ currentTerm' = [currentTerm EXCEPT ![i] = T]
        /\ votedFor' = [votedFor EXCEPT ![i] = i]
        /\ role' = [role EXCEPT ![i] = "Candidate"]
        /\ votes' = [votes EXCEPT ![i] = {i}]
        /\ leaderId' = [leaderId EXCEPT ![i] = NA]
        /\ elections' = elections /\ restarts' = restarts
        /\ disk' = [disk EXCEPT ![i] = [currentTerm |-> currentTerm'[i],
                                 votedFor    |-> votedFor'[i],
                                 log         |-> log[i],
                                 data        |-> snapshot[i].data]]
    BY Zenon DEF becomeCandidateL, ForgetLeader, Send, persistL, history
  <1>b. \A m \in sent : /\ m.type = "RequestVote" /\ m.term = T /\ m.src = i
                        /\ m.dst \in Server
    OBVIOUS
  <1>c. sent # {}
    <2>1. \E j \in Server : j # i
      <3>1. CASE Server = {i}
        BY <3>1, ServerAssumption, FS_Singleton
      <3>2. QED
        BY Zenon, <3>1
    <2>2. QED
      BY Zenon, <2>1
  <1> HIDE DEF sent, T
  <1>1. \A c, t : Campaigned(c, t)' <=> (Campaigned(c, t) \/ (c = i /\ t = T))
    BY Zenon, <1>a, <1>b, <1>c DEF Campaigned
  <1>2. \A s, c, t : Granted(s, c, t)' <=> (Granted(s, c, t) \/ (s = i /\ c = i /\ t = T))
    BY ZenonT(40), <1>1, <1>a, <1>b DEF Granted
  <1>3. ElectionTypeOK'
    BY Zenon, <1>0, <1>a, <1>b, <1>t DEF ElectionTypeOK
  <1>4. \A t : Decided(t)' <=> Decided(t)
    BY Zenon, <1>a DEF Decided
  <1>d. /\ currentTerm'[i] = T
        /\ \A j \in Server : j # i => /\ currentTerm'[j] = currentTerm[j]
                                      /\ votedFor'[j] = votedFor[j]
                                      /\ role'[j] = role[j]
                                      /\ votes'[j] = votes[j]
                                      /\ disk'[j] = disk[j]
        /\ role'[i] = "Candidate" /\ votedFor'[i] = i /\ votes'[i] = {i}
        /\ disk'[i].currentTerm = T /\ disk'[i].votedFor = i
    BY Zenon, <1>0, <1>a DEF ElectionTypeOK
  <1>5. \A c \in Server, t \in Term : Granted(i, c, t) => t < T
    BY <1>t, BoundsAssumption DEF ElectionInv, VotesAreKept, Term
  <1>6. VotesAreKept'
    <2>1. \A j \in Server : /\ disk'[j].currentTerm = currentTerm'[j]
                            /\ disk'[j].votedFor = votedFor'[j]
      BY Zenon, <1>d DEF ElectionInv, VotesAreKept
    <2>2. ASSUME NEW s \in Server, NEW c \in Server, NEW t \in Term, Granted(s, c, t)'
          PROVE  /\ t <= currentTerm'[s]
                 /\ Decided(t) \/ t < currentTerm'[s] \/ votedFor'[s] = c
                 /\ Decided(t) \/ \A d \in Server : Granted(s, d, t)' => c = d
      <3>1. CASE s = i
        BY <3>1, <2>2, <1>2, <1>5, <1>d, <1>t, BoundsAssumption DEF Term, ElectionInv, VotesAreKept
      <3>2. CASE s # i
        BY Zenon, <3>2, <2>2, <1>2, <1>d DEF ElectionInv, VotesAreKept
      <3>3. QED
        BY Zenon, <3>1, <3>2
    <2>3. QED
      BY Zenon, <2>1, <2>2, <1>4 DEF VotesAreKept
  <1>7. CandidatesCount'
    BY <1>1, <1>2, <1>d DEF ElectionInv, CandidatesCount
  <1>8. VotersAreBound'
    <2>1. \A e \in elections : e.voters \subseteq Server /\ e.term \in Term /\ e.leader \in Server
      BY Zenon, <1>0 DEF ElectionTypeOK
    <2>2. ASSUME NEW e \in elections, i \in e.voters
          PROVE  e.term < T
      <3>1. Granted(i, e.leader, e.term)
        BY Zenon, <2>2 DEF ElectionInv, VotersAreBound
      <3>2. QED
        BY Zenon, <3>1, <1>5, <2>1
    <2>3. T \in Int /\ \A e \in elections : e.term \in Int
      BY <1>t, <2>1, BoundsAssumption DEF Term
    <2>4. QED
      BY <1>2, <1>a, <1>d, <2>1, <2>2, <2>3 DEF ElectionInv, VotersAreBound
  <1>9. LeadersWereElected'
    BY <1>a, <1>b, <1>d DEF ElectionInv, LeadersWereElected
  <1>10. ElectionSafety'
    BY Zenon, <1>a DEF ElectionInv, ElectionSafety
  <1>11. QED
    BY Zenon, <1>3, <1>6, <1>7, <1>8, <1>9, <1>10 DEF ElectionInv

-----------------------------------------------------------------------------
(***************************************************************************)
(* Giving a vote, counting one, and a restart in between.                  *)
(***************************************************************************)

\* The RequestVote handler: a bound voter can only confirm its vote, any other
\* voter has not voted for somebody else in an undecided term.
LEMMA VotePreserves ==
    ASSUME ElectionInv, NEW i \in Server, NEW m \in msgs, RequestVote(i, m)
    PROVE  ElectionInv'
  <1> DEFINE newer == m.term > currentTerm[i]
             T     == IF newer THEN m.term ELSE currentTerm[i]
             vote  == IF newer THEN NA ELSE votedFor[i]
             grant == m.term = T /\ vote \in {NA, m.src} /\ UpToDate(i, m)
             reply == [type |-> "RequestVoteReply", term |-> T, src |-> i,
                       dst |-> m.src, argsTerm |-> m.term, granted |-> grant]
  <1>0. ElectionTypeOK
    BY Zenon DEF ElectionInv
  <1>m. /\ m.type = "RequestVote" /\ m.src \in Server /\ m.term \in Term
        /\ \A j \in Server : currentTerm[j] \in Term
    BY Zenon, <1>0 DEF ElectionTypeOK, RequestVote
  <1>n. /\ \A t \in Term : t \in Nat
        /\ m.term \in Nat /\ \A j \in Server : currentTerm[j] \in Nat
    BY <1>m, BoundsAssumption DEF Term
  <1>t. T \in Term /\ T >= currentTerm[i] /\ T >= m.term
    BY <1>m, <1>n
  <1>a. /\ msgs' = msgs \cup {reply}
        /\ currentTerm' = [currentTerm EXCEPT ![i] = T]
        /\ votedFor' = [votedFor EXCEPT ![i] = IF grant THEN m.src ELSE vote]
        /\ role' = [role EXCEPT ![i] = IF newer THEN "Follower" ELSE @]
        /\ UNCHANGED <<votes, elections, leaderId, restarts>>
        /\ IF newer \/ grant THEN persistL(i, log[i], snapshot[i].data)
                             ELSE UNCHANGED disk
    BY Zenon DEF RequestVote, Send, history
  <1>b. /\ reply.type = "RequestVoteReply" /\ reply.term = T /\ reply.src = i
        /\ reply.dst = m.src /\ reply.argsTerm = m.term /\ reply.granted = grant
    BY Zenon
  <1>g. grant \in BOOLEAN
    BY Zenon
  <1>1. \A c, t : Campaigned(c, t)' <=> Campaigned(c, t)
    <2> HIDE DEF reply
    <2> QED BY Zenon, <1>a, <1>b DEF Campaigned
  <1>2. \A s, c, t : Granted(s, c, t)' <=>
             (Granted(s, c, t) \/ (grant /\ s = i /\ c = m.src /\ t = m.term))
    <2> HIDE DEF reply, grant
    <2> QED BY <1>1, <1>a, <1>b, SMTT(30) DEF Granted
  <1>d. /\ currentTerm'[i] = T /\ votedFor'[i] = IF grant THEN m.src ELSE vote
        /\ role'[i] = IF newer THEN "Follower" ELSE role[i]
        /\ disk' = [j \in Server |-> disk'[j]]
        /\ disk'[i].currentTerm = currentTerm'[i] /\ disk'[i].votedFor = votedFor'[i]
        /\ \A j \in Server : j # i => /\ currentTerm'[j] = currentTerm[j]
                                      /\ votedFor'[j] = votedFor[j]
                                      /\ role'[j] = role[j]
                                      /\ disk'[j] = disk[j]
    BY <1>0, <1>a, SMTT(30) DEF ElectionTypeOK, persistL, ElectionInv, VotesAreKept
  <1>3. ElectionTypeOK'
    <2>1. /\ currentTerm' \in [Server -> Term]
          /\ votedFor' \in [Server -> Server \cup {NA}]
          /\ role' \in [Server -> {"Follower", "Candidate", "Leader"}]
          /\ leaderId' \in [Server -> Server \cup {NA}]
          /\ votes' \in [Server -> SUBSET Server]
          /\ elections' \subseteq [term : Term, leader : Server, voters : SUBSET Server]
          /\ restarts' \in Nat
      BY Zenon, <1>0, <1>a, <1>t, <1>m DEF ElectionTypeOK
    <2> HIDE DEF reply, grant, T
    <2>2. \A n \in msgs' :
          /\ n.type \in {"RequestVote", "RequestVoteReply", "AppendEntries",
                         "AppendEntriesReply", "InstallSnapshot", "InstallSnapshotReply"}
          /\ n.term \in Term /\ n.src \in Server /\ n.dst \in Server
          /\ n.type = "RequestVoteReply" => n.argsTerm \in Term /\ n.granted \in BOOLEAN
      BY Zenon, <1>0, <1>a, <1>b, <1>t, <1>m, <1>g DEF ElectionTypeOK
    <2>3. QED
      BY Zenon, <2>1, <2>2, <1>d DEF ElectionTypeOK
  <1>4. \A t : Decided(t)' <=> Decided(t)
    BY Zenon, <1>a DEF Decided
  <1>5. ASSUME grant
        PROVE  /\ currentTerm[i] <= m.term /\ T = m.term
               /\ currentTerm[i] = m.term => votedFor[i] \in {NA, m.src}
    BY <1>5, <1>m, <1>n
  <1>6. VotesAreKept'
    <2>1. \A j \in Server : /\ disk'[j].currentTerm = currentTerm'[j]
                            /\ disk'[j].votedFor = votedFor'[j]
      BY Zenon, <1>d DEF ElectionInv, VotesAreKept
    <2>2. ASSUME NEW s \in Server, NEW c \in Server, NEW t \in Term, Granted(s, c, t)'
          PROVE  /\ t <= currentTerm'[s]
                 /\ Decided(t) \/ t < currentTerm'[s] \/ votedFor'[s] = c
                 /\ Decided(t) \/ \A d \in Server : Granted(s, d, t)' => c = d
      <3>1. CASE s # i
        BY Zenon, <3>1, <2>2, <1>2, <1>d DEF ElectionInv, VotesAreKept
      <3>2. CASE s = i /\ Granted(s, c, t)
        <4>1. /\ t <= currentTerm[i]
              /\ Decided(t) \/ t < currentTerm[i] \/ votedFor[i] = c
              /\ Decided(t) \/ \A d \in Server : Granted(i, d, t) => c = d
          BY Zenon, <3>2 DEF ElectionInv, VotesAreKept
        <4>2. t <= currentTerm'[i] /\ (t < currentTerm[i] => t < currentTerm'[i])
          BY <4>1, <1>d, <1>t, <1>m, <1>n
        <4>3. CASE Decided(t) \/ t < currentTerm[i]
          <5>1. grant => t # m.term \/ Decided(t)
            BY <4>3, <1>5, <1>m, <1>n
          <5>2. QED
            BY Zenon, <4>1, <4>2, <4>3, <5>1, <1>2, <3>2
        <4>4. CASE ~Decided(t) /\ t = currentTerm[i] /\ votedFor[i] = c
          <5>1. CASE newer
            BY <5>1, <4>1, <4>2, <4>4, <1>2, <3>2, <1>d, <1>t, <1>m, <1>n
          <5>2. CASE ~newer
            <6>1. grant => c = m.src
              BY Zenon, <4>4, <5>2, <1>5, <1>m, NAAssumption
            <6>2. votedFor'[i] = c
              BY Zenon, <6>1, <5>2, <4>4, <1>d
            <6>3. QED
              BY Zenon, <6>1, <6>2, <4>1, <4>2, <4>4, <1>2, <3>2
          <5>3. QED
            BY Zenon, <5>1, <5>2
        <4>5. QED
          BY <4>1, <4>3, <4>4, <1>m, <1>n
      <3>3. CASE s = i /\ ~Granted(s, c, t)
        <4>1. grant /\ c = m.src /\ t = m.term
          BY Zenon, <3>3, <2>2, <1>2
        <4>2. t = currentTerm'[i] /\ votedFor'[i] = c
          BY Zenon, <4>1, <1>5, <1>d
        <4>3. ASSUME NEW d \in Server, Granted(i, d, t), ~Decided(t)
              PROVE  c = d
          <5>1. t <= currentTerm[i] /\ (t < currentTerm[i] \/ votedFor[i] = d)
            BY Zenon, <4>3 DEF ElectionInv, VotesAreKept
          <5>2. t = currentTerm[i] /\ votedFor[i] = d
            BY <5>1, <4>1, <1>5, <1>m, <1>n
          <5>3. QED
            BY Zenon, <5>2, <4>1, <1>5, NAAssumption
        <4>4. \A d \in Server : Granted(s, d, t)' => c = d \/ Granted(i, d, t)
          BY Zenon, <3>3, <4>1, <1>2
        <4>5. t <= currentTerm'[i]
          BY <4>2, <1>n, SMTT(30)
        <4>6. QED
          BY Zenon, <3>3, <4>2, <4>3, <4>4, <4>5
      <3>4. QED
        BY Zenon, <3>1, <3>2, <3>3
    <2>3. QED
      BY Zenon, <2>1, <2>2, <1>4 DEF VotesAreKept
  <1>7. CandidatesCount'
    BY <1>1, <1>2, <1>a, <1>d DEF ElectionInv, CandidatesCount
  <1>8. VotersAreBound'
    <2> SUFFICES ASSUME NEW e \in elections
                 PROVE  /\ e.leader \in e.voters
                        /\ 2 * Cardinality(e.voters) > Cardinality(Server)
                        /\ \A s \in e.voters :
                              /\ Granted(s, e.leader, e.term)'
                              /\ \A c \in Server : Granted(s, c, e.term)' => c = e.leader
                              /\ currentTerm'[s] = e.term =>
                                    votedFor'[s] = e.leader /\ role'[s] # "Candidate"
      BY Zenon, <1>a DEF VotersAreBound
    <2>1. e.voters \subseteq Server /\ e.term \in Term /\ e.leader \in Server
      BY Zenon, <1>0 DEF ElectionTypeOK
    <2>2. /\ e.leader \in e.voters
          /\ 2 * Cardinality(e.voters) > Cardinality(Server)
          /\ \A s \in e.voters :
                /\ Granted(s, e.leader, e.term)
                /\ \A c \in Server : Granted(s, c, e.term) => c = e.leader
                /\ currentTerm[s] = e.term =>
                      votedFor[s] = e.leader /\ role[s] # "Candidate"
      BY Zenon DEF ElectionInv, VotersAreBound
    <2>3. ASSUME i \in e.voters, grant, m.term = e.term
          PROVE  m.src = e.leader
      <3>1. e.term <= currentTerm[i]
        BY Zenon, <2>1, <2>2, <2>3 DEF ElectionInv, VotesAreKept
      <3>2. currentTerm[i] = e.term
        BY <3>1, <2>1, <2>3, <1>5, <1>m, <1>n
      <3>3. QED
        BY Zenon, <3>2, <2>1, <2>2, <2>3, <1>5, NAAssumption
    <2>4. ASSUME i \in e.voters, currentTerm'[i] = e.term
          PROVE  votedFor'[i] = e.leader /\ role'[i] # "Candidate"
      <3>1. e.term <= currentTerm[i]
        BY Zenon, <2>1, <2>2, <2>4 DEF ElectionInv, VotesAreKept
      <3>2. currentTerm[i] = e.term /\ ~newer
        BY <3>1, <2>1, <2>4, <1>d, <1>m, <1>n
      <3>3. votedFor[i] = e.leader /\ role[i] # "Candidate"
        BY Zenon, <3>2, <2>2, <2>4
      <3>4. grant => m.src = e.leader
        BY Zenon, <3>2, <2>3, <2>4, <1>5, <1>d
      <3>5. QED
        BY Zenon, <3>2, <3>3, <3>4, <1>d
    <2>5. QED
      BY Zenon, <1>2, <1>d, <2>1, <2>2, <2>3, <2>4
  <1>9. LeadersWereElected'
    <2>1. \A j \in Server : role'[j] = "Leader" => role[j] = "Leader" /\ currentTerm'[j] = currentTerm[j]
      BY Zenon, <1>d
    <2>2. \A n \in msgs' : n \in msgs \/ n.type = "RequestVoteReply"
      <3> HIDE DEF reply
      <3> QED BY Zenon, <1>a, <1>b
    <2>3. QED
      BY <2>1, <2>2, <1>a DEF ElectionInv, LeadersWereElected
  <1>10. ElectionSafety'
    BY Zenon, <1>a DEF ElectionInv, ElectionSafety
  <1>11. QED
    BY Zenon, <1>3, <1>6, <1>7, <1>8, <1>9, <1>10 DEF ElectionInv

\* processRequestReplyL with a vote granted: the candidate counts it, and wins
\* with a majority.
CountVote(i, m) ==
    /\ m.type = "RequestVoteReply" /\ m.dst = i /\ m.granted
    /\ currentTerm[i] = m.argsTerm /\ role[i] = "Candidate"
    /\ votes' = [votes EXCEPT ![i] = @ \cup {m.src}]
    /\ UNCHANGED <<currentTerm, votedFor, disk, leaderId, msgs, restarts>>
    /\ \/ UNCHANGED <<role, elections>>
       \/ /\ Cardinality(votes'[i]) > Cardinality(Server) \div 2
          /\ role' = [role EXCEPT ![i] = "Leader"]
          /\ elections' = elections \cup
                 {[term |-> currentTerm[i], leader |-> i, voters |-> votes'[i]]}

\* The winner has votes of a majority, and the majority of another election of
\* the same term would share a voter with it, who is bound.  So the term was
\* undecided and each of the votes is its voter's only one.
LEMMA CountPreserves ==
    ASSUME ElectionInv, NEW i \in Server, NEW m \in msgs, CountVote(i, m)
    PROVE  ElectionInv'
  <1> DEFINE T == currentTerm[i]
             V == votes[i] \cup {m.src}
             won == [term |-> T, leader |-> i, voters |-> V]
  <1>0. ElectionTypeOK
    BY Zenon DEF ElectionInv
  <1>t. /\ T \in Term /\ m.src \in Server /\ V \subseteq Server /\ i \in V
        /\ \A t \in Term : t \in Nat
    BY <1>0, BoundsAssumption DEF ElectionTypeOK, CountVote, ElectionInv, CandidatesCount, Term
  <1>1. /\ \A c, t : Campaigned(c, t)' <=> Campaigned(c, t)
        /\ \A s, c, t : Granted(s, c, t)' <=> Granted(s, c, t)
    BY Zenon DEF CountVote, Campaigned, Granted
  <1>a. /\ votes' = [votes EXCEPT ![i] = V] /\ votes'[i] = V
        /\ \A j \in Server : j # i => votes'[j] = votes[j]
        /\ UNCHANGED <<currentTerm, votedFor, disk, leaderId, msgs, restarts>>
    BY Zenon, <1>0 DEF CountVote, ElectionTypeOK
  <1>2. \A s \in V : Granted(s, i, T)
    <2>1. Granted(m.src, i, T)
      BY Zenon DEF CountVote, Granted
    <2>2. \A s \in votes[i] : Granted(s, i, T)
      BY Zenon DEF CountVote, ElectionInv, CandidatesCount
    <2>3. QED
      BY Zenon, <2>1, <2>2
  <1>3. CASE UNCHANGED <<role, elections>>
    <2>1. ElectionTypeOK'
      BY Zenon, <1>0, <1>a, <1>t, <1>3 DEF ElectionTypeOK
    <2>2. VotesAreKept'
      BY <1>1, <1>a, <1>3 DEF ElectionInv, VotesAreKept, Decided
    <2>3. CandidatesCount'
      <3> SUFFICES ASSUME NEW j \in Server, role[j] = "Candidate"
                   PROVE  /\ j \in votes'[j] /\ Campaigned(j, currentTerm[j])
                          /\ \A s \in votes'[j] : Granted(s, j, currentTerm[j])
        BY Zenon, <1>1, <1>a, <1>3 DEF CandidatesCount
      <3>1. /\ j \in votes[j] /\ Campaigned(j, currentTerm[j])
            /\ \A s \in votes[j] : Granted(s, j, currentTerm[j])
        BY Zenon DEF ElectionInv, CandidatesCount
      <3>2. CASE j = i
        BY Zenon, <3>1, <3>2, <1>a, <1>t, <1>2
      <3>3. CASE j # i
        BY Zenon, <3>1, <3>3, <1>a
      <3>4. QED
        BY Zenon, <3>2, <3>3
    <2>4. VotersAreBound'
      BY ZenonT(40), <1>1, <1>a, <1>3 DEF ElectionInv, VotersAreBound
    <2>5. LeadersWereElected' /\ ElectionSafety'
      BY Zenon, <1>a, <1>3 DEF ElectionInv, LeadersWereElected, ElectionSafety
    <2>6. QED
      BY Zenon, <2>1, <2>2, <2>3, <2>4, <2>5 DEF ElectionInv
  <1>4. CASE /\ Cardinality(V) > Cardinality(Server) \div 2
             /\ role' = [role EXCEPT ![i] = "Leader"]
             /\ elections' = elections \cup {won}
    <2>1. 2 * Cardinality(V) > Cardinality(Server)
      <3>1. Cardinality(V) \in Nat /\ Cardinality(Server) \in Nat
        BY Zenon, <1>t, ServerAssumption, FS_Subset, FS_CardinalityType
      <3>2. QED
        BY Zenon, <3>1, <1>4, HalfOf
    <2>2. ~Decided(T)
      <3> SUFFICES ASSUME NEW e \in elections, e.term = T
                   PROVE  FALSE
        BY Zenon DEF Decided
      <3>1. e.voters \subseteq Server /\ 2 * Cardinality(e.voters) > Cardinality(Server)
        BY Zenon, <1>0 DEF ElectionTypeOK, ElectionInv, VotersAreBound
      <3>2. PICK s \in Server : s \in e.voters /\ s \in V
        BY Zenon, <3>1, <2>1, <1>t, MajoritiesMeet
      <3>3. i = e.leader
        BY Zenon, <3>2, <1>2 DEF ElectionInv, VotersAreBound
      <3>4. i \in e.voters
        BY Zenon, <3>3 DEF ElectionInv, VotersAreBound
      <3>5. role[i] # "Candidate"
        BY Zenon, <3>4 DEF ElectionInv, VotersAreBound
      <3>6. QED
        BY Zenon, <3>5 DEF CountVote
    <2> HIDE DEF T, V, won
    <2>w. won.term = T /\ won.leader = i /\ won.voters = V
      BY Zenon DEF won
    <2>r. /\ role'[i] = "Leader" /\ T = currentTerm[i] /\ role[i] = "Candidate"
          /\ \A j \in Server : j # i => role'[j] = role[j]
      BY Zenon, <1>0, <1>4 DEF ElectionTypeOK, T, CountVote
    <2>3. ElectionTypeOK'
      <3>1. won \in [term : Term, leader : Server, voters : SUBSET Server]
        BY Zenon, <1>t DEF won
      <3>2. QED
        BY Zenon, <1>0, <1>a, <1>t, <1>4, <3>1 DEF ElectionTypeOK
    <2>4. \A t : Decided(t)' <=> (Decided(t) \/ t = T)
      BY Zenon, <1>4, <2>w DEF Decided
    <2>5. VotesAreKept'
      BY ZenonT(40), <1>1, <1>a, <2>4 DEF ElectionInv, VotesAreKept
    <2>6. CandidatesCount'
      BY Zenon, <1>1, <1>a, <2>r DEF ElectionInv, CandidatesCount
    <2>7. VotersAreBound'
      <3>1. ASSUME NEW s \in V
            PROVE  /\ Granted(s, i, T)
                   /\ \A c \in Server : Granted(s, c, T) => c = i
                   /\ currentTerm[s] = T => votedFor[s] = i /\ role'[s] # "Candidate"
        <4>1. Granted(s, i, T) /\ s \in Server
          BY Zenon, <1>2, <1>t
        <4>2. \A c \in Server : Granted(s, c, T) => c = i
          BY Zenon, <4>1, <2>2, <1>t DEF ElectionInv, VotesAreKept
        <4>3. currentTerm[s] = T => votedFor[s] = i
          BY <4>1, <2>2, <1>t DEF ElectionInv, VotesAreKept
        <4>4. ASSUME currentTerm[s] = T, role[s] = "Candidate"
              PROVE  s = i
          BY Zenon, <4>1, <4>2, <4>4 DEF ElectionInv, CandidatesCount, Granted
        <4>5. QED
          BY Zenon, <4>1, <4>2, <4>3, <4>4, <2>r
      <3>2. \A e \in elections : e.voters \subseteq Server
        BY Zenon, <1>0 DEF ElectionTypeOK
      <3>3. \A s \in Server : role'[s] = "Candidate" => role[s] = "Candidate"
        BY Zenon, <2>r
      <3>4. ASSUME NEW e \in elections
            PROVE  /\ e.leader \in e.voters
                   /\ 2 * Cardinality(e.voters) > Cardinality(Server)
                   /\ \A s \in e.voters :
                        /\ Granted(s, e.leader, e.term)
                        /\ \A c \in Server : Granted(s, c, e.term) => c = e.leader
                        /\ currentTerm[s] = e.term =>
                              votedFor[s] = e.leader /\ role'[s] # "Candidate"
        BY Zenon, <3>2, <3>3 DEF ElectionInv, VotersAreBound
      <3>5. QED
        BY <1>1, <1>a, <1>t, <1>4, <2>1, <2>w, <3>1, <3>4 DEF VotersAreBound
    <2>8. LeadersWereElected'
      BY <1>a, <1>4, <2>w, <2>r DEF ElectionInv, LeadersWereElected
    <2>9. ElectionSafety'
      BY Zenon, <1>4, <2>2, <2>w DEF ElectionInv, ElectionSafety, Decided
    <2>10. QED
      BY Zenon, <2>3, <2>5, <2>6, <2>7, <2>8, <2>9 DEF ElectionInv
  <1>5. QED
    BY Zenon, <1>3, <1>4, <1>a DEF CountVote

\* A crash: term and vote come back from disk, where they are what they were.
LEMMA RestartPreserves ==
    ASSUME ElectionInv, NEW i \in Server, Restart(i)
    PROVE  ElectionInv'
  <1>0. ElectionTypeOK
    BY Zenon DEF ElectionInv
  <1>a. /\ currentTerm' = currentTerm /\ votedFor' = votedFor
        /\ role' = [role EXCEPT ![i] = "Follower"]
        /\ leaderId' = [leaderId EXCEPT ![i] = NA]
        /\ votes' = [votes EXCEPT ![i] = {}]
        /\ restarts' = restarts + 1
        /\ UNCHANGED <<disk, msgs, elections>>
    BY Zenon, <1>0 DEF Restart, ElectionInv, ElectionTypeOK, VotesAreKept
  <1>b. /\ role'[i] = "Follower"
        /\ \A j \in Server : j # i => role'[j] = role[j] /\ votes'[j] = votes[j]
    BY Zenon, <1>0, <1>a DEF ElectionTypeOK
  <1>1. /\ \A c, t : Campaigned(c, t)' <=> Campaigned(c, t)
        /\ \A s, c, t : Granted(s, c, t)' <=> Granted(s, c, t)
        /\ \A t : Decided(t)' <=> Decided(t)
    BY Zenon, <1>a DEF Campaigned, Granted, Decided
  <1>2. ElectionTypeOK'
    BY <1>0, <1>a DEF ElectionTypeOK
  <1>3. VotesAreKept'
    BY <1>a, <1>1 DEF ElectionInv, VotesAreKept
  <1>4. CandidatesCount'
    BY Zenon, <1>a, <1>b, <1>1 DEF ElectionInv, CandidatesCount
  <1>5. VotersAreBound'
    <2>1. \A e \in elections : e.voters \subseteq Server
      BY Zenon, <1>0 DEF ElectionTypeOK
    <2>2. \A s \in Server : role'[s] = "Candidate" => role[s] = "Candidate"
      BY Zenon, <1>b
    <2>3. QED
      BY <1>a, <1>1, <2>1, <2>2 DEF ElectionInv, VotersAreBound
  <1>6. LeadersWereElected'
    BY Zenon, <1>a, <1>b DEF ElectionInv, LeadersWereElected
  <1>7. ElectionSafety'
    BY Zenon, <1>a DEF ElectionInv, ElectionSafety
  <1>8. QED
    BY Zenon, <1>2, <1>3, <1>4, <1>5, <1>6, <1>7 DEF ElectionInv

-----------------------------------------------------------------------------
(***************************************************************************)
(* Every handler is one of these kinds of step.                            *)
(***************************************************************************)

\* persistL brings term and vote to disk.
LEMMA PersistKeepsInStep ==
    ASSUME ElectionInv, NEW i \in Server, NEW l, NEW data, persistL(i, l, data),
           \A j \in Server : j # i => /\ currentTerm'[j] = currentTerm[j]
                                      /\ votedFor'[j] = votedFor[j]
    PROVE  DiskInStep
  BY Zenon DEF ElectionInv, ElectionTypeOK, VotesAreKept, persistL, DiskInStep

\* Disk and memory stay in step when neither changes.
LEMMA UnchangedInStep ==
    ASSUME ElectionInv, UNCHANGED <<disk, currentTerm, votedFor>>
    PROVE  DiskInStep
  BY Zenon DEF ElectionInv, ElectionTypeOK, VotesAreKept, DiskInStep

\* A step that leaves the election state alone, whatever it saves or sends.
LEMMA SilentIsQuiet ==
    ASSUME ElectionInv,
           UNCHANGED <<currentTerm, votedFor, role, votes, elections, leaderId, restarts>>,
           NoVotesSent,
           UNCHANGED disk \/ \E i \in Server : \E l, data : persistL(i, l, data)
    PROVE  ElectionInv'
  <1>1. DiskInStep
    BY Zenon, PersistKeepsInStep, UnchangedInStep
  <1>2. Side
    BY Zenon DEF ElectionInv, ElectionTypeOK, Side
  <1>3. QED
    BY Zenon, <1>1, <1>2, QuietPreserves DEF QuietStep

\* A step that sends nothing sends no vote.
LEMMA NothingSent ==
    ASSUME UNCHANGED msgs
    PROVE  NoVotesSent
  BY Zenon DEF NoVotesSent

\* becomeFollowerL for a later term.
LEMMA FollowPreserves ==
    ASSUME ElectionInv, NEW i \in Server, NEW term \in Term,
           term > currentTerm[i], becomeFollowerL(i, term),
           UNCHANGED <<votes, elections, restarts>>, NoVotesSent,
           leaderId' \in [Server -> Server \cup {NA}]
    PROVE  ElectionInv'
  <1>1. DiskInStep
    BY Zenon, PersistKeepsInStep DEF becomeFollowerL, ElectionInv, ElectionTypeOK
  <1>2. Side
    BY Zenon DEF ElectionInv, ElectionTypeOK, Side
  <1>3. AdoptTerm(i, term)
    BY Zenon, <1>1, <1>2 DEF AdoptTerm, becomeFollowerL
  <1>4. QED
    BY Zenon, <1>3, AdoptPreserves

\* processRequestReplyL.
LEMMA RequestReplyPreserves ==
    ASSUME ElectionInv, NEW i \in Server, NEW m \in msgs, processRequestReplyL(i, m)
    PROVE  ElectionInv'
  <1>1. CASE m.granted
    <2>1. CountVote(i, m)
      BY Zenon, <1>1 DEF processRequestReplyL, becomeLeaderL, CountVote
    <2>2. QED
      BY Zenon, <2>1, CountPreserves
  <1>2. CASE ~m.granted
    <2>1. /\ m.term > currentTerm[i] /\ becomeFollowerL(i, m.term)
          /\ UNCHANGED <<votes, elections, leaderId, msgs, restarts>>
      BY Zenon, <1>2 DEF processRequestReplyL
    <2>2. m.term \in Term /\ leaderId \in [Server -> Server \cup {NA}]
      BY Zenon DEF ElectionInv, ElectionTypeOK
    <2>3. QED
      BY Zenon, <2>1, <2>2, NothingSent, FollowPreserves
  <1>3. QED
    BY Zenon, <1>1, <1>2

\* What append sends.
LEMMA ArgsOfAppend ==
    ASSUME NEW i, NEW j
    PROVE  /\ appendArgs(i, j).type \in {"AppendEntries", "InstallSnapshot"}
           /\ appendArgs(i, j).term = currentTerm[i]
           /\ appendArgs(i, j).src = i /\ appendArgs(i, j).dst = j
  <1>1. /\ makeAppendArgsL(i, j).type = "AppendEntries"
        /\ makeAppendArgsL(i, j).term = currentTerm[i]
        /\ makeAppendArgsL(i, j).src = i /\ makeAppendArgsL(i, j).dst = j
    BY Zenon DEF makeAppendArgsL
  <1>2. QED
    BY Zenon, <1>1 DEF appendArgs

\* append sends only what a leader of its current term may send.
LEMMA AppendPreserves ==
    ASSUME ElectionInv, NEW i \in Server, NEW j \in Server, append(i, j)
    PROVE  ElectionInv'
  <1> DEFINE args == appendArgs(i, j)
  <1>1. /\ args.type \in {"AppendEntries", "InstallSnapshot"}
        /\ args.term = currentTerm[i] /\ args.src = i /\ args.dst = j
    BY ArgsOfAppend
  <1>2. msgs' = msgs \cup {args} /\ role[i] = "Leader"
    BY Zenon DEF append, Send
  <1>3. currentTerm[i] \in Term
    BY Zenon DEF ElectionInv, ElectionTypeOK
  <1> HIDE DEF args
  <1>4. NoVotesSent
    BY Zenon, <1>1, <1>2, <1>3 DEF NoVotesSent
  <1>5. UNCHANGED <<currentTerm, votedFor, role, votes, elections, leaderId, restarts, disk>>
    BY Zenon DEF append, persistent, history
  <1>6. QED
    BY Zenon, <1>4, <1>5, SilentIsQuiet

\* A reply to a leader's message.
LEMMA RepliesAreNoVotes ==
    ASSUME ElectionInv, NEW i \in Server, NEW m \in msgs, NEW r,
           r.type \in {"AppendEntriesReply", "InstallSnapshotReply"},
           r.src = i, r.dst = m.src,
           r.term = IF m.term < currentTerm[i] THEN currentTerm[i] ELSE m.term,
           Send({r})
    PROVE  NoVotesSent
  <1>1. r.term \in Term /\ r.src \in Server /\ r.dst \in Server
    BY Zenon DEF ElectionInv, ElectionTypeOK
  <1>2. QED
    BY Zenon, <1>1 DEF Send, NoVotesSent

\* The reply to AppendEntries is no vote.
LEMMA AppendReplied ==
    ASSUME ElectionInv, NEW i \in Server, NEW m \in msgs, Send({appendReply(i, m)})
    PROVE  NoVotesSent
  <1> DEFINE r == appendReply(i, m)
  <1>1. /\ r.type = "AppendEntriesReply" /\ r.src = i /\ r.dst = m.src
        /\ r.term = IF m.term < currentTerm[i] THEN currentTerm[i] ELSE m.term
    BY Zenon DEF appendReply
  <1> HIDE DEF r
  <1>2. Send({r})
    BY Zenon DEF r
  <1>3. QED
    BY <1>1, <1>2, RepliesAreNoVotes, SMTT(30)

\* The reply to InstallSnapshot is no vote.
LEMMA InstallReplied ==
    ASSUME ElectionInv, NEW i \in Server, NEW m \in msgs, Send({installReply(i, m)})
    PROVE  NoVotesSent
  <1> DEFINE r == installReply(i, m)
  <1>1. /\ r.type = "InstallSnapshotReply" /\ r.src = i /\ r.dst = m.src
        /\ r.term = IF m.term < currentTerm[i] THEN currentTerm[i] ELSE m.term
    BY Zenon DEF installReply
  <1> HIDE DEF r
  <1>2. Send({r})
    BY Zenon DEF r
  <1>3. QED
    BY <1>1, <1>2, RepliesAreNoVotes, SMTT(30)

\* The AppendEntries handler: a newer term is adopted, a candidate of the same
\* term gives up for the sender, which was elected, and the rest is quiet.
LEMMA AppendEntriesPreserves ==
    ASSUME ElectionInv, NEW i \in Server, NEW m \in msgs, AppendEntries(i, m)
    PROVE  ElectionInv'
  <1> DEFINE newLog == IF PrevLogConflict(log[i], m) THEN log[i]
                       ELSE AppendNewEntries(log[i], m)
             demote == m.term > currentTerm[i] \/ role[i] = "Candidate"
  <1>0. ElectionTypeOK /\ m.term \in Term /\ m.src \in Server
    BY Zenon DEF ElectionInv, ElectionTypeOK
  <1>1. NoVotesSent
    BY Zenon, AppendReplied DEF AppendEntries
  <1>a. /\ m.type = "AppendEntries" /\ m.term >= currentTerm[i]
        /\ currentTerm' = [currentTerm EXCEPT ![i] = m.term]
        /\ votedFor' = [votedFor EXCEPT ![i] = IF demote THEN NA ELSE @]
        /\ role' = [role EXCEPT ![i] = IF demote THEN "Follower" ELSE @]
        /\ leaderId' = [leaderId EXCEPT ![i] = m.src]
        /\ IF demote \/ newLog # log[i] THEN persistL(i, newLog, snapshot[i].data)
                                        ELSE UNCHANGED disk
        /\ UNCHANGED <<votes, elections, restarts>>
    BY Zenon DEF AppendEntries, history
  <1> HIDE DEF newLog
  <1>b. m.term >= currentTerm[i]
    BY Zenon, <1>a
  <1>2. Side
    BY Zenon, <1>0, <1>a DEF Side, ElectionTypeOK
  <1>n. m.term \in Nat /\ currentTerm[i] \in Nat
    BY <1>0, BoundsAssumption DEF ElectionTypeOK, Term
  <1>3. CASE demote
    <2>1. DiskInStep
      BY Zenon, <1>3, <1>a, <1>0, PersistKeepsInStep DEF ElectionTypeOK
    <2>2. CASE m.term > currentTerm[i]
      <3>1. AdoptTerm(i, m.term)
        BY Zenon, <2>1, <2>2, <1>1, <1>2, <1>3, <1>a DEF AdoptTerm
      <3>2. QED
        BY Zenon, <3>1, <1>0, AdoptPreserves
    <2>3. CASE ~(m.term > currentTerm[i])
      <3>1. m.term = currentTerm[i] /\ role[i] = "Candidate"
        BY <2>3, <1>3, <1>b, <1>n
      <3>2. Decided(currentTerm[i])
        BY <3>1, <1>a DEF ElectionInv, LeadersWereElected, Decided
      <3>3. currentTerm' = currentTerm
        BY Zenon, <3>1, <1>a, <1>0 DEF ElectionTypeOK
      <3>4. GiveUp(i)
        BY Zenon, <2>1, <3>1, <3>2, <3>3, <1>1, <1>2, <1>3, <1>a DEF GiveUp
      <3>5. QED
        BY Zenon, <3>4, GiveUpPreserves
    <2>4. QED
      BY Zenon, <2>2, <2>3
  <1>4. CASE ~demote
    <2>1. m.term = currentTerm[i]
      BY <1>4, <1>b, <1>n
    <2>2. UNCHANGED <<currentTerm, votedFor, role>>
      BY Zenon, <2>1, <1>4, <1>a, <1>0 DEF ElectionTypeOK
    <2>3. DiskInStep
      BY Zenon, <2>2, <1>a, PersistKeepsInStep, UnchangedInStep
    <2>4. QED
      BY Zenon, <2>2, <2>3, <1>1, <1>2, <1>a, QuietPreserves DEF QuietStep
  <1>5. QED
    BY Zenon, <1>3, <1>4

\* The InstallSnapshot handler.
LEMMA InstallPreserves ==
    ASSUME ElectionInv, NEW i \in Server, NEW m \in msgs, InstallSnapshot(i, m)
    PROVE  ElectionInv'
  <1>0. ElectionTypeOK /\ m.term \in Term /\ m.src \in Server
    BY Zenon DEF ElectionInv, ElectionTypeOK
  <1>1. NoVotesSent
    BY Zenon, InstallReplied DEF InstallSnapshot
  <1>2. leaderId' \in [Server -> Server \cup {NA}] /\ UNCHANGED <<votes, elections, restarts>>
    BY Zenon, <1>0 DEF InstallSnapshot, ElectionTypeOK, history
  <1>3. CASE m.term > currentTerm[i]
    BY Zenon, <1>0, <1>1, <1>2, <1>3, FollowPreserves DEF InstallSnapshot
  <1>4. CASE ~(m.term > currentTerm[i])
    <2>1. UNCHANGED <<currentTerm, votedFor, role, disk>>
      BY Zenon, <1>4 DEF InstallSnapshot
    <2>2. DiskInStep /\ Side
      BY Zenon, <2>1, <1>0, <1>2, UnchangedInStep DEF Side, ElectionTypeOK
    <2>3. QED
      BY Zenon, <2>1, <2>2, <1>1, <1>2, QuietPreserves DEF QuietStep
  <1>5. QED
    BY Zenon, <1>3, <1>4

\* The replies to AppendEntries and InstallSnapshot.
LEMMA LeaderReplyPreserves ==
    ASSUME ElectionInv, NEW i \in Server, NEW m \in msgs,
           processAppendReplyL(i, m) \/ processInstallReplyL(i, m)
    PROVE  ElectionInv'
  <1>0. m.term \in Term /\ leaderId \in [Server -> Server \cup {NA}]
    BY Zenon DEF ElectionInv, ElectionTypeOK
  <1>1. UNCHANGED <<votes, elections, leaderId, msgs, restarts>>
    BY Zenon DEF processAppendReplyL, processInstallReplyL, history
  <1>2. \/ m.term > currentTerm[i] /\ becomeFollowerL(i, m.term)
        \/ UNCHANGED <<currentTerm, votedFor, role, disk>>
    BY Zenon DEF processAppendReplyL, processInstallReplyL
  <1>3. NoVotesSent
    BY Zenon, <1>1, NothingSent
  <1>4. QED
    BY Zenon, <1>0, <1>1, <1>2, <1>3, FollowPreserves, SilentIsQuiet

\* Start, Snapshot, the apply goroutine and the service, and the refusals of a
\* stale term.
LEMMA SilentPreserves ==
    ASSUME ElectionInv, NEW i \in Server,
           \/ \E cmd \in Command : Start(i, cmd)
           \/ Snapshot(i)
           \/ apply(i)
           \/ receiveApplyMsg(i)
           \/ \E m \in msgs : AppendEntriesStale(i, m) \/ InstallSnapshotStale(i, m)
    PROVE  ElectionInv'
  <1>1. CASE \E cmd \in Command : Start(i, cmd)
    <2>1. UNCHANGED <<currentTerm, votedFor, role, votes, elections, leaderId, restarts, msgs>>
      BY Zenon, <1>1 DEF Start, history
    <2>2. UNCHANGED disk \/ \E l, data : persistL(i, l, data)
      BY <1>1, Zenon DEF Start
    <2>3. QED
      BY Zenon, <2>1, <2>2, NothingSent, SilentIsQuiet
  <1>2. CASE Snapshot(i)
    <2>1. UNCHANGED <<currentTerm, votedFor, role, votes, elections, leaderId, restarts, msgs>>
      BY Zenon, <1>2 DEF Snapshot, history
    <2>2. UNCHANGED disk \/ \E l, data : persistL(i, l, data)
      BY <1>2, Zenon DEF Snapshot
    <2>3. QED
      BY Zenon, <2>1, <2>2, NothingSent, SilentIsQuiet
  <1>3. CASE apply(i)
    <2>1. UNCHANGED <<currentTerm, votedFor, role, votes, elections, leaderId,
                      restarts, disk, msgs>>
      <3>1. UNCHANGED <<persistent, disk, role, leaderId, votes, msgs, history>>
        BY <1>3, Zenon DEF apply
      <3>2. QED
        BY Zenon, <3>1 DEF history, persistent
    <2>2. QED
      BY Zenon, <2>1, NothingSent, SilentIsQuiet
  <1>4. CASE receiveApplyMsg(i)
    <2>1. UNCHANGED <<currentTerm, votedFor, role, votes, elections, leaderId,
                      restarts, disk, msgs>>
      BY Zenon, <1>4 DEF receiveApplyMsg, history, persistent
    <2>2. QED
      BY Zenon, <2>1, NothingSent, SilentIsQuiet
  <1>5. CASE \E m \in msgs : AppendEntriesStale(i, m)
    <2>1. UNCHANGED <<currentTerm, votedFor, role, votes, elections, leaderId,
                      restarts, disk>>
      BY Zenon, <1>5 DEF AppendEntriesStale, history, persistent
    <2>2. NoVotesSent
      BY Zenon, <1>5, AppendReplied DEF AppendEntriesStale
    <2>3. QED
      BY Zenon, <2>1, <2>2, SilentIsQuiet
  <1>6. CASE \E m \in msgs : InstallSnapshotStale(i, m)
    <2>1. UNCHANGED <<currentTerm, votedFor, role, votes, elections, leaderId,
                      restarts, disk>>
      BY Zenon, <1>6 DEF InstallSnapshotStale, history, persistent
    <2>2. NoVotesSent
      BY Zenon, <1>6, InstallReplied DEF InstallSnapshotStale
    <2>3. QED
      BY Zenon, <2>1, <2>2, SilentIsQuiet
  <1>7. QED
    BY Zenon, <1>1, <1>2, <1>3, <1>4, <1>5, <1>6

-----------------------------------------------------------------------------
\* The peers boot without votes, leaders or messages.
LEMMA InitElectionInv == Init => ElectionInv
  <1> SUFFICES ASSUME Init PROVE ElectionInv
    BY Zenon
  <1>1. ElectionTypeOK
    <2>1. /\ currentTerm = [i \in Server |-> 0]
          /\ votedFor = [i \in Server |-> NA] /\ leaderId = [i \in Server |-> NA]
          /\ role = [i \in Server |-> "Follower"] /\ votes = [i \in Server |-> {}]
          /\ msgs = {} /\ elections = {} /\ restarts = 0
      BY Zenon DEF Init
    <2>2. disk = [i \in Server |-> disk[i]]
      BY Zenon DEF Init
    <2>3. 0 \in Term
      BY BoundsAssumption DEF Term
    <2>4. QED
      BY Zenon, <2>1, <2>2, <2>3 DEF ElectionTypeOK
  <1>2. VotesAreKept /\ CandidatesCount /\ VotersAreBound
    BY Zenon DEF Init, VotesAreKept, CandidatesCount, VotersAreBound, Granted, Campaigned
  <1>3. LeadersWereElected /\ ElectionSafety
    BY Zenon DEF Init, LeadersWereElected, ElectionSafety
  <1>4. QED
    BY Zenon, <1>1, <1>2, <1>3 DEF ElectionInv

\* Every step preserves ElectionInv.
LEMMA NextElectionInv == ElectionInv /\ [Next]_vars => ElectionInv'
  <1> SUFFICES ASSUME ElectionInv, [Next]_vars PROVE ElectionInv'
    BY Zenon
  <1>1. CASE UNCHANGED vars
    <2>1. UNCHANGED <<currentTerm, votedFor, role, votes, elections, leaderId,
                      restarts, disk, msgs>>
      BY Zenon, <1>1 DEF vars
    <2>2. QED
      BY Zenon, <2>1, NothingSent, SilentIsQuiet
  <1>2. ASSUME NEW i \in Server, Step(i)
        PROVE  ElectionInv'
    BY Zenon, <1>2, CampaignPreserves, AppendPreserves, SilentPreserves, RestartPreserves DEF Step
  <1>3. ASSUME NEW m \in msgs, Receive(m.dst, m)
        PROVE  ElectionInv'
    <2>1. m.dst \in Server
      BY Zenon DEF ElectionInv, ElectionTypeOK
    <2>2. QED
      BY Zenon, <1>3, <2>1, VotePreserves, RequestReplyPreserves, AppendEntriesPreserves,
         InstallPreserves, LeaderReplyPreserves, SilentPreserves DEF Receive
  <1>4. QED
    BY Zenon, <1>1, <1>2, <1>3 DEF Next

\* The state that elections depend on keeps its type, and the election
\* invariant holds, for any number of peers, terms, commands and crashes.
THEOREM ElectionInvariance == Spec => []ElectionInv
  BY InitElectionInv, NextElectionInv, PTL DEF Spec

\* At most one peer runs becomeLeaderL in a term, although becomeFollowerL can
\* clear votedFor within the term.
THEOREM AtMostOneLeader == Spec => []ElectionSafety
  <1>1. ElectionInv => ElectionSafety
    BY Zenon DEF ElectionInv
  <1>2. QED
    BY <1>1, ElectionInvariance, PTL

-----------------------------------------------------------------------------
(***************************************************************************)
(* What a leader knows of other leaders.                                   *)
(***************************************************************************)

\* A step that neither tells a peer of a leader nor makes one.
LEMMA UntoldPreserves ==
    ASSUME ElectionInv, AloneInv,
           elections \subseteq elections',
           \A m \in msgs' \ msgs :
              m.type \in {"AppendEntries", "InstallSnapshot"} => m.src # m.dst,
           \A j \in Server : \/ role'[j] = "Follower"
                             \/ leaderId'[j] = NA
                             \/ /\ role'[j] = role[j] /\ leaderId'[j] = leaderId[j]
                                /\ currentTerm'[j] = currentTerm[j]
    PROVE  AloneInv'
  <1>1. LeaderIsAlone'
    BY Zenon DEF AloneInv, LeaderIsAlone
  <1>2. ASSUME NEW j \in Server, role'[j] = "Candidate", leaderId'[j] # NA
        PROVE  \E e \in elections' : e.term = currentTerm'[j] /\ e.leader # j
    <2>1. PICK e \in elections : e.term = currentTerm[j] /\ e.leader # j
      BY Zenon, <1>2 DEF AloneInv
    <2>2. e \in elections' /\ currentTerm'[j] = currentTerm[j]
      BY Zenon, <1>2
    <2>3. QED
      BY Zenon, <2>1, <2>2
  <1>3. \A m \in msgs' : m.type \in {"AppendEntries", "InstallSnapshot"} => m.src # m.dst
    BY Zenon DEF AloneInv
  <1>4. QED
    BY Zenon, <1>1, <1>2, <1>3 DEF AloneInv

\* Every step: telling a peer of a leader, and winning, are the cases that matter.
LEMMA NextAloneInv == ElectionInv /\ AloneInv /\ [Next]_vars => AloneInv'
  <1> SUFFICES ASSUME ElectionInv, AloneInv, [Next]_vars PROVE AloneInv'
    BY Zenon
  <1>0. ElectionTypeOK /\ ElectionInv'
    BY Zenon, NextElectionInv DEF ElectionInv
  <1>t. role = [j \in Server |-> role[j]] /\ currentTerm = [j \in Server |-> currentTerm[j]]
    BY Zenon, <1>0 DEF ElectionTypeOK
  <1>1. CASE UNCHANGED vars
    BY Zenon, <1>1, UntoldPreserves DEF vars, history
  <1>2. ASSUME NEW i \in Server, Step(i)
        PROVE  AloneInv'
    <2>1. CASE becomeCandidateL(i)
      <3>0. elections' = elections
        BY Zenon, <2>1 DEF becomeCandidateL, history
      <3>1. \A m \in msgs' \ msgs : m.type = "RequestVote"
        BY <2>1 DEF becomeCandidateL, Send
      <3>2. \A j \in Server : \/ leaderId'[j] = NA
                              \/ /\ role'[j] = role[j] /\ leaderId'[j] = leaderId[j]
                                 /\ currentTerm'[j] = currentTerm[j]
        BY Zenon, <2>1, <1>0 DEF becomeCandidateL, ForgetLeader, ElectionTypeOK
      <3>3. QED
        BY Zenon, <3>0, <3>1, <3>2, UntoldPreserves
    <2>2. CASE \E j \in Server : append(i, j)
      <3>1. PICK j \in Server : append(i, j)
        BY Zenon, <2>2
      <3>2. appendArgs(i, j).src = i /\ appendArgs(i, j).dst = j /\ j # i
        BY <3>1, ArgsOfAppend DEF append
      <3>3. QED
        BY Zenon, <3>1, <3>2, UntoldPreserves DEF append, Send, history, persistent
    <2>3. CASE Restart(i)
      <3>1. \A j \in Server : \/ role'[j] = "Follower"
                              \/ /\ role'[j] = role[j] /\ leaderId'[j] = leaderId[j]
                                 /\ currentTerm'[j] = currentTerm[j]
        BY Zenon, <2>3, <1>0 DEF Restart, ElectionTypeOK
      <3>2. UNCHANGED <<msgs, elections>>
        BY Zenon, <2>3 DEF Restart
      <3>3. QED
        BY Zenon, <3>1, <3>2, UntoldPreserves
    <2>4. CASE (\E cmd \in Command : Start(i, cmd)) \/ Snapshot(i) \/ apply(i)
                  \/ receiveApplyMsg(i)
      <3>1. UNCHANGED <<role, leaderId, currentTerm, msgs, elections>>
        <4>1. CASE \E cmd \in Command : Start(i, cmd)
          BY Zenon, <4>1 DEF Start, history
        <4>2. CASE Snapshot(i)
          BY Zenon, <4>2 DEF Snapshot, history
        <4>3. CASE apply(i)
          <5>1. UNCHANGED <<persistent, role, leaderId, msgs, history>>
            BY <4>3, Zenon DEF apply
          <5>2. QED
            BY Zenon, <5>1 DEF persistent, history
        <4>4. CASE receiveApplyMsg(i)
          BY Zenon, <4>4 DEF receiveApplyMsg, persistent, history
        <4>5. QED
          BY Zenon, <2>4, <4>1, <4>2, <4>3, <4>4
      <3>2. QED
        BY Zenon, <3>1, UntoldPreserves
    <2>5. QED
      BY Zenon, <1>2, <2>1, <2>2, <2>3, <2>4 DEF Step
  <1>3. ASSUME NEW m \in msgs, Receive(m.dst, m)
        PROVE  AloneInv'
    <2> DEFINE i == m.dst
    <2>0. i \in Server
      BY Zenon, <1>0 DEF ElectionTypeOK
    <2>t. m.term \in Int /\ currentTerm[i] \in Int
      <3>1. m.term \in Term /\ currentTerm[i] \in Term
        BY Zenon, <1>0, <2>0 DEF ElectionTypeOK
      <3>2. QED
        BY <3>1 DEF Term
    <2>a. appendReply(i, m).type = "AppendEntriesReply"
      BY Zenon DEF appendReply
    <2>b. installReply(i, m).type = "InstallSnapshotReply"
      BY Zenon DEF installReply
    <2>n. m.type \in {"AppendEntries", "InstallSnapshot"} =>
             /\ ~(role[i] = "Leader" /\ currentTerm[i] = m.term)
             /\ \E e \in elections : e.term = m.term /\ e.leader # i
      <3> SUFFICES ASSUME m.type \in {"AppendEntries", "InstallSnapshot"}
                   PROVE  /\ ~(role[i] = "Leader" /\ currentTerm[i] = m.term)
                          /\ \E e \in elections : e.term = m.term /\ e.leader # i
        BY Zenon
      <3>1. m.src # i
        BY Zenon DEF AloneInv
      <3>2. PICK e \in elections : e.term = m.term /\ e.leader = m.src
        BY Zenon DEF ElectionInv, LeadersWereElected
      <3>3. ~(role[i] = "Leader" /\ currentTerm[i] = m.term)
        BY <2>0, <3>1, <3>2 DEF ElectionInv, LeadersWereElected, ElectionSafety
      <3>4. QED
        BY Zenon, <3>1, <3>2, <3>3
    <2>1. CASE AppendEntries(i, m)
      <3>1. role[i] # "Leader" \/ m.term > currentTerm[i]
        <4>1. m.term >= currentTerm[i]
          BY Zenon, <2>1 DEF AppendEntries
        <4>2. ~(role[i] = "Leader" /\ currentTerm[i] = m.term)
          BY Zenon, <2>1, <2>n DEF AppendEntries
        <4>3. QED
          BY <2>t, <4>1, <4>2
      <3>2. role'[i] = "Follower"
        BY Zenon, <2>0, <2>1, <3>1, <1>0 DEF AppendEntries, ElectionTypeOK
      <3>3. \A j \in Server : j = i \/ /\ role'[j] = role[j] /\ leaderId'[j] = leaderId[j]
                                       /\ currentTerm'[j] = currentTerm[j]
        BY Zenon, <2>0, <2>1, <1>0 DEF AppendEntries, ElectionTypeOK
      <3>4. elections' = elections /\ \A r \in msgs' \ msgs : r.type = "AppendEntriesReply"
        <4>1. elections' = elections
          BY Zenon, <2>1 DEF AppendEntries, history
        <4>2. msgs' = msgs \cup {appendReply(i, m)}
          BY Zenon, <2>1 DEF AppendEntries, Send
        <4>3. QED
          BY Zenon, <4>1, <4>2, <2>a
      <3>5. QED
        BY Zenon, <3>2, <3>3, <3>4, UntoldPreserves
    <2>2. CASE InstallSnapshot(i, m)
      <3>1. m.term >= currentTerm[i] /\ m.type = "InstallSnapshot"
        BY Zenon, <2>2 DEF InstallSnapshot
      <3>2. /\ ~(role[i] = "Leader" /\ currentTerm[i] = m.term)
            /\ \E e \in elections : e.term = m.term /\ e.leader # i
        BY Zenon, <2>n, <3>1
      <3>3. elections' = elections /\ \A r \in msgs' \ msgs : r.type = "InstallSnapshotReply"
        <4>1. elections' = elections
          BY Zenon, <2>2 DEF InstallSnapshot, history
        <4>2. msgs' = msgs \cup {installReply(i, m)}
          BY Zenon, <2>2 DEF InstallSnapshot, Send
        <4>3. QED
          BY Zenon, <4>1, <4>2, <2>b
      <3>4. \A j \in Server : j = i \/ /\ role'[j] = role[j] /\ leaderId'[j] = leaderId[j]
                                       /\ currentTerm'[j] = currentTerm[j]
        BY Zenon, <2>0, <2>2, <1>0 DEF InstallSnapshot, becomeFollowerL, ElectionTypeOK
      <3>5. \/ role'[i] = "Follower"
            \/ role'[i] = role[i] /\ currentTerm'[i] = currentTerm[i] /\ m.term = currentTerm[i]
        <4>1. \/ UNCHANGED <<role, currentTerm>> /\ ~(m.term > currentTerm[i])
              \/ role' = [role EXCEPT ![i] = "Follower"]
          BY Zenon, <2>2 DEF InstallSnapshot, becomeFollowerL
        <4>2. QED
          BY <4>1, <1>t, <2>0, <2>t, <3>1
      <3>6. CASE role'[i] = "Follower"
        BY Zenon, <3>3, <3>4, <3>6, UntoldPreserves
      <3>7. CASE role'[i] = role[i] /\ currentTerm'[i] = currentTerm[i] /\ m.term = currentTerm[i]
        BY <3>2, <3>3, <3>4, <3>7 DEF AloneInv, LeaderIsAlone
      <3>8. QED
        BY Zenon, <3>5, <3>6, <3>7
    <2>3. CASE processRequestReplyL(i, m)
      <3>0. role[i] = "Candidate"
        BY Zenon, <2>3 DEF processRequestReplyL
      <3>1. /\ UNCHANGED <<leaderId, msgs>>
            /\ elections \subseteq elections'
        BY Zenon, <2>3 DEF processRequestReplyL, becomeLeaderL
      <3>2. /\ \A j \in Server : j # i => role'[j] = role[j] /\ currentTerm'[j] = currentTerm[j]
            /\ \/ role'[i] = "Follower"
               \/ role'[i] \in {"Leader", "Candidate"} /\ currentTerm'[i] = currentTerm[i]
        <4>1. CASE role' = [role EXCEPT ![i] = "Leader"] /\ UNCHANGED currentTerm
          BY Zenon, <4>1, <2>0, <1>t
        <4>2. CASE /\ role' = [role EXCEPT ![i] = "Follower"]
                   /\ currentTerm' = [currentTerm EXCEPT ![i] = m.term]
          BY Zenon, <4>2, <2>0, <1>t
        <4>3. CASE UNCHANGED <<role, currentTerm>>
          BY Zenon, <4>3, <3>0
        <4>4. QED
          BY Zenon, <2>3, <4>1, <4>2, <4>3 DEF processRequestReplyL, becomeLeaderL, becomeFollowerL
      <3>3. CASE role'[i] = "Leader" /\ leaderId[i] # NA
        <4>1. role[i] = "Candidate" /\ currentTerm'[i] = currentTerm[i]
          BY Zenon, <3>0, <3>2, <3>3
        <4>2. PICK e \in elections : e.term = currentTerm[i] /\ e.leader # i
          BY Zenon, <2>0, <3>3, <4>1 DEF AloneInv
        <4>3. PICK f \in elections' : f.term = currentTerm'[i] /\ f.leader = i
          BY Zenon, <1>0, <2>0, <3>3 DEF ElectionInv, LeadersWereElected
        <4>4. QED
          BY Zenon, <1>0, <3>1, <4>1, <4>2, <4>3 DEF ElectionInv, ElectionSafety
      <3>4. CASE role'[i] # "Leader"
        <4>1. role'[i] # "Follower" => role'[i] = role[i] /\ currentTerm'[i] = currentTerm[i]
          BY Zenon, <3>0, <3>2, <3>4
        <4>2. QED
          BY Zenon, <3>1, <3>2, <4>1, UntoldPreserves
      <3>5. CASE leaderId[i] = NA
        BY Zenon, <3>1, <3>2, <3>5, UntoldPreserves
      <3>6. QED
        BY Zenon, <3>3, <3>4, <3>5
    <2>4. CASE RequestVote(i, m) \/ processAppendReplyL(i, m) \/ processInstallReplyL(i, m)
      <3>1. UNCHANGED <<leaderId, elections>>
        <4>1. CASE RequestVote(i, m)
          BY Zenon, <4>1 DEF RequestVote, history
        <4>2. CASE processAppendReplyL(i, m)
          BY Zenon, <4>2 DEF processAppendReplyL, history
        <4>3. CASE processInstallReplyL(i, m)
          BY Zenon, <4>3 DEF processInstallReplyL, history
        <4>4. QED
          BY Zenon, <2>4, <4>1, <4>2, <4>3
      <3>2. \A r \in msgs' \ msgs : r.type = "RequestVoteReply"
        <4>1. CASE RequestVote(i, m)
          BY <4>1 DEF RequestVote, Send
        <4>2. CASE processAppendReplyL(i, m)
          BY Zenon, <4>2 DEF processAppendReplyL
        <4>3. CASE processInstallReplyL(i, m)
          BY Zenon, <4>3 DEF processInstallReplyL
        <4>4. QED
          BY Zenon, <2>4, <4>1, <4>2, <4>3
      <3>3. \A j \in Server : \/ role'[j] = "Follower"
                              \/ role'[j] = role[j] /\ currentTerm'[j] = currentTerm[j]
        <4>1. CASE RequestVote(i, m)
          BY Zenon, <4>1, <1>t, <2>0 DEF RequestVote
        <4>2. CASE \/ UNCHANGED <<role, currentTerm>>
                   \/ becomeFollowerL(i, m.term)
          BY Zenon, <4>2, <1>t, <2>0 DEF becomeFollowerL
        <4>3. CASE processAppendReplyL(i, m)
          BY Zenon, <4>2, <4>3 DEF processAppendReplyL
        <4>4. CASE processInstallReplyL(i, m)
          BY Zenon, <4>2, <4>4 DEF processInstallReplyL
        <4>5. QED
          BY Zenon, <2>4, <4>1, <4>3, <4>4
      <3>4. QED
        BY Zenon, <3>1, <3>2, <3>3, UntoldPreserves
    <2>5. CASE AppendEntriesStale(i, m) \/ InstallSnapshotStale(i, m)
      <3>1. UNCHANGED <<role, leaderId, currentTerm, elections>>
        BY Zenon, <2>5 DEF AppendEntriesStale, InstallSnapshotStale, persistent, history
      <3>2. msgs' = msgs \cup {appendReply(i, m)} \/ msgs' = msgs \cup {installReply(i, m)}
        BY Zenon, <2>5 DEF AppendEntriesStale, InstallSnapshotStale, Send
      <3>3. \A r \in msgs' \ msgs : r.type \in {"AppendEntriesReply", "InstallSnapshotReply"}
        BY Zenon, <3>2, <2>a, <2>b
      <3>4. QED
        BY Zenon, <3>1, <3>3, UntoldPreserves
    <2>6. QED
      BY Zenon, <1>3, <2>1, <2>2, <2>3, <2>4, <2>5 DEF Receive
  <1>4. QED
    BY Zenon, <1>1, <1>2, <1>3 DEF Next

\* A peer that leads names no other leader, although the InstallSnapshot handler
\* sets leaderId without making a candidate of the same term step down.
THEOREM LeadersAreAlone == Spec => []LeaderIsAlone
  <1>1. Init => AloneInv
    BY Zenon DEF Init, AloneInv, LeaderIsAlone
  <1>2. AloneInv => LeaderIsAlone
    BY Zenon DEF AloneInv
  <1>3. QED
    BY <1>1, <1>2, ElectionInvariance, NextAloneInv, PTL DEF Spec
=============================================================================
