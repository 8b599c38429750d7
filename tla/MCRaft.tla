------------------------------- MODULE MCRaft -------------------------------
(* Instances of Raft for TLC. *)
EXTENDS RaftInv, TLC

\* Peers that play the same part in a run are interchangeable.
Symmetry ==
    {p \in Permutations(Server) :
        \A S \in {Campaigners, Appliers, Snapshotters} : {p[s] : s \in S} = S}

(***************************************************************************)
(* The view: what the future of a state depends on.  Left out are messages *)
(* that no peer will ever act on again, the vote counter of a peer that is *)
(* not campaigning, and the indices of a peer that does not lead.  Terms   *)
(* never decrease and no peer returns to a role within a term, so what is  *)
(* left out stays without effect.  The ledgers and commits are history and *)
(* stay in, for the invariant that speaks of them.                         *)
(***************************************************************************)

\* Nobody waits for an answer to a call that s made in this role and term.
Abandoned(s, r, term) == currentTerm[s] > term \/ role[s] # r

NoEffect(m) ==
    CASE m.type = "RequestVote" ->
            \/ Answered(m)
            \/ m.term < currentTerm[m.dst] /\ Abandoned(m.src, "Candidate", m.term)
      [] m.type = "RequestVoteReply" ->
            \/ Abandoned(m.dst, "Candidate", m.argsTerm)
            \/ m.granted /\ m.src \in votes[m.dst]
            \/ ~m.granted /\ m.term <= currentTerm[m.dst]
      [] m.type \in {"AppendEntries", "InstallSnapshot"} ->
            m.term < currentTerm[m.dst] /\ Abandoned(m.src, "Leader", m.term)
      [] OTHER -> Abandoned(m.dst, "Leader", m.argsTerm)

View == <<currentTerm, votedFor, log, snapshot, disk, role, leaderId,
          [i \in Server |-> IF role[i] = "Candidate" THEN votes[i] ELSE {}],
          commitIndex, lastApplied,
          [i \in Server |-> IF role[i] = "Leader" THEN nextIndex[i] ELSE <<>>],
          [i \in Server |-> IF role[i] = "Leader" THEN matchIndex[i] ELSE <<>>],
          applySnapshot, applier, service, {m \in msgs : ~NoEffect(m)},
          {<<e.term, e.leader>> : e \in elections}, restarts, ledger, commits>>

(***************************************************************************)
(* Sends first.  A step that only adds messages (append; AppendEntries or  *)
(* InstallSnapshot on a peer it tells nothing new) disables no other step, *)
(* since a message may stay undelivered for ever.  So it is enough to      *)
(* explore the behaviours in which such steps come first.                  *)
(***************************************************************************)
Unsent == {p \in Server \X Server :
             /\ role[p[1]] = "Leader" /\ p[1] # p[2]
             /\ appendArgs(p[1], p[2]) \notin msgs}

TellsNothing(m) ==
    LET i == m.dst
    IN  \/ m.term < currentTerm[i]
        \/ /\ m.term = currentTerm[i] /\ leaderId[i] = m.src
           /\ \/ /\ m.type = "AppendEntries" /\ role[i] # "Candidate"
                 /\ \/ PrevLogConflict(log[i], m)
                    \/ NewEntries(log[i], m) = {} /\ m.leaderCommit <= commitIndex[i]
              \/ m.type = "InstallSnapshot" /\ m.snapshot.index <= log[i].first

IsCall(m) == m.type \in {"AppendEntries", "InstallSnapshot"}

Reply(m) == IF m.type = "AppendEntries" THEN appendReply(m.dst, m) ELSE installReply(m.dst, m)

MCNext ==
    LET unsent == Unsent
        live   == {m \in msgs : ~NoEffect(m)}
        known  == {m \in live : IsCall(m) /\ TellsNothing(m)}
        quiet  == {m \in known : Reply(m) \notin msgs}
    IN  IF unsent # {} THEN LET p == CHOOSE p \in unsent : TRUE IN append(p[1], p[2])
        ELSE IF quiet # {} THEN LET m == CHOOSE m \in quiet : TRUE IN Receive(m.dst, m)
        ELSE \/ \E i \in Server : Step(i)
             \/ \E m \in live \ known : Receive(m.dst, m)

MCSpec == Init /\ [][MCNext]_vars
=============================================================================
