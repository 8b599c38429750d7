------------------------------ MODULE RaftInv ------------------------------
(***************************************************************************)
(* Why Raft's logs are safe: the inductive invariant, part by part.        *)
(*                                                                         *)
(* ledger[t] is the log of the leader of term t with nothing trimmed.      *)
(* Every log is a stretch of some ledger, and two ledgers that have an     *)
(* entry of the same index and term are the same up to it.  commits holds  *)
(* the entries that setCommitIndexL counted, each with the peers counted.  *)
(* A peer that was counted keeps the entry, so that a majority of voters   *)
(* includes one that refuses any candidate without it.                     *)
(***************************************************************************)
EXTENDS Raft

\* Entry n of the leader's log of term t is of term u.
Has(t, n, u) == n \in 0..ledger[t].last /\ ledger[t].ent[n].term = u

\* The leaders of t and u have the same entries up to n.
Same(t, u, n) ==
    /\ n <= ledger[t].last /\ n <= ledger[u].last
    /\ \A k \in 0..n : ledger[t].ent[k] = ledger[u].ent[k]

\* l is a stretch of the log of the leader of t.  A snapshot leaves the entry
\* at its index without a command.
Within(l, t) ==
    /\ l.last <= ledger[t].last
    /\ \A k \in l.first..l.last :
          /\ l.ent[k].term = ledger[t].ent[k].term
          /\ k > l.first => l.ent[k] = ledger[t].ent[k]

LedgerOK ==
    /\ ledger = [t \in Term |-> ledger[t]]
    /\ \A t \in Term :
          /\ IsLog(ledger[t]) /\ ledger[t].first = 0
          /\ ledger[t].ent[0] = BootLog.ent[0]
          /\ ~Decided(t) => ledger[t] = BootLog
          /\ \A k \in 0..ledger[t].last :
                /\ ledger[t].ent[k].term \in 0..t
                /\ Same(t, ledger[t].ent[k].term, k)
                /\ k > 0 => ledger[t].ent[k].cmd \in Command

\* The two copies of a peer's log.
Logs(i) == {log[i], disk[i].log}

LogsOK ==
    \A i \in Server :
        /\ \A l \in Logs(i) : /\ IsLog(l)
                              /\ lastLogTerm(l) \in 0..currentTerm[i]
                              /\ Within(l, lastLogTerm(l))
        /\ role[i] = "Leader" => /\ Within(log[i], currentTerm[i])
                                 /\ log[i].last = ledger[currentTerm[i]].last

-----------------------------------------------------------------------------
(***************************************************************************)
(* What was sent.                                                          *)
(***************************************************************************)

\* Everything up to n in the log of the leader of a term up to t is committed.
Known(n, t) == \E c \in commits : c.term <= t /\ n <= c.index

AppendOK(m) ==
    /\ m.prevLogIndex \in Nat /\ m.lastIndex \in Nat /\ m.leaderCommit \in Nat
    /\ m.prevLogIndex <= m.lastIndex
    /\ m.lastIndex <= ledger[m.term].last
    /\ m.prevLogTerm = ledger[m.term].ent[m.prevLogIndex].term
    /\ \A k \in (m.prevLogIndex + 1)..m.lastIndex : m.entries[k] = ledger[m.term].ent[k]
    /\ m.leaderCommit <= m.lastIndex
    /\ Known(m.leaderCommit, m.term)

\* The commands up to the index of a snapshot, in the log of the leader of t.
Content(data, n, t) ==
    /\ data \in Seq(Command) /\ Len(data) = n
    /\ \A k \in 1..n : data[k] = ledger[t].ent[k].cmd

InstallOK(m) ==
    /\ m.snapshot \in SnapshotType
    /\ Has(m.term, m.snapshot.index, m.snapshot.term)
    /\ Known(m.snapshot.index, m.term)
    /\ Content(m.snapshot.data, m.snapshot.index, m.term)

RequestOK(m) ==
    /\ m.lastLogTerm \in 0..(m.term - 1)
    /\ Has(m.lastLogTerm, m.lastLogIndex, m.lastLogTerm)

AppendSent(t, n) ==
    \E m \in msgs : m.type = "AppendEntries" /\ m.term = t /\ m.lastIndex = n

InstallSent(t, n) ==
    \E m \in msgs : m.type = "InstallSnapshot" /\ m.term = t /\ m.snapshot.index = n

AppendReplyOK(m) ==
    /\ m.argsTerm \in Term /\ m.src # m.dst
    /\ AppendSent(m.argsTerm, m.lastIndex)
    /\ m.success \in BOOLEAN
    /\ m.success => m.argsTerm <= currentTerm[m.src]
    /\ ~m.success /\ m.term <= m.argsTerm =>
          /\ m.prevLogIndex \in 0..ledger[m.argsTerm].last
          /\ m.conflictTerm # NoTerm => m.prevLogIndex > 0
          /\ m.conflictFirstIndex \in 0..(ledger[m.argsTerm].last + 1)

InstallReplyOK(m) ==
    /\ m.argsTerm \in Term /\ m.src # m.dst
    /\ InstallSent(m.argsTerm, m.index)

MessageOK(m) ==
    /\ m.type = "RequestVote" => RequestOK(m)
    /\ m.type = "RequestVoteReply" => Campaigned(m.dst, m.argsTerm)
    /\ m.type = "AppendEntries" => AppendOK(m)
    /\ m.type = "InstallSnapshot" => InstallOK(m)
    /\ m.type = "AppendEntriesReply" => AppendReplyOK(m)
    /\ m.type = "InstallSnapshotReply" => InstallReplyOK(m)

MessagesOK == \A m \in msgs : MessageOK(m)

-----------------------------------------------------------------------------
(***************************************************************************)
(* Candidates.                                                             *)
(***************************************************************************)

\* A candidate asks every peer with the same arguments.
RequestsOK ==
    \A m, q \in msgs :
        /\ m.type = "RequestVote" /\ q.type = "RequestVote"
        /\ m.src = q.src /\ m.term = q.term
        => m.lastLogIndex = q.lastLogIndex /\ m.lastLogTerm = q.lastLogTerm

\* Until its term is decided, a candidate's log ends where its requests say.
CandidatesOK ==
    \A i \in Server : role[i] = "Candidate" /\ ~Decided(currentTerm[i]) =>
        \A m \in msgs :
            m.type = "RequestVote" /\ m.src = i /\ m.term = currentTerm[i] =>
                /\ m.lastLogIndex = log[i].last
                /\ m.lastLogTerm = lastLogTerm(log[i])

\* So the log of an elected leader has what its requests said.
ElectedOK ==
    \A e \in elections :
        /\ Campaigned(e.leader, e.term)
        /\ \A m \in msgs :
              m.type = "RequestVote" /\ m.src = e.leader /\ m.term = e.term =>
                  Has(e.term, m.lastLogIndex, m.lastLogTerm)

-----------------------------------------------------------------------------
(***************************************************************************)
(* Promises.  A peer answers for entry n of term t when it led t or        *)
(* acknowledged an AppendEntries of t that reaches n.  An acknowledgement  *)
(* may rest on a snapshot of t that is not saved, and then it is worth     *)
(* nothing; but such a snapshot is committed already.                      *)
(***************************************************************************)
Acked(s, n, t) ==
    \E m \in msgs : /\ m.type = "AppendEntriesReply" /\ m.success
                    /\ m.src = s /\ m.argsTerm = t /\ n <= m.lastIndex

Led(s, t) == \E e \in elections : e.term = t /\ e.leader = s

Shipped(n, t) ==
    \E m \in msgs : m.type = "InstallSnapshot" /\ m.term = t /\ n <= m.snapshot.index

Counted(s, n, t) == \E c \in commits : c.term = t /\ c.index = n /\ s \in c.quorum

Pledged(s, n, t) ==
    /\ Has(t, n, t)
    /\ \/ ~Shipped(n, t) /\ (Led(s, t) \/ Acked(s, n, t))
       \/ Counted(s, n, t)

\* No leader after t up to u lacks entry n of term t.
Safe(n, t, u) == \A v \in Term : t < v /\ v <= u /\ Decided(v) => Has(v, n, t)

Holds(l, n, t) == n <= l.last /\ Has(lastLogTerm(l), n, t)

\* A peer keeps what it answers for, unless a leader without it came later.
KeepOK ==
    \A s \in Server : \A t \in Term : \A n \in 0..ledger[t].last : Pledged(s, n, t) =>
        /\ t <= currentTerm[s]
        /\ Safe(n, t, currentTerm[s]) => \A l \in Logs(s) : Holds(l, n, t)

\* m is as up to date as entry n of term t.
Covers(m, n, t) ==
    \/ m.lastLogTerm > t
    \/ m.lastLogTerm = t /\ m.lastLogIndex >= n

\* The vote of s for m counts, or may still count.
VoteCounts(s, m) ==
    /\ Granted(s, m.src, m.term)
    /\ \A e \in elections : e.term = m.term => e.leader = m.src /\ s \in e.voters

\* And it votes for no candidate that lacks it.
VoteOK ==
    \A s \in Server : \A t \in Term : \A n \in 0..ledger[t].last : Pledged(s, n, t) =>
        \A m \in msgs :
            /\ m.type = "RequestVote" /\ m.term > t
            /\ VoteCounts(s, m) /\ Safe(n, t, m.term - 1)
            => Covers(m, n, t)

CommitsOK ==
    \A c \in commits :
        /\ c.term \in Term /\ c.index \in Nat /\ c.quorum \subseteq Server
        /\ c.term = 0 \/ Decided(c.term)
        /\ Has(c.term, c.index, c.term)
        /\ 2 * Cardinality(c.quorum) > Cardinality(Server)

\* Every majority that elected a leader includes a peer that was counted.
QuorumsMeet == \A e \in elections : \A c \in commits : \E s \in e.voters : s \in c.quorum

\* With an odd number of peers, those at or above the element that
\* setCommitIndexL takes, and the leader below it, are a majority.
CountsMajority ==
    \A match \in [Server -> Nat] :
        LET N == SortedAt(match, Cardinality(Server) \div 2 + 1)
        IN  /\ N \in {match[j] : j \in Server}
            /\ \A i \in Server : match[i] < N =>
                  2 * Cardinality({i} \cup {j \in Server : match[j] >= N})
                      > Cardinality(Server)

\* An InstallSnapshot is answered before the snapshot is saved.  Until it is,
\* the log is the snapshot alone.
DiskOK ==
    \A i \in Server :
        \/ /\ disk[i].log.last = log[i].last
           /\ lastLogTerm(disk[i].log) = lastLogTerm(log[i])
        \/ /\ log[i].first = log[i].last
           /\ \E m \in msgs : /\ m.type = "InstallSnapshot" /\ m.term <= currentTerm[i]
                              /\ m.snapshot.index = log[i].last
                              /\ m.snapshot.term = lastLogTerm(log[i])

-----------------------------------------------------------------------------
(***************************************************************************)
(* What peers know to be committed.                                        *)
(***************************************************************************)

\* The first n entries of l are committed, in a term that i has reached.
Committed(i, l, n) ==
    /\ n <= l.last
    /\ \E c \in commits : /\ c.term <= currentTerm[i] /\ n <= c.index
                          /\ Same(lastLogTerm(l), c.term, n)

CoverOK ==
    \A i \in Server :
        /\ Committed(i, log[i], commitIndex[i])
        /\ \A l \in Logs(i) : Committed(i, l, l.first)

\* What leader i knows of the others.
IndexOK ==
    \A i \in Server : role[i] = "Leader" =>
        /\ matchIndex[i][i] = 0
        /\ \A j \in Server :
              /\ nextIndex[i][j] <= log[i].last + 1
              /\ \/ matchIndex[i][j] = 0
                 \/ /\ AppendSent(currentTerm[i], matchIndex[i][j])
                    /\ Acked(j, matchIndex[i][j], currentTerm[i])
                 \/ InstallSent(currentTerm[i], matchIndex[i][j])
        /\ \A m \in msgs : m.type = "InstallSnapshot" /\ m.term = currentTerm[i] =>
              m.snapshot.index <= log[i].first
        /\ log[i].ent[log[i].first].term = currentTerm[i] =>
              log[i].first <= commitIndex[i]
        /\ commitIndex[i] < log[i].first =>
              \A m \in msgs : m.term = currentTerm[i] =>
                  /\ m.type = "AppendEntries" => m.lastIndex >= log[i].first
                  /\ m.type = "InstallSnapshot" => m.snapshot.index >= log[i].first

-----------------------------------------------------------------------------
(***************************************************************************)
(* The service.                                                            *)
(***************************************************************************)

\* These commands are the beginning of what is committed.
Executed(cmds) ==
    \E c \in commits : Len(cmds) <= c.index /\ Content(cmds, Len(cmds), c.term)

SnapshotsOK ==
    \A i \in Server :
        /\ snapshot[i].index = log[i].first
        /\ snapshot[i].term = log[i].ent[log[i].first].term
        /\ Content(snapshot[i].data, log[i].first, lastLogTerm(log[i]))
        /\ Content(disk[i].data, disk[i].log.first, lastLogTerm(disk[i].log))

PeerApplyOK(i) ==
    /\ lastApplied[i] <= commitIndex[i]
    /\ service[i].index = Len(service[i].cmds)
    /\ Executed(service[i].cmds)
    /\ service[i].index <= lastApplied[i]
    /\ applier[i].pc \in {"top", "wait", "resume", "check"} =>
          service[i].index = lastApplied[i]
    /\ applier[i].pc \in {"snap", "cmd"} => applier[i].index = lastApplied[i]
    /\ applier[i].pc = "snap" =>
          /\ Len(applier[i].data) = applier[i].index
          /\ Executed(applier[i].data)
    /\ applier[i].pc = "cmd" =>
          /\ applier[i].index = service[i].index + 1
          /\ Len(applier[i].data) = 1
          /\ Executed(service[i].cmds \o applier[i].data)

ApplyOK == \A i \in Server : PeerApplyOK(i)

-----------------------------------------------------------------------------
LogInv ==
    /\ LogTypeOK
    /\ LedgerOK /\ LogsOK
    /\ MessagesOK
    /\ RequestsOK /\ CandidatesOK /\ ElectedOK
    /\ KeepOK /\ VoteOK /\ CommitsOK /\ DiskOK
    /\ CoverOK /\ IndexOK
    /\ SnapshotsOK /\ ApplyOK

\* The inductive invariant of raft.go.  A peer counted by setCommitIndexL, or
\* one that could still be, keeps the entry on disk and votes for no candidate
\* without it; every log, message, snapshot and commit index agrees with the
\* log of a leader that was elected; services execute what was counted.
RaftInvariant == ElectionInv /\ AloneInv /\ LogInv
=============================================================================
