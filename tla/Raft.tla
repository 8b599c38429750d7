-------------------------------- MODULE Raft --------------------------------
(***************************************************************************)
(* The Raft peers of labs/src/raft: elections, log replication with the    *)
(* fast backup of nextIndex, commitment, log trimming, InstallSnapshot,    *)
(* the apply goroutine, and crashes that restart a peer from its Persister.*)
(*                                                                         *)
(* A handler runs under rf.mu from its first line to its return, so it is  *)
(* one action.  A goroutine that releases rf.mu in the middle (append,     *)
(* installL, request, apply) is one action per stretch between two         *)
(* releases of the lock.                                                   *)
(***************************************************************************)
EXTENDS Integers, FiniteSets, FiniteSetsExt, Sequences

CONSTANTS
    Server,        \* the peers; rf.me is a member
    Command,       \* the commands the service passes to Start
    NA,            \* util.NA, as a peer ("nobody") and as the empty command
    MaxTerm,       \* bound: no peer campaigns beyond this term
    MaxIndex,      \* bound: no command is started beyond this index
    MaxRestarts,   \* bound: crashes in one behaviour
    Campaigners,   \* bound: the peers whose election timer may fire
    Appliers,      \* bound: the peers whose apply goroutine gets scheduled
    Snapshotters   \* bound: the peers whose service takes snapshots

\* The code indexes sorted matchIndex at nPeers/2+1, which exists from three peers on.
ASSUME ServerAssumption == IsFiniteSet(Server) /\ Cardinality(Server) >= 3

ASSUME NAAssumption == NA \notin Server /\ NA \notin Command

ASSUME BoundsAssumption ==
    /\ MaxTerm \in Nat /\ MaxIndex \in Nat /\ MaxRestarts \in Nat
    /\ Campaigners \subseteq Server
    /\ Appliers \subseteq Server
    /\ Snapshotters \subseteq Server

\* The terms of a behaviour, 0 at boot.
Term == 0..MaxTerm

VARIABLES
    currentTerm, votedFor, log, snapshot,  \* struct Raft, persistent part
    disk,                                  \* what the Persister holds
    role, leaderId, votes,                 \* votes: the counter of requestsL
    commitIndex, lastApplied,
    nextIndex, matchIndex,
    applySnapshot,
    applier,                               \* where the apply goroutine stands
    service,                               \* the state machine above Raft
    msgs,                                  \* every message sent so far
    elections,                             \* history: one record per becomeLeaderL
    ledger,                                \* history: the log of each term's leader
    commits,                               \* history: what setCommitIndexL counted
    restarts                               \* how many crashes so far

persistent == <<currentTerm, votedFor, log, snapshot>>
leaderVars == <<nextIndex, matchIndex>>
applyVars  == <<applySnapshot, applier, service>>
history    == <<elections, ledger, commits, restarts>>
vars == <<currentTerm, votedFor, log, snapshot, disk, role, leaderId, votes,
          commitIndex, lastApplied, nextIndex, matchIndex, applySnapshot,
          applier, service, msgs, elections, ledger, commits, restarts>>

-----------------------------------------------------------------------------
(***************************************************************************)
(* The log.  log[0] of the slice is the entry at the snapshot's index      *)
(* (index 0, term 0 at boot); entry k of the log is ent[k], for k from     *)
(* first to last.                                                          *)
(***************************************************************************)

LogEntry == [term : Nat, cmd : Command \cup {NA}]

MakeLog(first, last, ent) == [first |-> first, last |-> last, ent |-> ent]

SingletonLog(index, term) ==
    MakeLog(index, index, [k \in index..index |-> [term |-> term, cmd |-> NA]])

lastLogTerm(l) == l.ent[l.last].term

AppendEntry(l, entry) ==
    MakeLog(l.first, l.last + 1,
            [k \in l.first..(l.last + 1) |-> IF k = l.last + 1 THEN entry ELSE l.ent[k]])

\* Bug: one entry too many is dropped.
trimLogLShort(l, index) ==
    MakeLog(index, l.last, [k \in (index + 1)..l.last |-> l.ent[k]])

\* trimLogL: entries before index are dropped, the one at index becomes log[0].
trimLogL(l, index) ==
    MakeLog(index, l.last, [k \in index..l.last |-> l.ent[k]])

\* The first of the entries in m that the log lacks or holds with another term.
NewEntries(l, m) ==
    {k \in (m.prevLogIndex + 1)..m.lastIndex :
        l.last < k \/ m.entries[k].term # l.ent[k].term}

\* Receiver steps 3 and 4: cut the log at the first new entry, append from there.
AppendNewEntries(l, m) ==
    IF NewEntries(l, m) = {} THEN l
    ELSE LET index == Min(NewEntries(l, m))
         IN  MakeLog(l.first, m.lastIndex,
                     [k \in l.first..m.lastIndex |->
                        IF k < index THEN l.ent[k] ELSE m.entries[k]])

(***************************************************************************)
(* _prevLogConflictL: the three ways PrevLogIndex fails to match, and the  *)
(* hint <<ConflictTerm, ConflictFirstIndex>> for each.  The loop walks     *)
(* down from PrevLogIndex-1 and stops above the last entry of another term.*)
(***************************************************************************)
NoTerm == -1   \* util.NA in the field ConflictTerm

\* Bug: the terms at PrevLogIndex are not compared.
PrevLogConflictByIndex(l, m) == l.last < m.prevLogIndex \/ l.first > m.prevLogIndex

PrevLogConflict(l, m) ==
    \/ l.last < m.prevLogIndex
    \/ l.first > m.prevLogIndex
    \/ l.ent[m.prevLogIndex].term # m.prevLogTerm

ConflictHint(l, m) ==
    IF l.last < m.prevLogIndex THEN <<NoTerm, l.last + 1>>
    ELSE IF l.first > m.prevLogIndex THEN <<NoTerm, l.first + 1>>
    ELSE LET term   == l.ent[m.prevLogIndex].term
             others == {k \in (l.first + 1)..(m.prevLogIndex - 1) :
                            l.ent[k].term # term}
         IN  <<term, IF others # {} THEN Max(others) + 1
                     ELSE Min({l.first, m.prevLogIndex - 1})>>

-----------------------------------------------------------------------------
(***************************************************************************)
(* The network (labrpc) may lose, delay and reorder calls and replies.  A  *)
(* message stays in msgs once it is sent; losing it is never delivering    *)
(* it.  Delivering an AppendEntries or InstallSnapshot again stands for    *)
(* the delivery of another copy: a leader sends the same arguments on      *)
(* every tick until its state changes.  RequestVote is sent once per peer  *)
(* and election, and labrpc does not duplicate, so it is answered once.    *)
(***************************************************************************)

Send(ms) == msgs' = msgs \cup ms

\* Bug: the vote is not among the fields that are encoded.
persistLNoVote(i, l, data) ==
    disk' = [disk EXCEPT ![i] = [currentTerm |-> currentTerm'[i],
                                 votedFor    |-> NA,
                                 log         |-> l,
                                 data        |-> data]]

\* Bug: the log is not among the fields that are encoded.
persistLNoLog(i, l, data) ==
    disk' = [disk EXCEPT ![i] = [@ EXCEPT !.currentTerm = currentTerm'[i],
                                          !.votedFor = votedFor'[i]]]

\* persistL: term, vote, log and snapshot data go to the Persister together.
persistL(i, l, data) ==
    disk' = [disk EXCEPT ![i] = [currentTerm |-> currentTerm'[i],
                                 votedFor    |-> votedFor'[i],
                                 log         |-> l,
                                 data        |-> data]]

\* Bug: the new term is not saved.
becomeFollowerLUnsaved(i, term) ==
    /\ role' = [role EXCEPT ![i] = "Follower"]
    /\ votedFor' = [votedFor EXCEPT ![i] = NA]
    /\ currentTerm' = [currentTerm EXCEPT ![i] = term]
    /\ UNCHANGED disk

\* becomeFollowerL, whose trailing persistL saves the log as it is.
becomeFollowerL(i, term) ==
    /\ role' = [role EXCEPT ![i] = "Follower"]
    /\ votedFor' = [votedFor EXCEPT ![i] = NA]
    /\ currentTerm' = [currentTerm EXCEPT ![i] = term]
    /\ persistL(i, log[i], snapshot[i].data)

\* Bug: the Signal is forgotten.
applySignalLForgotten(i) == applier

\* applySignalL wakes the apply goroutine out of applyCond.Wait.
applySignalL(i) ==
    IF applier[i].pc = "wait" THEN [applier EXCEPT ![i].pc = "top"] ELSE applier

-----------------------------------------------------------------------------
(***************************************************************************)
(* Make on an empty Persister.                                             *)
(***************************************************************************)

BootLog == SingletonLog(0, 0)

\* The apply goroutine with no message in hand.
Idle(pc) == [pc |-> pc, index |-> 0, data |-> <<>>]

Init ==
    /\ currentTerm = [i \in Server |-> 0]
    /\ votedFor = [i \in Server |-> NA]
    /\ log = [i \in Server |-> BootLog]
    /\ snapshot = [i \in Server |-> [index |-> 0, term |-> 0, data |-> <<>>]]
    /\ disk = [i \in Server |-> [currentTerm |-> 0, votedFor |-> NA,
                                 log |-> BootLog, data |-> <<>>]]
    /\ role = [i \in Server |-> "Follower"]
    /\ leaderId = [i \in Server |-> NA]
    /\ votes = [i \in Server |-> {}]
    /\ commitIndex = [i \in Server |-> 0]
    /\ lastApplied = [i \in Server |-> 0]
    /\ nextIndex = [i \in Server |-> [j \in Server |-> 0]]
    /\ matchIndex = [i \in Server |-> [j \in Server |-> 0]]
    /\ applySnapshot = [i \in Server |-> FALSE]
    /\ applier = [i \in Server |-> Idle("top")]
    /\ service = [i \in Server |-> [index |-> 0, cmds |-> <<>>]]
    /\ msgs = {}
    /\ elections = {}
    /\ ledger = [t \in Term |-> BootLog]
    /\ commits = {[term |-> 0, index |-> 0, quorum |-> Server]}
    /\ restarts = 0

-----------------------------------------------------------------------------
(***************************************************************************)
(* Elections.                                                              *)
(***************************************************************************)

\* Bug: leaderId keeps naming the previous leader.
ForgetLeaderNot(i) == UNCHANGED leaderId

ForgetLeader(i) == leaderId' = [leaderId EXCEPT ![i] = NA]

\* tick on a peer that is not the leader and whose election timeout is over:
\* becomeCandidateL, then requestsL to all the other peers.
becomeCandidateL(i) ==
    /\ i \in Campaigners
    /\ role[i] # "Leader"
    /\ currentTerm[i] < MaxTerm
    /\ role' = [role EXCEPT ![i] = "Candidate"]
    /\ currentTerm' = [currentTerm EXCEPT ![i] = @ + 1]
    /\ votedFor' = [votedFor EXCEPT ![i] = i]
    /\ ForgetLeader(i)
    /\ persistL(i, log[i], snapshot[i].data)
    /\ votes' = [votes EXCEPT ![i] = {i}]
    /\ Send({[type |-> "RequestVote", term |-> currentTerm[i] + 1, src |-> i,
              dst |-> j, lastLogIndex |-> log[i].last,
              lastLogTerm |-> lastLogTerm(log[i])] : j \in Server \ {i}})
    /\ UNCHANGED <<log, snapshot, commitIndex, lastApplied, leaderVars,
                   applyVars, history>>

Answered(m) ==
    \E r \in msgs : /\ r.type = "RequestVoteReply"
                    /\ r.src = m.dst /\ r.dst = m.src /\ r.argsTerm = m.term

UpToDate(i, m) ==
    \/ m.lastLogTerm > lastLogTerm(log[i])
    \/ m.lastLogTerm = lastLogTerm(log[i]) /\ m.lastLogIndex >= log[i].last

\* The RequestVote handler.
RequestVote(i, m) ==
    LET newer == m.term > currentTerm[i]
        term  == IF newer THEN m.term ELSE currentTerm[i]
        vote  == IF newer THEN NA ELSE votedFor[i]
        grant == m.term = term /\ vote \in {NA, m.src} /\ UpToDate(i, m)
    IN  /\ m.type = "RequestVote" /\ m.dst = i /\ ~Answered(m)
        /\ currentTerm' = [currentTerm EXCEPT ![i] = term]
        /\ votedFor' = [votedFor EXCEPT ![i] = IF grant THEN m.src ELSE vote]
        /\ role' = [role EXCEPT ![i] = IF newer THEN "Follower" ELSE @]
        /\ IF newer \/ grant THEN persistL(i, log[i], snapshot[i].data)
                             ELSE UNCHANGED disk
        /\ Send({[type |-> "RequestVoteReply", term |-> term, src |-> i,
                  dst |-> m.src, argsTerm |-> m.term, granted |-> grant]})
        /\ UNCHANGED <<log, snapshot, leaderId, votes, commitIndex, lastApplied,
                       leaderVars, applyVars, history>>

\* becomeLeaderL: nextIndex and matchIndex start afresh.
becomeLeaderL(i) ==
    /\ role' = [role EXCEPT ![i] = "Leader"]
    /\ nextIndex' = [nextIndex EXCEPT ![i] = [j \in Server |-> log[i].last + 1]]
    /\ matchIndex' = [matchIndex EXCEPT ![i] = [j \in Server |-> 0]]
    /\ elections' = elections \cup
           {[term |-> currentTerm[i], leader |-> i, voters |-> votes'[i]]}
    /\ ledger' = [ledger EXCEPT ![currentTerm[i]] =
           MakeLog(0, log[i].last, [k \in 0..log[i].last |->
                                      ledger[lastLogTerm(log[i])].ent[k]])]

\* processRequestReplyL.  Each peer is asked once per election, so the counter
\* *votes is the number of peers in the set votes[i].
processRequestReplyL(i, m) ==
    /\ m.type = "RequestVoteReply" /\ m.dst = i
    /\ currentTerm[i] = m.argsTerm /\ role[i] = "Candidate"
    /\ \/ /\ m.granted /\ m.src \notin votes[i]
          /\ votes' = [votes EXCEPT ![i] = @ \cup {m.src}]
          /\ IF Cardinality(votes'[i]) > Cardinality(Server) \div 2
             THEN becomeLeaderL(i)
             ELSE UNCHANGED <<role, leaderVars, elections, ledger>>
          /\ UNCHANGED <<currentTerm, votedFor, disk>>
       \/ /\ ~m.granted /\ m.term > currentTerm[i]
          /\ becomeFollowerL(i, m.term)
          /\ UNCHANGED <<votes, leaderVars, elections, ledger>>
    /\ UNCHANGED <<log, snapshot, leaderId, commitIndex, lastApplied, applyVars,
                   msgs, commits, restarts>>

-----------------------------------------------------------------------------
(***************************************************************************)
(* Replication.                                                            *)
(***************************************************************************)

\* Start on the leader.  The appendsL that follows spawns append goroutines,
\* which run as the action append.
Start(i, cmd) ==
    LET entry == [term |-> currentTerm[i], cmd |-> cmd]
    IN  /\ role[i] = "Leader"
        /\ log[i].last < MaxIndex
        /\ log' = [log EXCEPT ![i] = AppendEntry(@, entry)]
        /\ ledger' = [ledger EXCEPT ![currentTerm[i]] = AppendEntry(@, entry)]
        /\ UNCHANGED <<currentTerm, votedFor, snapshot>>
        /\ persistL(i, log'[i], snapshot[i].data)
        /\ UNCHANGED <<role, leaderId, votes, commitIndex, lastApplied,
                       leaderVars, applyVars, msgs, elections, commits, restarts>>

\* Bug: one entry per message, as before the batching.
LastSentOne(i, next) == Min({next, log[i].last})

LastSent(i, next) == log[i].last

\* _makeAppendArgsL: all the entries from nextIndex to the end of the log.
makeAppendArgsL(i, j) ==
    LET next == nextIndex[i][j]
        last == LastSent(i, next)
    IN  [type |-> "AppendEntries", term |-> currentTerm[i], src |-> i, dst |-> j,
         prevLogIndex |-> next - 1, prevLogTerm |-> log[i].ent[next - 1].term,
         lastIndex |-> last,
         entries |-> [k \in next..last |-> log[i].ent[k]],
         leaderCommit |-> commitIndex[i]]

\* What append sends: entries, or the snapshot (installL) to a follower that
\* needs entries the leader has trimmed.
appendArgs(i, j) ==
    IF nextIndex[i][j] <= log[i].first
    THEN [type |-> "InstallSnapshot", term |-> currentTerm[i], src |-> i, dst |-> j,
          snapshot |-> snapshot[i]]
    ELSE makeAppendArgsL(i, j)

\* append up to the call: on every tick, after an election and after Start.
append(i, j) ==
    /\ role[i] = "Leader" /\ j # i
    /\ Send({appendArgs(i, j)})
    /\ UNCHANGED <<persistent, disk, role, leaderId, votes, commitIndex,
                   lastApplied, leaderVars, applyVars, history>>

\* The reply of peer i to the call m, with the arguments that the calling
\* goroutine still holds.
appendReply(i, m) ==
    LET stale    == m.term < currentTerm[i]
        conflict == ~stale /\ PrevLogConflict(log[i], m)
        hint     == IF conflict THEN ConflictHint(log[i], m) ELSE <<0, 0>>
    IN  [type |-> "AppendEntriesReply", src |-> i, dst |-> m.src,
         term |-> IF stale THEN currentTerm[i] ELSE m.term,
         argsTerm |-> m.term, prevLogIndex |-> m.prevLogIndex,
         lastIndex |-> m.lastIndex, success |-> ~stale /\ ~conflict,
         conflictTerm |-> hint[1], conflictFirstIndex |-> hint[2]]

\* Bug: the commit index of a message whose entries were refused is taken over.
HearsCommitAnyway(i, m) == m.leaderCommit > commitIndex[i]

\* Receiver step 5: only if the entries of m are in the log now.
HearsCommit(i, m) ==
    ~PrevLogConflict(log[i], m) /\ m.leaderCommit > commitIndex[i]

\* The AppendEntries handler for a term that is not stale: a candidate of the
\* same term steps down through becomeFollowerL as well.
AppendEntries(i, m) ==
    LET demote   == m.term > currentTerm[i] \/ role[i] = "Candidate"
        conflict == PrevLogConflict(log[i], m)
        newLog   == IF conflict THEN log[i] ELSE AppendNewEntries(log[i], m)
        commit   == HearsCommit(i, m)
    IN  /\ m.type = "AppendEntries" /\ m.dst = i
        /\ m.term >= currentTerm[i]
        /\ currentTerm' = [currentTerm EXCEPT ![i] = m.term]
        /\ votedFor' = [votedFor EXCEPT ![i] = IF demote THEN NA ELSE @]
        /\ role' = [role EXCEPT ![i] = IF demote THEN "Follower" ELSE @]
        /\ leaderId' = [leaderId EXCEPT ![i] = m.src]
        /\ log' = [log EXCEPT ![i] = newLog]
        /\ IF demote \/ newLog # log[i] THEN persistL(i, newLog, snapshot[i].data)
                                        ELSE UNCHANGED disk
        /\ commitIndex' = [commitIndex EXCEPT ![i] =
                IF commit THEN Min({m.leaderCommit, newLog.last}) ELSE @]
        /\ applier' = IF commit THEN applySignalL(i) ELSE applier
        /\ Send({appendReply(i, m)})
        /\ UNCHANGED <<snapshot, votes, lastApplied, leaderVars, applySnapshot,
                       service, history>>

\* The AppendEntries handler for a stale term: refused, nothing else changes.
AppendEntriesStale(i, m) ==
    /\ m.type = "AppendEntries" /\ m.dst = i
    /\ m.term < currentTerm[i]
    /\ Send({appendReply(i, m)})
    /\ UNCHANGED <<persistent, disk, role, leaderId, votes, commitIndex,
                   lastApplied, leaderVars, applyVars, history>>

\* Bug: one entry is skipped.
updateMatchAndNextLSkips(i, j, newMatch) ==
    /\ matchIndex' = [matchIndex EXCEPT ![i][j] = IF newMatch > @ THEN newMatch ELSE @]
    /\ nextIndex' = [nextIndex EXCEPT ![i][j] = IF newMatch >= @ THEN newMatch + 2 ELSE @]

updateMatchAndNextL(i, j, newMatch) ==
    /\ matchIndex' = [matchIndex EXCEPT ![i][j] = IF newMatch > @ THEN newMatch ELSE @]
    /\ nextIndex' = [nextIndex EXCEPT ![i][j] = IF newMatch >= @ THEN newMatch + 1 ELSE @]

\* setCommitIndexL: the element at nPeers/2+1 (counted from 0) of match sorted;
\* a peer's own slot stays 0.
SortedAt(match, pos) ==
    CHOOSE v \in {match[j] : j \in Server} :
        /\ Cardinality({j \in Server : match[j] < v}) <= pos
        /\ pos < Cardinality({j \in Server : match[j] <= v})

\* Bug: entries of earlier terms are committed by counting replicas.
CommitsAnyTerm(i, N) == N > commitIndex[i]

CommitsNow(i, N) == N > commitIndex[i] /\ log[i].ent[N].term = currentTerm[i]

setCommitIndexL(i, match) ==
    LET N == SortedAt(match, Cardinality(Server) \div 2 + 1)
    IN  IF CommitsNow(i, N)
        THEN /\ commitIndex' = [commitIndex EXCEPT ![i] = N]
             /\ applier' = applySignalL(i)
             /\ commits' = commits \cup
                    {[term |-> currentTerm[i], index |-> N,
                      quorum |-> {i} \cup {j \in Server : match[j] >= N}]}
        ELSE UNCHANGED <<commitIndex, applier, commits>>

\* _processPrevLogConflictL: where the leader resumes after a conflict.  The
\* search walks down from PrevLogIndex-1 to the last entry of ConflictTerm.
ConflictNext(i, m) ==
    LET minIndex == Max({m.conflictFirstIndex, log[i].first + 1})
        same     == {k \in minIndex..(m.prevLogIndex - 1) :
                        log[i].ent[k].term = m.conflictTerm}
    IN  IF m.conflictTerm = NoTerm \/ m.conflictTerm > currentTerm[i]
        THEN m.conflictFirstIndex
        ELSE IF same # {} THEN Max(same) + 1
        ELSE Min({m.prevLogIndex - 1, minIndex - 1})

\* processAppendReplyL.
processAppendReplyL(i, m) ==
    /\ m.type = "AppendEntriesReply" /\ m.dst = i
    /\ currentTerm[i] = m.argsTerm /\ role[i] = "Leader"
    /\ \/ /\ m.success
          /\ updateMatchAndNextL(i, m.src, m.lastIndex)
          /\ setCommitIndexL(i, matchIndex'[i])
          /\ UNCHANGED <<currentTerm, votedFor, role, disk>>
       \/ /\ ~m.success /\ m.term > currentTerm[i]
          /\ becomeFollowerL(i, m.term)
          /\ UNCHANGED <<leaderVars, commitIndex, applier, commits>>
       \/ /\ ~m.success /\ m.term <= currentTerm[i]
          /\ nextIndex' = [nextIndex EXCEPT ![i][m.src] = ConflictNext(i, m)]
          /\ UNCHANGED <<currentTerm, votedFor, role, disk, matchIndex,
                         commitIndex, applier, commits>>
    /\ UNCHANGED <<log, snapshot, leaderId, votes, lastApplied, applySnapshot,
                   service, msgs, elections, ledger, restarts>>

-----------------------------------------------------------------------------
(***************************************************************************)
(* Snapshots.                                                              *)
(***************************************************************************)

\* Snapshot: the service hands over its state after the last command it applied.
Snapshot(i) ==
    LET index == service[i].index
    IN  /\ i \in Snapshotters
        /\ index > log[i].first
        /\ log' = [log EXCEPT ![i] = trimLogL(@, index)]
        /\ snapshot' = [snapshot EXCEPT ![i] =
               [index |-> index, term |-> log[i].ent[index].term,
                data |-> service[i].cmds]]
        /\ UNCHANGED <<currentTerm, votedFor>>
        /\ persistL(i, log'[i], service[i].cmds)
        /\ UNCHANGED <<role, leaderId, votes, commitIndex, lastApplied,
                       leaderVars, applyVars, msgs, history>>

installReply(i, m) ==
    [type |-> "InstallSnapshotReply", src |-> i, dst |-> m.src,
     term |-> IF m.term < currentTerm[i] THEN currentTerm[i] ELSE m.term,
     argsTerm |-> m.term, index |-> m.snapshot.index]

HoldsSnapshot(l, s) == l.last >= s.index /\ l.ent[s.index].term = s.term

\* The InstallSnapshot handler for a term that is not stale.  becomeFollowerL
\* saves the log as it was; the installed snapshot itself is not saved.
InstallSnapshot(i, m) ==
    LET newer   == m.term > currentTerm[i]
        s       == m.snapshot
        install == s.index > log[i].first
    IN  /\ m.type = "InstallSnapshot" /\ m.dst = i
        /\ m.term >= currentTerm[i]
        /\ IF newer THEN becomeFollowerL(i, m.term)
                    ELSE UNCHANGED <<role, votedFor, currentTerm, disk>>
        /\ leaderId' = [leaderId EXCEPT ![i] = m.src]
        /\ IF install
           THEN /\ snapshot' = [snapshot EXCEPT ![i] = s]
                /\ log' = [log EXCEPT ![i] = IF HoldsSnapshot(@, s)
                                             THEN trimLogL(@, s.index)
                                             ELSE SingletonLog(s.index, s.term)]
                /\ applySnapshot' = [applySnapshot EXCEPT ![i] = TRUE]
                /\ applier' = applySignalL(i)
           ELSE UNCHANGED <<snapshot, log, applySnapshot, applier>>
        /\ Send({installReply(i, m)})
        /\ UNCHANGED <<votes, commitIndex, lastApplied, leaderVars, service,
                       history>>

\* The InstallSnapshot handler for a stale term.
InstallSnapshotStale(i, m) ==
    /\ m.type = "InstallSnapshot" /\ m.dst = i
    /\ m.term < currentTerm[i]
    /\ Send({installReply(i, m)})
    /\ UNCHANGED <<persistent, disk, role, leaderId, votes, commitIndex,
                   lastApplied, leaderVars, applyVars, history>>

\* processInstallReplyL.
processInstallReplyL(i, m) ==
    /\ m.type = "InstallSnapshotReply" /\ m.dst = i
    /\ currentTerm[i] = m.argsTerm /\ role[i] = "Leader"
    /\ IF m.term > currentTerm[i]
       THEN becomeFollowerL(i, m.term) /\ UNCHANGED leaderVars
       ELSE /\ updateMatchAndNextL(i, m.src, m.index)
            /\ UNCHANGED <<currentTerm, votedFor, role, disk>>
    /\ UNCHANGED <<log, snapshot, leaderId, votes, commitIndex, lastApplied,
                   applyVars, msgs, history>>

-----------------------------------------------------------------------------
(***************************************************************************)
(* The apply goroutine.  It holds rf.mu except while it waits ("wait"),    *)
(* while it offers a snapshot ("snap") or a command ("cmd") on applyCh,    *)
(* and until it has the lock back afterwards ("resume", "check").  It      *)
(* leaves the loop for good in "exited".                                   *)
(***************************************************************************)

\* Bug: the last committed entry is taken, not the next one.
NextToApplyLast(i) == commitIndex[i]

NextToApply(i) == lastApplied[i] + 1

\* The part of the loop below applySnapshotL; pending is the flag by then.
applyCommand(i, pending) ==
    LET index == NextToApply(i)
    IN  IF commitIndex[i] > lastApplied[i]
        THEN /\ lastApplied' = [lastApplied EXCEPT ![i] = index]
             /\ applier' = [applier EXCEPT ![i] =
                    IF index <= log[i].first THEN Idle("exited")
                    ELSE [pc |-> "cmd", index |-> index,
                          data |-> <<log[i].ent[index].cmd>>]]
        ELSE /\ applier' = [applier EXCEPT ![i] = Idle(IF pending THEN "top" ELSE "wait")]
             /\ UNCHANGED lastApplied

\* Bug: a snapshot the service is already past is offered as well.
SnapshotIsAheadAlways(i) == applySnapshot[i]

\* There is a snapshot to offer, and it is ahead of the service.
SnapshotIsAhead(i) == applySnapshot[i] /\ snapshot[i].index > lastApplied[i]

\* applySnapshotL up to the send.
applySnapshotL(i) ==
    /\ SnapshotIsAhead(i)
    /\ commitIndex' = [commitIndex EXCEPT ![i] = snapshot[i].index]
    /\ lastApplied' = [lastApplied EXCEPT ![i] = snapshot[i].index]
    /\ applier' = [applier EXCEPT ![i] =
           [pc |-> "snap", index |-> snapshot[i].index, data |-> snapshot[i].data]]

\* One stretch of apply under the lock.
apply(i) ==
    /\ i \in Appliers
    /\ \/ /\ applier[i].pc = "top"
          /\ applySnapshot' = [applySnapshot EXCEPT ![i] = FALSE]
          /\ \/ applySnapshotL(i)
             \/ /\ ~SnapshotIsAhead(i)
                /\ applyCommand(i, FALSE)
                /\ UNCHANGED commitIndex
       \/ /\ applier[i].pc = "resume"
          /\ applyCommand(i, applySnapshot[i])
          /\ UNCHANGED <<applySnapshot, commitIndex>>
       \/ /\ applier[i].pc = "check"
          /\ applier' = [applier EXCEPT ![i] = Idle(
                 IF commitIndex[i] <= lastApplied[i] /\ ~applySnapshot[i]
                 THEN "wait" ELSE "top")]
          /\ UNCHANGED <<applySnapshot, commitIndex, lastApplied>>
    /\ UNCHANGED <<persistent, disk, role, leaderId, votes, leaderVars, service,
                   msgs, history>>

\* The service takes the message off applyCh: a snapshot replaces its state, a
\* command is executed on it.
receiveApplyMsg(i) ==
    /\ applier[i].pc \in {"snap", "cmd"}
    /\ service' = [service EXCEPT ![i] =
           [index |-> applier[i].index,
            cmds  |-> IF applier[i].pc = "snap" THEN applier[i].data
                      ELSE @.cmds \o applier[i].data]]
    /\ applier' = [applier EXCEPT ![i] =
           Idle(IF applier[i].pc = "snap" THEN "resume" ELSE "check")]
    /\ UNCHANGED <<persistent, disk, role, leaderId, votes, commitIndex,
                   lastApplied, leaderVars, applySnapshot, msgs, history>>

-----------------------------------------------------------------------------
\* Kill, then Make on the same Persister: initL and readPersist.  The service
\* starts from the saved snapshot.
Restart(i) ==
    LET d == disk[i]
    IN  /\ restarts < MaxRestarts
        /\ restarts' = restarts + 1
        /\ currentTerm' = [currentTerm EXCEPT ![i] = d.currentTerm]
        /\ votedFor' = [votedFor EXCEPT ![i] = d.votedFor]
        /\ log' = [log EXCEPT ![i] = d.log]
        /\ snapshot' = [snapshot EXCEPT ![i] =
               [index |-> d.log.first, term |-> d.log.ent[d.log.first].term,
                data |-> d.data]]
        /\ role' = [role EXCEPT ![i] = "Follower"]
        /\ leaderId' = [leaderId EXCEPT ![i] = NA]
        /\ votes' = [votes EXCEPT ![i] = {}]
        /\ commitIndex' = [commitIndex EXCEPT ![i] = d.log.first]
        /\ lastApplied' = [lastApplied EXCEPT ![i] = d.log.first]
        /\ nextIndex' = [nextIndex EXCEPT ![i] = [j \in Server |-> 0]]
        /\ matchIndex' = [matchIndex EXCEPT ![i] = [j \in Server |-> 0]]
        /\ applySnapshot' = [applySnapshot EXCEPT ![i] = FALSE]
        /\ applier' = [applier EXCEPT ![i] = Idle("top")]
        /\ service' = [service EXCEPT ![i] = [index |-> d.log.first, cmds |-> d.data]]
        /\ UNCHANGED <<disk, msgs, elections, ledger, commits>>

Receive(i, m) ==
    \/ RequestVote(i, m)
    \/ processRequestReplyL(i, m)
    \/ AppendEntries(i, m)
    \/ AppendEntriesStale(i, m)
    \/ processAppendReplyL(i, m)
    \/ InstallSnapshot(i, m)
    \/ InstallSnapshotStale(i, m)
    \/ processInstallReplyL(i, m)

\* What peer i does of itself, not in answer to a message.
Step(i) ==
    \/ becomeCandidateL(i)
    \/ \E cmd \in Command : Start(i, cmd)
    \/ \E j \in Server : append(i, j)
    \/ Snapshot(i)
    \/ apply(i)
    \/ receiveApplyMsg(i)
    \/ Restart(i)

Next ==
    \/ \E i \in Server : Step(i)
    \/ \E m \in msgs : Receive(m.dst, m)

Spec == Init /\ [][Next]_vars

-----------------------------------------------------------------------------
(***************************************************************************)
(* Types.                                                                  *)
(***************************************************************************)

IsLog(l) ==
    /\ l.first \in Nat /\ l.last \in Nat /\ l.first <= l.last
    /\ l = MakeLog(l.first, l.last, l.ent)
    /\ l.ent \in [l.first..l.last -> LogEntry]

SnapshotType == [index : Nat, term : Nat, data : Seq(Command)]

\* The variables that elections depend on.
ElectionTypeOK ==
    /\ currentTerm \in [Server -> Term]
    /\ votedFor \in [Server -> Server \cup {NA}]
    /\ role \in [Server -> {"Follower", "Candidate", "Leader"}]
    /\ leaderId \in [Server -> Server \cup {NA}]
    /\ votes \in [Server -> SUBSET Server]
    /\ disk = [i \in Server |-> disk[i]]
    /\ elections \subseteq [term : Term, leader : Server, voters : SUBSET Server]
    /\ restarts \in Nat
    /\ \A m \in msgs :
          /\ m.type \in {"RequestVote", "RequestVoteReply", "AppendEntries",
                         "AppendEntriesReply", "InstallSnapshot", "InstallSnapshotReply"}
          /\ m.term \in Term /\ m.src \in Server /\ m.dst \in Server
          /\ m.type = "RequestVoteReply" => m.argsTerm \in Term /\ m.granted \in BOOLEAN

\* The logs, indices and the apply goroutine; a log is a non-empty run of entries.
LogTypeOK ==
    /\ log = [i \in Server |-> log[i]]
    /\ \A i \in Server : IsLog(log[i]) /\ IsLog(disk[i].log)
    /\ snapshot \in [Server -> SnapshotType]
    /\ commitIndex \in [Server -> Nat]
    /\ lastApplied \in [Server -> Nat]
    /\ nextIndex \in [Server -> [Server -> Nat]]
    /\ matchIndex \in [Server -> [Server -> Nat]]
    /\ applySnapshot \in [Server -> BOOLEAN]
    /\ applier \in [Server -> [pc : {"top", "wait", "snap", "resume", "cmd", "check", "exited"},
                               index : Nat, data : Seq(Command)]]
    /\ service \in [Server -> [index : Nat, cmds : Seq(Command)]]

\* Every variable has its type.
TypeOK == ElectionTypeOK /\ LogTypeOK

-----------------------------------------------------------------------------
(***************************************************************************)
(* Safety.                                                                 *)
(***************************************************************************)

\* becomeLeaderL runs at most once in a term over all peers, crashes included,
\* although becomeFollowerL can clear votedFor inside a term.
ElectionSafety ==
    \A e, f \in elections : e.term = f.term => e = f

(***************************************************************************)
(* Why ElectionSafety holds.  A candidate that hears from a leader of its  *)
(* own term clears votedFor and may vote again in that term, so "one vote  *)
(* per peer and term" is not invariant.  But the leader's message shows    *)
(* that the election of the term is over, and no peer whose vote decided   *)
(* it is a candidate any more.                                             *)
(***************************************************************************)
Campaigned(c, term) ==
    \E m \in msgs : m.type = "RequestVote" /\ m.src = c /\ m.term = term

\* Peer s has voted for c in a term: for itself, or by a reply.
Granted(s, c, term) ==
    \/ s = c /\ Campaigned(c, term)
    \/ \E m \in msgs : /\ m.type = "RequestVoteReply" /\ m.granted
                       /\ m.src = s /\ m.dst = c /\ m.argsTerm = term

Decided(term) == \E e \in elections : e.term = term

\* A vote is for a term the voter has reached, and the voter remembers it on
\* disk; until the term is decided it is the voter's only vote of the term.
VotesAreKept ==
    /\ \A i \in Server : /\ disk[i].currentTerm = currentTerm[i]
                         /\ disk[i].votedFor = votedFor[i]
    /\ \A s, c \in Server : \A term \in Term : Granted(s, c, term) =>
          /\ term <= currentTerm[s]
          /\ Decided(term) \/ term < currentTerm[s] \/ votedFor[s] = c
          /\ Decided(term) \/ \A d \in Server : Granted(s, d, term) => c = d

\* A candidate counts votes it was given.
CandidatesCount ==
    \A i \in Server : role[i] = "Candidate" =>
        /\ i \in votes[i]
        /\ Campaigned(i, currentTerm[i])
        /\ \A s \in votes[i] : Granted(s, i, currentTerm[i])

\* An election was won by a majority, whose votes in that term can go to nobody
\* else any more.
VotersAreBound ==
    \A e \in elections :
        /\ e.leader \in e.voters
        /\ 2 * Cardinality(e.voters) > Cardinality(Server)
        /\ \A s \in e.voters :
              /\ Granted(s, e.leader, e.term)
              /\ \A c \in Server : Granted(s, c, e.term) => c = e.leader
              /\ currentTerm[s] = e.term =>
                    votedFor[s] = e.leader /\ role[s] # "Candidate"

\* Whoever leads, or sent a leader's message, won the election of that term.
LeadersWereElected ==
    /\ \A i \in Server : role[i] = "Leader" =>
          \E e \in elections : e.term = currentTerm[i] /\ e.leader = i
    /\ \A m \in msgs : m.type \in {"AppendEntries", "InstallSnapshot"} =>
          \E e \in elections : e.term = m.term /\ e.leader = m.src

ElectionInv ==
    /\ ElectionTypeOK
    /\ VotesAreKept
    /\ CandidatesCount
    /\ VotersAreBound
    /\ LeadersWereElected
    /\ ElectionSafety

\* Two logs that hold an entry of the same index and term agree on that entry
\* and on all the entries before it (up to what trimLogL has dropped).
LogMatching ==
    \A i, j \in Server :
        \A k \in (log[i].first..log[i].last) \cap (log[j].first..log[j].last) :
            log[i].ent[k].term = log[j].ent[k].term =>
                \A n \in (log[i].first..k) \cap (log[j].first..k) :
                    /\ log[i].ent[n].term = log[j].ent[n].term
                    /\ n > log[i].first /\ n > log[j].first =>
                         log[i].ent[n].cmd = log[j].ent[n].cmd

\* What a peer regards as committed is in the log of every leader of its term
\* or a later one, at the same index and with the same term.
LeaderCompleteness ==
    \A i, j \in Server :
        role[j] = "Leader" /\ currentTerm[j] >= currentTerm[i] =>
            /\ commitIndex[i] <= log[j].last
            /\ \A k \in Max({log[i].first, log[j].first})..commitIndex[i] :
                   k <= log[i].last => log[i].ent[k].term = log[j].ent[k].term

\* The services execute the same commands in the same order, whether they come
\* one by one or inside a snapshot.
StateMachineSafety ==
    \A i, j \in Server :
        \A k \in 1..Min({Len(service[i].cmds), Len(service[j].cmds)}) :
            service[i].cmds[k] = service[j].cmds[k]

\* apply delivers every index once and in order: what the service has executed
\* is exactly the commands up to the index it was last told.
AppliedInOrder ==
    \A i \in Server : service[i].index = Len(service[i].cmds)

\* A leader has heard of no other leader: GetLeaderId is NA on it.
LeaderIsAlone ==
    \A i \in Server : role[i] = "Leader" => leaderId[i] = NA

\* What makes LeaderIsAlone inductive.  The InstallSnapshot handler leaves a
\* candidate of the same term a candidate, with leaderId set: such a candidate
\* has lost its election.
AloneInv ==
    /\ LeaderIsAlone
    /\ \A i \in Server : role[i] = "Candidate" /\ leaderId[i] # NA =>
          \E e \in elections : e.term = currentTerm[i] /\ e.leader # i
    /\ \A m \in msgs : m.type \in {"AppendEntries", "InstallSnapshot"} => m.src # m.dst

\* Whether peer s would still have entry k of this term after a crash.
SavedAt(s, k, term) ==
    LET l == disk[s].log
    IN  k < l.first \/ (k <= l.last /\ l.ent[k].term = term)

\* A committed entry is on the disks of a majority, so no crash can lose it,
\* although InstallSnapshot replies before the snapshot is saved.
CommittedOnMajority ==
    \A i \in Server : \A k \in log[i].first..commitIndex[i] :
        k <= log[i].last =>
            2 * Cardinality({s \in Server : SavedAt(s, k, log[i].ent[k].term)})
                > Cardinality(Server)

\* An AppendEntries never announces a commit index beyond its own entries; this
\* is what makes min(LeaderCommit, lastLog.Index) in the handler right, where
\* lastLog need not be the last new entry.
AppendCoversCommit ==
    \A m \in msgs : m.type = "AppendEntries" => m.leaderCommit <= m.lastIndex

\* No slice index is out of range: getLogL(nextIndex-1) in _makeAppendArgsL,
\* getLogL(N) in setCommitIndexL, getLogL(lastApplied) in apply, and the new
\* length in trimLogL.
LogAccessInRange ==
    \A i \in Server :
        /\ commitIndex[i] <= log[i].last
        /\ service[i].index <= log[i].last
        /\ role[i] = "Leader" => \A j \in Server :
              /\ nextIndex[i][j] <= log[i].last + 1
              /\ matchIndex[i][j] > commitIndex[i] =>
                     matchIndex[i][j] \in log[i].first..log[i].last

\* Snapshots and commands only move the service forward; only a crash takes it
\* back, to the saved snapshot.
ServiceMovesForward ==
    [][\A i \in Server :
         restarts' = restarts => service'[i].index >= service[i].index]_vars
=============================================================================
