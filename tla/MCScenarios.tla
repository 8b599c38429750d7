---------------------------- MODULE MCScenarios ----------------------------
(***************************************************************************)
(* Raft from three reachable states that lie too deep for a search from    *)
(* the start.  What was sent before is lost.                               *)
(*                                                                         *)
(* Lagging: b leads term 1 with the vote of c, both hold two entries that  *)
(* b has committed and not yet applied, and a has heard nothing, not even  *)
(* a request for its vote.                                                 *)
(*                                                                         *)
(* Rivals: a led term 1 and then b led term 2, each with the vote of c,    *)
(* and each started a command that nobody heard of.  b has crashed and     *)
(* come back.  Either all three hold an entry of term 1 before, and a has  *)
(* won term 3 with the vote of c; or a has won term 4 with the vote of c   *)
(* and started one more command.                                           *)
(*                                                                         *)
(* Backup: a led term 1 with the vote of c and started x twice, b led term *)
(* 2 with the vote of c and started y, which c has.  Then a refused a vote *)
(* in term 2, and c was elected in term 3 by b and started y again.        *)
(*                                                                         *)
(* Lagging and Rivals are followed for safety; Lagging and Backup under a  *)
(* leader that stays, for liveness.                                        *)
(***************************************************************************)
EXTENDS MCRaft

CONSTANTS a, b, c, x, y

VARIABLE settled     \* is it a behaviour under a leader that stays?

Told(s, yes, no) == IF s = a THEN no ELSE yes

Two == MakeLog(0, 2, [k \in 0..2 |->
           IF k = 0 THEN [term |-> 0, cmd |-> NA]
           ELSE [term |-> 1, cmd |-> IF k = 1 THEN x ELSE y]])

LaggingInit ==
    /\ currentTerm = [i \in Server |-> Told(i, 1, 0)]
    /\ votedFor = [i \in Server |-> Told(i, b, NA)]
    /\ log = [i \in Server |-> Told(i, Two, BootLog)]
    /\ snapshot = [i \in Server |-> [index |-> 0, term |-> 0, data |-> <<>>]]
    /\ disk = [i \in Server |-> [currentTerm |-> currentTerm[i],
                                 votedFor |-> votedFor[i], log |-> log[i],
                                 data |-> <<>>]]
    /\ role = [i \in Server |-> IF i = b THEN "Leader" ELSE "Follower"]
    /\ leaderId = [i \in Server |-> IF i = c THEN b ELSE NA]
    /\ votes = [i \in Server |-> IF i = b THEN {b, c} ELSE {}]
    /\ commitIndex = [i \in Server |-> IF i = b THEN 2 ELSE 0]
    /\ lastApplied = [i \in Server |-> 0]
    /\ nextIndex = [i \in Server |-> [j \in Server |->
                       IF i # b THEN 0 ELSE IF j = c THEN 3 ELSE 1]]
    /\ matchIndex = [i \in Server |-> [j \in Server |->
                       IF i = b /\ j = c THEN 2 ELSE 0]]
    /\ applySnapshot = [i \in Server |-> FALSE]
    /\ applier = [i \in Server |-> Idle("top")]
    /\ service = [i \in Server |-> [index |-> 0, cmds |-> <<>>]]
    /\ msgs = {}
    /\ elections = {[term |-> 1, leader |-> b, voters |-> {b, c}]}
    /\ ledger = [t \in Term |-> IF t = 1 THEN Two ELSE BootLog]
    /\ commits = {[term |-> 0, index |-> 0, quorum |-> Server],
                  [term |-> 1, index |-> 2, quorum |-> {b, c}]}
    /\ restarts = 0

\* The log with these terms at the indices 1, 2, ...
LogOf(terms, cmd) ==
    MakeLog(0, Len(terms), [k \in 0..Len(terms) |->
        IF k = 0 THEN [term |-> 0, cmd |-> NA] ELSE [term |-> terms[k], cmd |-> cmd]])

Elected(term, leader) == [term |-> term, leader |-> leader, voters |->
                             CASE leader = a -> {a, c}
                               [] leader = b -> {b, c}
                               [] leader = c -> {b, c}]

\* What both states have in common: nothing committed, sent or applied.
Shared ==
    /\ snapshot = [i \in Server |-> [index |-> 0, term |-> 0, data |-> <<>>]]
    /\ disk = [i \in Server |-> [currentTerm |-> currentTerm[i],
                                 votedFor |-> votedFor[i], log |-> log[i],
                                 data |-> <<>>]]
    /\ votes = [i \in Server |-> IF i = a THEN {a, c} ELSE {b, c}]
    /\ commitIndex = [i \in Server |-> 0]
    /\ lastApplied = [i \in Server |-> 0]
    /\ matchIndex = [i \in Server |-> [j \in Server |-> 0]]
    /\ applySnapshot = [i \in Server |-> FALSE]
    /\ applier = [i \in Server |-> Idle("top")]
    /\ service = [i \in Server |-> [index |-> 0, cmds |-> <<>>]]
    /\ msgs = {}
    /\ commits = {[term |-> 0, index |-> 0, quorum |-> Server]}

\* The ledger with these logs of the terms 1, 2, ...
LedgerOf(logs) == [t \in Term |-> IF t \in DOMAIN logs THEN logs[t] ELSE BootLog]

RivalsInit ==
    /\ \/ /\ log = [i \in Server |-> CASE i = a -> LogOf(<<1, 1>>, x)
                                       [] i = b -> MakeLog(0, 2, [LogOf(<<1, 2>>, x).ent
                                                      EXCEPT ![2].cmd = y])
                                       [] i = c -> LogOf(<<1>>, x)]
          /\ currentTerm = [i \in Server |-> IF i = b THEN 2 ELSE 3]
          /\ ledger = LedgerOf(<<log[a], log[b], log[a]>>)
          /\ nextIndex = [i \in Server |-> [j \in Server |-> IF i = a THEN 3 ELSE 0]]
       \/ /\ log = [i \in Server |-> CASE i = a -> LogOf(<<1, 4>>, x)
                                       [] i = b -> LogOf(<<2>>, y)
                                       [] i = c -> BootLog]
          /\ currentTerm = [i \in Server |-> IF i = b THEN 2 ELSE 4]
          /\ ledger = LedgerOf(<<LogOf(<<1>>, x), log[b], BootLog, log[a]>>)
          /\ nextIndex = [i \in Server |-> [j \in Server |-> IF i = a THEN 2 ELSE 0]]
    /\ votedFor = [i \in Server |-> IF i = b THEN b ELSE a]
    /\ role = [i \in Server |-> IF i = a THEN "Leader" ELSE "Follower"]
    /\ leaderId = [i \in Server |-> NA]
    /\ elections = {Elected(1, a), Elected(2, b), Elected(currentTerm[a], a)}
    /\ restarts = MaxRestarts
    /\ Shared

\* In the first scenario nobody campaigns, in the second nobody takes a
\* snapshot.
SafetyNext ==
    /\ MCNext
    /\ IF [term |-> 1, leader |-> b, voters |-> {b, c}] \in elections
       THEN \A i \in Server : currentTerm'[i] <= 1
       ELSE \A i \in Server : log'[i].first = 0

BackupInit ==
    /\ currentTerm = [i \in Server |-> IF i = a THEN 2 ELSE 3]
    /\ votedFor = [i \in Server |-> IF i = a THEN NA ELSE c]
    /\ log = [i \in Server |-> CASE i = a -> LogOf(<<1, 1>>, x)
                                 [] i = b -> LogOf(<<2>>, y)
                                 [] i = c -> LogOf(<<2, 3>>, y)]
    /\ role = [i \in Server |-> IF i = c THEN "Leader" ELSE "Follower"]
    /\ leaderId = [i \in Server |-> NA]
    /\ nextIndex = [i \in Server |-> [j \in Server |-> IF i = c THEN 2 ELSE 1]]
    /\ elections = {Elected(1, a), Elected(2, b), Elected(3, c)}
    /\ ledger = LedgerOf(<<log[a], log[b], log[c]>>)
    /\ restarts = MaxRestarts
    /\ Shared

\* A leader that stays: no elections, new commands or snapshots of the leader
\* from here on.  a is the peer that has to catch up.
SettledNext ==
    \/ \E i, j \in Server : append(i, j)
    \/ apply(a) \/ receiveApplyMsg(a)
    \/ \E i \in Server : Restart(i)
    \/ \E m \in msgs : Receive(m.dst, m)

ScenarioInit ==
    \/ settled = FALSE /\ (LaggingInit \/ RivalsInit)
    \/ settled = TRUE /\ (LaggingInit \/ BackupInit)

ScenarioNext ==
    /\ IF settled THEN SettledNext ELSE SafetyNext
    /\ UNCHANGED settled

\* Under a leader that stays nothing is left out.
ScenarioView == IF settled THEN <<vars, settled>> ELSE <<View, settled>>

(***************************************************************************)
(* Fairness.  A leader's tick calls appendsL for ever, so a network that   *)
(* does not lose every copy delivers what the leader has to say to a,      *)
(* and the answer.  An old reply arrives once if at all, so in the end     *)
(* nextIndex moves only by replies to what the leader says now.  The apply *)
(* goroutine and the service get scheduled.  Nothing is assumed of crashes.*)
(***************************************************************************)
Delivered(i, j) ==
    LET m == appendArgs(i, j)
    IN  role[i] = "Leader" /\ m \in msgs /\ Receive(j, m)

Acknowledged(i, j) ==
    LET m == appendArgs(i, j)
        r == IF m.type = "AppendEntries" THEN appendReply(j, m) ELSE installReply(j, m)
    IN  role[i] = "Leader" /\ r \in msgs /\ Receive(i, r)

\* The peers that lead when things have settled.
Leaders == {b, c}

Fairness ==
    /\ \A i \in Leaders : /\ WF_vars(settled /\ append(i, a))
                          /\ WF_vars(settled /\ Delivered(i, a))
                          /\ WF_vars(settled /\ Acknowledged(i, a))
    /\ WF_vars(settled /\ apply(a)) /\ WF_vars(settled /\ receiveApplyMsg(a))
    /\ <>[][settled /\ \E i, j \in Server : Acknowledged(i, j)]_nextIndex

ScenarioSpec == ScenarioInit /\ [][ScenarioNext]_<<vars, settled>> /\ Fairness

\* Under a leader that stays and has started a command of its own term, the
\* service of a peer that lags or has a conflicting log executes the whole log
\* of the leader: no wakeup of applyCond is lost, nextIndex finds the way back,
\* and the commit index reaches the peer.
CommandsGetApplied ==
    settled => \A i \in Leaders :
        <>[](role[i] = "Leader" /\ lastLogTerm(log[i]) = currentTerm[i])
            => <>[](service[a].index = log[i].last)
=============================================================================
