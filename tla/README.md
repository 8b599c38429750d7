# Verification of the 6.824 labs

The repository implements the labs of MIT 6.824: a MapReduce (`labs/src/mr`), a
Raft library (`raft`), a key/value service replicated with it (`kvraft`), a shard
controller (`shardctrler`) and a sharded key/value service (`shardkv`), together
with the course's simulated network (`labrpc`) and the linearizability checker the
testers use (`porcupine`). This directory models them in TLA+, checks small
instances with TLC and proves theorems about them with TLAPS. Paths below are
relative to `src/labs/src` unless they start with `notes/` (`src/notes`).
`PROJECT.json` maps each definition to the lines it models and lists the runs, the
mutants, the theorems and the hazards of the code.

## The system and its modules

    clerks ──> kvraft servers ──> Raft peers ──> persister        Raft, KVServer
    clerks ──> shardctrler     ──> Raft                           ShardCtrler
    clerks ──> shardkv groups  ──> Raft, shardctrler, other groups ShardKV
    workers ─> coordinator (mr), shared file system               MapReduce
    all calls of the first three go through labrpc                LabRPC
    testers check what the clerks saw with porcupine              Porcupine

The services do not contain a copy of Raft.tla: they see Raft as the promise it makes
(a committed sequence, and a leader's log that may be lost), and Raft.tla checks that
promise. Likewise ShardKV sees the controller as its sequence of configurations, and
the clerks see the network as LabRPC's contract, RPC.tla.

| Module | Models | Correspondence |
| --- | --- | --- |
| Raft | raft/raft.go | One variable per field of `Raft`, indexed by peer; `disk` is the Persister, `msgs` every call and reply ever sent, `service` what the applier's channel delivered. The history variables `elections`, `ledger` (the log of each term's leader, untrimmed) and `commits` (what setCommitIndexL counted, and on whom) are read by the properties and the proofs only. A handler under `rf.mu` is one action; a goroutine that releases the lock (append, installL, request, apply) is one action per stretch. |
| MapReduce, MapReduceJob | mr/ | The task tables and counters of the coordinator, the program counter of each worker, the file system with, for a file, the set of map tasks its content comes from. MapReduceJob is the abstract job: maps, then reduces, then exit. |
| KVServer, KVStore | kvraft/ | `kv`, `resultChans`, the applier's place, snapshots; a clerk's record also holds the state of its handler. KVStore is one map on which each operation takes effect once between call and return. |
| ShardCtrler | shardctrler/server.go | `configs`, `gidShards`, `lastOps` of each replica. Whatever ranges over a Go map is the set of outcomes over all orders, from which each replica picks. |
| ShardKV | shardkv/ | One log per group, with the state each entry leads to; per server what it has applied, its pending handoffs, its snapshot and where its poll, its handoffs and its handlers are. |
| LabRPC, RPC | labrpc/labrpc.go, ShutdownServer and StartServer of the testers' config.go | Where Call and processReq, and the handler's goroutine, are for each request; the network's tables; the persister of each instance of a server. RPC is the contract of Call. |
| Porcupine | porcupine/checker.go, bitset.go, models/kv.go | The variables of checkSingle for each key (the doubly linked list included), and of checkParallel. A step is one iteration of a loop. |
| MC* | | Instances for TLC. MCScenarios starts Raft from deep states. |
| RaftInv | | The inductive invariant of Raft's logs, which MCElection checks and RaftSafety proves. |
| RaftElections, RaftLogs, RaftCommits, RaftService, RaftSafety | | Theorems about Raft: elections; then the lemmas about logs, commitment and the service, from which RaftSafety proves the rest. |
| MapReduceProofs, KVServerProofs, LabRPCProofs | | Theorems about the other three. |

Operators commented "Bug:" are mutated forms of a definition that follows them. No
specification uses them; each replaces that definition in one of the mutants of
`PROJECT.json`, which shows that a property depends on it.

## Runs

`tlc -config <run>.cfg <module>`, with the module named in `PROJECT.json`. Runs
do not check for deadlock where the modelled program may stop (bounds reached,
scripts executed, a job finished, a network destroyed).

**MCElection** (Raft). Three peers, two of which campaign, two terms, one command, one
crash at any moment, no snapshots. Checks `RaftInvariant`, the inductive invariant of
the proofs, `ElectionSafety`, `LeaderIsAlone` (a leader names nobody else as leader)
and `CommittedOnMajority` (a committed entry is on a majority of the disks). Two
campaigners and two terms are what it takes for split votes, for a candidate that
steps down inside a term and for late votes. Nobody takes a snapshot here: what
InstallSnapshot does to a candidate is left to the theorem `LeadersAreAlone`.

**MCSafety** (Raft). From two kinds of reachable state that are too deep for a search
from the start: a follower that has heard nothing of two committed entries, with
snapshots and a crash; and leaders of several terms that left diverging logs (figure 8
of the Raft paper). Up to four terms, two indices beyond the dummy entry. Checks
`LogMatching`, `LeaderCompleteness`, `StateMachineSafety`, `AppliedInOrder`,
`CommittedOnMajority`, `ServiceMovesForward`, `AppendCoversCommit` (no AppendEntries announces a commit index
beyond what it carries, which is why raft.go:469 is right although it looks at the end of the
follower's log) and `LogAccessInRange` (no index is out of the trimmed slice). The run
also follows a lagging follower and one with a conflicting log under a leader that stays
(the variable `settled`, which no step changes), and checks there that the leader's
log gets applied (`CommandsGetApplied`).

**MCMapReduce**. Two workers, two map and two reduce tasks, one crash anywhere. The
counters are exact, output files complete, the coordinator implements the abstract
job, and everybody comes to an end. Timers end only for workers that crashed
(`MaxTimeouts = 0`); MCLateReport lifts that.

**MCKVServer**. Two servers and two clerks (Put then Get, and Append), logs of four
entries, a snapshot after two, one fault: a lost message, a timeout or a restart.
Leader logs may be lost at any time besides. Replicas agree, channels are reclaimed, and the
service implements KVStore. One retry is enough for an operation to be committed twice.

**MCShardCtrler**. Every sequence of four operations on three groups and four shards, a
repeated one included, applied by two replicas in map orders of their own. Three groups
on four shards give uneven loads and ties. Replicas agree, each shard has one owner,
Join and Leave balance and move no more shards than needed.

**MCShardKV**. Groups of two and one servers, two shards, one clerk (Put, Append),
snapshots after two entries. From the start through three configurations without
faults (a shard leaves and comes back, or all groups leave), and through a handoff with
one fault from two states after the clerk's first operation. In the second of these the
clerk's call for its second operation has timed out, group 1 has the operation in its
log, and both shards leave: the retry gets to group 2, which must know the operation from
the `lastOps` that came with the shards. No shard has two owners, none is
lost, and the groups implement KVStore. Polls that can change nothing are skipped.

**MCLabRPC**. Two requests, one of whose handlers never returns, one end, one server with a
restart, while the tester does anything in its power. The network implements RPC
(true is returned only for an effect the next instance finds), calls return, no
handler's goroutine is left behind.

**MCPorcupine**. Every history of three operations on two keys from six kinds and three
spans, verbose or not, with a timeout that fires at any moment or none. The verdict is
compared with the definition of linearizability of the whole map; the linked
list is always the history without what is linearized; the partial linearizations
are the longest; the checker ends.

### Where the code disagrees with what is said of it

Four runs end in a counterexample.

- **MCLateReport**, `MapsBeforeReduces`: mr/coordinator.go:130. A report that comes
  after its timer ended sets a completed task back to idle without correcting
  `remain`; the task is counted twice, and a reduce task starts before the last map
  task is done, against "finish map tasks first" (coordinator.go:56).
- **MCMissingKey**, `AnsweredIsExecuted`: kvraft/server.go:147. Only an OK result is
  compared with the operation proposed. A Put whose entry was lost with a leader's log
  returns with the ErrNoKey of another clerk's Get at the same index, against "return
  true if it's the same op" (server.go:122).
- **MCShardLost**, `NoShardLost`: shardkv/server.go:600. pollConfig uses a configuration
  read before it had the lock. Group 1 reads configuration 1, adopts a shard that group 2
  hands off under configuration 2, and then hands it back under number 1. Group 2 accepts
  that, having received nothing under number 1, and hands the shard off again under
  number 2, which group 1 takes for a repetition; nobody serves the shard any
  more (notes/Lab.md:413, 450).
- **MCShardTwice**, `ImplementsStore`: shardkv/server.go:369. The merge of lastOps takes
  over an entry only if its id is larger than the receiver's, which is 0 for a client
  it does not know, and a clerk's first operation has id 0. Group 1 executes an Append whose
  reply is lost; a server that has lost its leadership takes the retry and waits for an
  index at which HandOffDone is refused with ErrWrongGroup; the clerk turns to group 2,
  which executes the Append again, against "at-most-once semantics (duplicate detection)
  for client requests across shard movement" (notes/Lab.md:452).

## Bounds, reductions and abstractions

Bounds are constants, stated in guards: terms, indices, restarts (Raft); crashes and
early timers (MapReduce); log entries and faults (KVServer, ShardKV); configurations;
operations; restarts of a server (LabRPC).

- **Raft.** `msgs` only grows, so any message may be lost, duplicated, delayed and
  reordered. For AppendEntries and InstallSnapshot that is what happens, since a leader
  resends at each tick; a RequestVote is sent, and answered, once. MCRaft uses the symmetry of peers
  that play the same part, a VIEW without what no peer will act on again, and
  explores steps that only send before others (they disable nothing). The behaviours
  followed for liveness use none of this. A handler that
  persists twice under one lock is saved once, at its end.
- **MapReduce.** A worker writes the files of a map task one by one and may crash
  between two of them.
- **KVServer.** A clerk has one handler at a time, because labrpc's Call returns false
  only if the handler was not run, has returned, has died with its server, or the
  client's end was disabled; the last case is left out (see the hazards). Raft's state
  size is the number of entries after the snapshot. The scripts of the passing run do
  not read a missing key; MCMissingKey shows what happens then.
- **ShardCtrler.** Operations are legal in the current configuration. The RPC half of
  this server is the protocol of kvraft, line by line, and is modelled in KVServer.
- **ShardKV.** applyAddShardsL releases and retakes `kv.mu` (server.go:380-385) before it
  has finished with `lastOps`; it is one step here. A handoff added while the
  loop over pendingHandoffs runs waits for the next round. pendingHandoffs is keyed by
  a struct with a pointer and is therefore kept per server. With `SlowPolls` a poll
  may use a configuration older than a handoff received meanwhile; MCShardKV leaves
  that to MCShardLost.
- **LabRPC.** Delays have any length, so longDelays and longReordering have no part of
  their own. The counters of bytes and calls are left out.
- **Porcupine.** The order of entries of equal time that sort.Sort leaves open is given by the
  ids, and histories are taken in every order. Histories are not empty.

## Fairness

- **MCSafety**, where `settled`. Weak fairness of a leader's append to the peer that has to
  catch up, of the delivery of what it says now and of the answer: a leader sends again at each tick, so a network that
  does not lose every copy delivers one. An old reply arrives once if at all, so that
  eventually `nextIndex` moves only by answers to what the leader says now. The
  apply goroutine and the service of that peer are scheduled. Nothing is assumed of crashes; no
  peer's election timer fires, which is the assumption that a leader stays.
- **MCMapReduce.** Workers that have not crashed go on, timers end, and the main loop that polls Done
  is scheduled.
- **MCLabRPC.** Goroutines that can go on do; timers fire; handlers outside `Hanging` return.
- **MCPorcupine.** Goroutines that can go on do. The timeout need not fire.

No liveness is claimed of elections (timers are random and may collide for ever), nor
of kvraft and shardkv, whose appliers can block for good (below).

## Proofs

`tlapm <module>` checks them. The theorems hold for every value of the constants that
satisfies the named assumptions: three or more peers, finitely many, and NA none of them
and no command (Raft); numbers of tasks, crashes and timeouts that are naturals, NA no
worker (MapReduce); at least one server, a bound on the log that is a natural, scripts of
Puts, Appends and Gets (KVServer); ends and names of the right kind (LabRPC). The bounds
in the guards are constants too, and so are arbitrary.

- **RaftElections.** `ElectionInvariance`, `AtMostOneLeader`: raft.go:728 clears votedFor
  whenever a candidate steps down, inside a term too, so that "one vote per peer and term"
  is false and ElectionSafety is not inductive. `ElectionInv` says instead that the term
  and vote on disk are those in memory, and that a granted vote is the voter's only one
  until the term is decided by an election (VotesAreKept); that a candidate counts votes
  it was given (CandidatesCount); that the voters of a won election can vote for nobody
  else in its term, since none of them is a candidate in it any more (VotersAreBound); and
  that whoever leads, or sent a leader's message, won an election (LeadersWereElected).
  Two majorities meet (MajoritiesMeet, from cardinalities of finite sets). The steps of
  Next are grouped by what they do to votes (quiet, adopt a term, give up, campaign, vote,
  count, restart), with a lemma each. `LeadersAreAlone`: the InstallSnapshot handler sets
  leaderId on a candidate of the same term without demoting it (raft.go:531). `AloneInv`
  adds that such a candidate has lost: somebody else was elected in its term, so by
  ElectionSafety it cannot win.
- **RaftSafety**, on RaftLogs, RaftCommits and RaftService, for an odd number of peers.
  `RaftIsInvariant`: `RaftInvariant` (module RaftInv) is inductive. From it `LogsMatch`,
  `LeadersAreComplete`, `ServicesAgree`, `ApplyIsInOrder`, `CommitsSurviveCrashes`,
  `AppendsCoverCommit`, `LogAccessesAreInRange`, `RaftTypes` and `ServicesMoveForward`,
  that is, every safety property the runs check of Raft. The argument is described below.
- **MapReduceProofs**, for `MaxTimeouts = 0` (with early timers the claims are false:
  MCLateReport). `JobInvariance`: each task in progress has the worker that has it,
  `remain` counts what is not completed, no reduce task is handed out before the maps are
  done, and what was reported is on the file system. From it `RemainIsExact`,
  `OutputsAreComplete` and the refinement `CoordinatorImplementsJob`.
- **KVServerProofs.** `ReplicasAlwaysAgree`: `ReplicaInv` says that the history `machine`
  is the run of applyOpL over the committed log, and that nobody is ahead of it.
  `ChannelsNeverLeak`: each entry of resultChans belongs to a handler in waitApplyL, by a
  case for each step that makes, wakes or ends one. `KVTypes`. `ServiceImplementsStore`:
  the refinement of KVStore, in every behaviour in which `MissesAreOwn` always holds, that
  is, in which a handler that is woken with ErrNoKey is woken for the operation it
  proposed. waitApplyL makes that comparison for OK and omits it for ErrNoKey
  (server.go:147); without the hypothesis the refinement is false, which MCMissingKey
  shows. It holds in particular when no clerk reads a missing key. The proof adds to
  ReplicaInv that the operations of a clerk are in the logs in the order in which it made
  them, none ahead of the clerk (ServedInv), so that the last operation in lastOps tells
  whether the current one took effect, and that a result on its way to a handler is what
  some executed operation returned (ResultInv).
- **LabRPCProofs.** `NetworkInvariance`: the network knows only the instance on the
  current persister, a handler that ran has saved on the persister of its instance, and
  every positive outcome is on the current one. From it the refinement
  `NetworkImplementsRPC`. A positive reply may arrive after DeleteServer, against the
  comment at labrpc.go:269-274, but never to an effect that was lost.

### Why Raft's logs are safe

None of the safety properties is inductive: they speak of logs that are trimmed, of disks
that are behind memory, and of leaders that were counted on long ago. `ledger[t]`, the log
of the leader of term t with nothing trimmed, gives them all something to be compared
with, and `commits` records each count of setCommitIndexL with the peers counted.

1. *Ledgers and logs* (LedgerOK, LogsOK). An entry of term u in any ledger comes with the
   ledger of u up to it, so two ledgers that agree on the term of an entry are the same up
   to it. Every log, in memory and on disk, is a stretch of the ledger of its last term.
   That is LogMatching.
2. *Messages* (MessagesOK, RequestsOK, CandidatesOK, ElectedOK). AppendEntries and
   InstallSnapshot carry a stretch of the sender's ledger and announce only what is
   committed; the log of a candidate is what its requests say until its term is decided,
   so that the voters' comparison was made with the log the leader has.
3. *Promises* (KeepOK, VoteOK, DiskOK). A peer that led t or acknowledged entry n of t
   keeps it in both copies of its log, and votes for nobody who lacks it, as long as no
   leader without it came in between. This is the induction over terms of the Raft paper,
   turned into an invariant of states. An InstallSnapshot is answered before it is saved,
   so an acknowledgement may rest on a snapshot a crash undoes; such a promise counts only
   if setCommitIndexL has counted it, and an entry under a snapshot is committed already,
   so that no other is needed.
4. *Commitment* (CommitsOK, CoverOK, IndexOK). Each count was of a majority, matchIndex
   stands for acknowledgements or snapshots, and commitIndex and the start of each log are
   covered by a count of a term the peer has reached. Since a majority of voters includes
   a peer that was counted, no leader lacks a committed entry. IndexOK also keeps
   nextIndex and the commit index of a leader within its log after Snapshot and after the
   backing up of commitIndex (raft.go:667), hence LogAccessInRange and AppendCoversCommit.
5. *The service* (SnapshotsOK, ApplyOK). A snapshot is what executing the ledger up to its
   index gives; apply, which sends without the lock, has at each of its stops the next
   entry or a snapshot in hand.

RaftLogs proves 1, 2 and DiskOK, RaftCommits the rest of 3 and 4 but for IndexOK, which is
with 5 in RaftService; RaftSafety puts them together. The number of peers is odd because
setCommitIndexL sorts matchIndex, in which its own entry is 0, and takes element
nPeers/2+1 (raft.go:931): for 2k+1 peers k others and the leader are at least there, a
majority; for four peers it is one other and the leader. `OddCounts` proves the first; the
elections do not need it.

### Only model-checked

All liveness, which is outside the prover, like ENABLED. The shard controller and
porcupine: what rebalancing and the search compute is by induction over data, which the
installed provers do not do. ShardKV: its properties are stated over logs that carry the
state each entry leads to, for groups that exchange parts of it; no inductive invariant
for it has been worked out, and its refinement of KVStore is false for a
clerk's first operation (MCShardTwice).

## Weaknesses seen and not given a run

Most are hazards of `PROJECT.json`, with a note that says what the models reach of them.

- raft.go:638: the apply goroutine returns for good when a snapshot was installed while
  it was sending and commitIndex is ahead of lastApplied. Modelled; safety is checked after it.
- kvraft/server.go:178, shardkv/server.go:285: the applier sends on an unbuffered channel without
  a timeout. A handler that has timed out never receives, and the server stops applying.
- shardkv/server.go:636: handing shards to group 0 spins with `kv.mu` held (modelled).
- shardkv/server.go:338: HandOffDone removes a handoff only where its pointer came from.
- raft.go:667 moves commitIndex back, against "increases monotonically" at its declaration; no
  safety property suffers.
- raft.go:931: with four peers an entry would be committed when two have it. The labs use odd numbers, and the theorems assume one.
- kvraft/client.go:131: client ids modulo 100.
- shardctrler/server.go:431: operations that are not legal in the current configuration.
- porcupine/checker.go:302: an empty history without a timeout blocks for ever.

## Not modelled

- **labgob**: a wrapper of encoding/gob that warns; what is encoded and decoded is
  modelled where it is used.
- **porcupine/visualization.go**: sequential formatting of a page. Of porcupine also CheckEvents and
  the default functions of a model, which the labs do not use.
- **mrapps** and the sequential program in `main`: functions without shared state. A crash in
  one is MapReduce's Crash. Other programs in `main` start packages that are not in
  the repository.
- **config.go** of each lab, except ShutdownServer, StartServer and connecting: sequential test code.
- **util and logging**: formatting and constants.
- Real time: timers end at any moment.
