--------------------------- MODULE ShardCtrler ---------------------------
(***************************************************************************)
(* The state machine of the shard controller, labs/src/shardctrler: every  *)
(* replica applies the committed operations to its configs and gidShards.  *)
(*                                                                         *)
(* Go iterates over a map in a different order every time.  Whatever the   *)
(* code computes by ranging over gidShards or removedGidShards is the set  *)
(* of its outcomes over all orders here, from which each replica picks its *)
(* own, so that the replicas agree only if the code makes the order not    *)
(* matter.  Server lists are left out: Groups is a set of gids.            *)
(*                                                                         *)
(* The clients' side, and the wait for an operation to be applied, are the *)
(* protocol KVServer models.  Operations are the legal ones: new groups    *)
(* join, groups of the current configuration leave or receive a shard.     *)
(***************************************************************************)
EXTENDS Integers, Sequences, FiniteSets, SequencesExt

CONSTANTS Replica, Client, Gid,
          NShards,
          MaxOps            \* bound: committed operations

ASSUME GidAssumption == Gid \subseteq Nat \ {0}

VARIABLES log,              \* the operations Raft committed
          sc,               \* sc[r]: configs, gidShards and lastOps of replica r
          applied           \* applied[r]: how many operations r has applied

vars == <<log, sc, applied>>

Shard == 0 .. NShards - 1

NA == -1

FirstConfig == [num |-> 0, shards |-> [s \in Shard |-> 0], groups |-> {}]

NoConfig == FirstConfig

-----------------------------------------------------------------------------
(* Rebalancing. *)

\* Bug: groups of equal size are not told apart by their gid.
VisitFirst(f, g, n) ==
    [gidMin  |-> IF n < f.sizeMin THEN g ELSE f.gidMin,
     sizeMin |-> IF n < f.sizeMin THEN n ELSE f.sizeMin,
     gidMax  |-> IF n > f.sizeMax THEN g ELSE f.gidMax,
     sizeMax |-> IF n > f.sizeMax THEN n ELSE f.sizeMax]

\* One iteration of the loop of findMinMaxGidL: group g of size n.
Visit(f, g, n) ==
    [gidMin  |-> IF n < f.sizeMin \/ (n = f.sizeMin /\ g < f.gidMin) THEN g ELSE f.gidMin,
     sizeMin |-> IF n < f.sizeMin THEN n ELSE f.sizeMin,
     gidMax  |-> IF n > f.sizeMax \/ (n = f.sizeMax /\ g > f.gidMax) THEN g ELSE f.gidMax,
     sizeMax |-> IF n > f.sizeMax THEN n ELSE f.sizeMax]

findMinMaxGidL(gs) ==
    LET none == [gidMin |-> NA, sizeMin |-> NShards + 1, gidMax |-> NA, sizeMax |-> -1]
        Scan(order) == FoldLeft(LAMBDA f, g : Visit(f, g, Len(gs[g])), none, order)
    IN  {Scan(order) : order \in SetToSeqs(DOMAIN gs)}

\* Bug: the loop ends one shard too early.
CloseEnoughTwo(max, min) == max - min <= 2

CloseEnough(max, min) == max - min <= 1

\* One iteration of the loop of rebalanceL.
MoveOne(gs) ==
    {IF CloseEnough(Len(gs[f.gidMax]), Len(gs[f.gidMin])) THEN gs
     ELSE [gs EXCEPT ![f.gidMax] = Front(@), ![f.gidMin] = Append(@, Last(gs[f.gidMax]))] :
        f \in findMinMaxGidL(gs)}

\* rebalanceL: no more than NShards shards can have to move.
rebalanceL(gs) ==
    LET After[n \in 0 .. NShards] ==
            IF n = 0 THEN {gs} ELSE UNION {MoveOne(g) : g \in After[n - 1]}
    IN  After[NShards]

-----------------------------------------------------------------------------
(* The operations, each as the set of states it may lead to. *)

Now(c) == Last(c.configs)

\* The loop at the end of rebalanceL: the owners according to gidShards.
Owners(shards, gs) ==
    [s \in Shard |-> IF \E g \in DOMAIN gs : Contains(gs[g], s)
                     THEN CHOOSE g \in DOMAIN gs : Contains(gs[g], s) ELSE shards[s]]

\* makeNewConfigL, with the groups and shards it is given, becomes current.
AddConfig(c, groups, shards, gs) ==
    [c EXCEPT !.gidShards = gs,
              !.configs = Append(@, [num |-> Len(@), shards |-> shards, groups |-> groups])]

applyJoinL(c, op) ==
    LET joined == [g \in DOMAIN c.gidShards \cup op.gids |->
                      IF g \in op.gids THEN <<>> ELSE c.gidShards[g]]
        given == IF Now(c).groups # {} THEN {joined}
                 ELSE {[joined EXCEPT ![f.gidMin] = [n \in 1 .. NShards |-> n - 1]] :
                          f \in findMinMaxGidL(joined)}
    IN  {AddConfig(c, Now(c).groups \cup op.gids, Owners(Now(c).shards, gs), gs) :
            gs \in UNION {rebalanceL(g) : g \in given}}

\* The shards of the groups that leave, sorted.
Collected(gs, gids) == SetToSortSeq(UNION {ToSet(gs[g]) : g \in gids}, <)

\* Bug: they come before those the group has.
GiveFirst(shards, gids) == gids \o shards

Give(shards, gids) == shards \o gids

applyLeaveL(c, op) ==
    LET groups == Now(c).groups \ op.gids
        left == [g \in DOMAIN c.gidShards \ op.gids |-> c.gidShards[g]]
        given == {[left EXCEPT ![f.gidMin] = Give(@, Collected(c.gidShards, op.gids))] :
                     f \in findMinMaxGidL(left)}
    IN  IF groups = {} THEN {AddConfig(c, {}, [s \in Shard |-> 0], left)}
        ELSE {AddConfig(c, groups, Owners(Now(c).shards, gs), gs) :
                 gs \in UNION {rebalanceL(g) : g \in given}}

\* Bug: the previous owner keeps the shard in its list.
TakeFromNobody(gs, shard) == gs

TakeFromOwner(gs, shard) == [g \in DOMAIN gs |-> RemoveFirst(gs[g], shard)]

applyMoveL(c, op) ==
    LET gs == [TakeFromOwner(c.gidShards, op.shard) EXCEPT ![op.gid] = Append(@, op.shard)]
    IN  {AddConfig(c, Now(c).groups, [Now(c).shards EXCEPT ![op.shard] = op.gid], gs)}

\* The result of a query; the other operations return no configuration.
QueryResult(c, op) ==
    IF op.type # "Query" THEN NoConfig
    ELSE IF op.num # NA /\ op.num < Len(c.configs) THEN c.configs[op.num + 1] ELSE Now(c)

\* Bug: an operation committed twice is executed twice.
isSameNever(c, op) == FALSE

\* op.isSame(&lastOp.op)
isSame(c, op) == c.lastOps[op.client].id = op.id

applyOpL(c, op) ==
    IF isSame(c, op) THEN {c}
    ELSE {[o EXCEPT !.lastOps[op.client] = [id |-> op.id, queryResult |-> QueryResult(c, op)]] :
            o \in CASE op.type = "Join"  -> applyJoinL(c, op)
                    [] op.type = "Leave" -> applyLeaveL(c, op)
                    [] op.type = "Move"  -> applyMoveL(c, op)
                    [] op.type = "Query" -> {c}}

-----------------------------------------------------------------------------
Init ==
    /\ log = <<>>
    /\ sc = [r \in Replica |-> [configs |-> <<FirstConfig>>, gidShards |-> <<>>,
                                lastOps |-> [c \in Client |-> [id |-> NA, queryResult |-> NoConfig]]]]
    /\ applied = [r \in Replica |-> 0]

\* receiveApplyMsg on replica r.
receiveApplyMsg(r) ==
    /\ applied[r] < Len(log)
    /\ \E c \in applyOpL(sc[r], log[applied[r] + 1]) : sc' = [sc EXCEPT ![r] = c]
    /\ applied' = [applied EXCEPT ![r] = @ + 1]
    /\ UNCHANGED log

\* How many operations client c has made.
Made(c) == Cardinality({log[n].id : n \in {k \in DOMAIN log : log[k].client = c}})

\* A client makes an operation that is legal in the current configuration, as
\* a replica that is up to date knows it.
Commit(c, op) ==
    /\ Len(log) < MaxOps
    /\ log' = Append(log, op @@ [client |-> c, id |-> Made(c)])
    /\ UNCHANGED <<sc, applied>>

UpToDate == {r \in Replica : applied[r] = Len(log)}

Join(c, gids) ==
    /\ \E r \in UpToDate : gids \cap Now(sc[r]).groups = {}
    /\ Commit(c, [type |-> "Join", gids |-> gids])

Leave(c, gids) ==
    /\ \E r \in UpToDate : gids \subseteq Now(sc[r]).groups
    /\ Commit(c, [type |-> "Leave", gids |-> gids])

Move(c, shard, gid) ==
    /\ \E r \in UpToDate : gid \in Now(sc[r]).groups
    /\ Commit(c, [type |-> "Move", shard |-> shard, gid |-> gid])

Query(c, num) ==
    Commit(c, [type |-> "Query", num |-> num])

\* The client sends its last operation again and it is committed again.
Retry(c) ==
    /\ Len(log) < MaxOps
    /\ \E n \in DOMAIN log :
          /\ log[n].client = c
          /\ log[n].id = Made(c) - 1
          /\ log' = Append(log, log[n])
    /\ UNCHANGED <<sc, applied>>

Next ==
    \/ \E r \in Replica : receiveApplyMsg(r)
    \/ \E c \in Client :
          \/ \E gids \in SUBSET Gid \ {{}} : Join(c, gids) \/ Leave(c, gids)
          \/ \E shard \in Shard, gid \in Gid : Move(c, shard, gid)
          \/ \E num \in {NA, 0} : Query(c, num)
          \/ Retry(c)

Spec == Init /\ [][Next]_vars

-----------------------------------------------------------------------------
(* Properties. *)

\* "The function is deterministic" (findMinMaxGidL), "should be deterministic"
\* (applyLeaveL): replicas that applied the same operations are in the same
\* state, the order of shards inside gidShards included.
ReplicasAgree ==
    \A r, q \in Replica : applied[r] = applied[q] => sc[r] = sc[q]

Places(c, s) == {p \in {<<g, n>> : g \in DOMAIN c.gidShards, n \in 1 .. NShards} :
                    p[2] <= Len(c.gidShards[p[1]]) /\ c.gidShards[p[1]][p[2]] = s}

\* While there are groups, every shard has one owner: it is in one list of
\* gidShards, once, and the configuration names that group, which has joined.
\* Without groups all shards belong to group 0.  gidShards lists exactly the
\* groups, so that logGidShardsL never ends the program.
ShardsHaveOneOwner ==
    \A r \in Replica :
       LET c == sc[r]
       IN  /\ DOMAIN c.gidShards = Now(c).groups
           /\ IF Now(c).groups = {} THEN \A s \in Shard : Now(c).shards[s] = 0
              ELSE \A s \in Shard : \E n \in 1 .. NShards : Places(c, s) = {<<Now(c).shards[s], n>>}

SizesOf(config) == {Cardinality({s \in Shard : config.shards[s] = g}) : g \in config.groups}

Balanced(config) == \A n, m \in SizesOf(config) : n - m <= 1

\* The configuration a step of replica r makes current.
Applies(r, types) ==
    /\ applied'[r] = applied[r] + 1
    /\ log[applied'[r]].type \in types
    /\ Len(sc'[r].configs) > Len(sc[r].configs)

\* "more or less balanced sharding" (test_test.go:36): after a Join or a Leave
\* no group has two shards more than another, whatever Moves came before.
JoinAndLeaveBalance ==
    [][\A r \in Replica : Applies(r, {"Join", "Leave"}) => Balanced(Now(sc'[r]))]_vars

\* "Minimal transfers after joins", "after leaves" (test_test.go:211 and 234):
\* from a balanced configuration only shards that go to a new group, or come
\* from one that leaves, change their owner.
TransfersAreMinimal ==
    [][\A r \in Replica : Applies(r, {"Join", "Leave"}) /\ Balanced(Now(sc[r])) =>
          LET gids == log[applied'[r]].gids
          IN  \A s \in Shard :
                 LET old == Now(sc[r]).shards[s]
                     new == Now(sc'[r]).shards[s]
                 IN  old # new => old \in gids \/ new \in gids \/ old = 0]_vars

\* An operation that is committed more than once makes one configuration.
ExecutedOnce ==
    \A r \in Replica :
       Len(sc[r].configs) - 1 =
          Cardinality({<<log[n].client, log[n].id>> :
                          n \in {k \in 1 .. applied[r] : log[k].type # "Query"}})
=============================================================================
