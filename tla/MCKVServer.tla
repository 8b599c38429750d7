--------------------------- MODULE MCKVServer ---------------------------
(***************************************************************************)
(* Instances of KVServer for TLC.                                          *)
(***************************************************************************)
EXTENDS KVServer, TLC

CONSTANTS c1, c2

PutOp(v) == [type |-> "Put", key |-> "k", value |-> <<v>>]
AppendOp(v) == [type |-> "Append", key |-> "k", value |-> <<v>>]
GetOp == [type |-> "Get", key |-> "k", value |-> Nothing]

\* One clerk writes and reads, the other appends: no Get meets a missing key.
WriteThenRead == c1 :> <<PutOp(1), GetOp>> @@ c2 :> <<AppendOp(2)>>

\* One clerk writes while the other reads a key that may not exist.
ReadMissing == c1 :> <<PutOp(1)>> @@ c2 :> <<GetOp>>
=============================================================================
