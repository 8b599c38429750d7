------------------------------ MODULE MCLabRPC ------------------------------
(* Two requests to one server over one end, for TLC. *)
EXTENDS LabRPC

CONSTANTS end1, s

OneEnd == [x \in Request |-> end1]
OneServer == [e \in End |-> s]
=============================================================================
