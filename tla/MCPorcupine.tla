---------------------------- MODULE MCPorcupine ----------------------------
(* Histories of three operations on two keys, for TLC. *)
EXTENDS Porcupine

Op(key, type, value, output) == [key |-> key, type |-> type, value |-> value, output |-> output]

Kinds == {Op("a", "Put", <<1>>, Empty), Op("a", "Append", <<2>>, Empty),
          Op("a", "Get", Empty, Empty), Op("a", "Get", Empty, <<1, 2>>),
          Op("b", "Put", <<1>>, Empty), Op("b", "Get", Empty, Empty)}

\* One after the other, side by side, and one called when another returns.
Spans == {<<1, 2>>, <<2, 3>>, <<1, 4>>}

Operations ==
    {[key |-> o.key, type |-> o.type, value |-> o.value, output |-> o.output,
      call |-> t[1], return |-> t[2]] : o \in Kinds, t \in Spans}

\* The names of the operations do not matter: they are numbered by their calls.
ByCall == \A i \in 1 .. NumOps - 1 : history[i].call <= history[i + 1].call

MCInit == Init /\ ByCall

MCSpec == MCInit /\ [][Next]_vars /\ Fairness
=============================================================================
