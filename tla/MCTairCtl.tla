----------------------------- MODULE MCTairCtl -----------------------------
(* Two servers with an index, whose configurations have names of which     *)
(* none is a prefix of the other (MCExact), or 1 and 10 (MCPrefix); both   *)
(* requested, in one list, alone, or twice; and a list get_index refused.  *)
EXTENDS TairCtl

CONSTANTS i1, i2

MCIndices == {i1, i2}
MCRequests == {<<>>, <<i1>>, <<i2, i1>>, <<i1, i1>>}
MCExact == [s \in Servers |-> {s}]
MCPrefix == [s \in Servers |-> IF s = i1 THEN {i1, i2} ELSE {s}]
=============================================================================
