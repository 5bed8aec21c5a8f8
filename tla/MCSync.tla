------------------------------- MODULE MCSync -------------------------------
(* Instances of Sync for TLC.                                              *)
EXTENDS Sync, TLC

CONSTANTS n1, n2, n3

EqualSizes == [c \in Content |-> 1]
AllPeers == [n \in Node |-> Node \ {n}]
OneWay == [n \in Node |-> IF n = n2 THEN {n1} ELSE {}]
Hub == [n \in Node |-> IF n = n1 THEN Node \ {n1} ELSE {}]
NoSkew == [n \in Node |-> 0]
SkewOne == [n \in Node |-> IF n = n2 THEN 1 ELSE 0]
SkewTwo == [n \in Node |-> IF n = n2 THEN 2 ELSE 0]
FineTimes == [n \in Node |-> 1]
CoarseTimes == [n \in Node |-> IF n = n2 THEN 4 ELSE 1]
Symmetric == Permutations({n2, n3})
=============================================================================
