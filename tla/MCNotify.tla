------------------------------ MODULE MCNotify ------------------------------
(* Notify for TLC: paths, sessions and fan-outs are interchangeable.       *)
EXTENDS Notify, TLC

Symmetry == Permutations(Path) \cup Permutations(Session) \cup Permutations(Batch)
=============================================================================
