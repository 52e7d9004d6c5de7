----------------------------- MODULE MCOperation -----------------------------
(* Instances of OTOperation for TLC: threads are interchangeable, and so are *)
(* the versions of a byte.                                                   *)
EXTENDS OTOperation, TLC

Symmetry == Permutations(Threads) \cup Permutations(Versions)
=============================================================================
