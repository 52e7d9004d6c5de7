------------------------------- MODULE MCGuard -------------------------------
(* Instances of OTGuard for TLC: the processes are interchangeable.          *)
EXTENDS OTGuard, TLC

Symmetry == Permutations(Pids)
=============================================================================
