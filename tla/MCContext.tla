------------------------------ MODULE MCContext ------------------------------
(* Instances of OTContext for TLC: contexts, session ids and operations are  *)
(* interchangeable.                                                          *)
EXTENDS OTContext, TLC

Symmetry ==
    Permutations(Contexts) \cup Permutations(Sids) \cup Permutations(Operations)
=============================================================================
