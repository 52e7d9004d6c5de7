------------------------------ MODULE MCEngine ------------------------------
(* An instance of OTEngine for TLC: one listed TA, for which a request has    *)
(* two pieces more than the build, enough for a cut to leave a hole.          *)
EXTENDS OTEngine, TLC

OneTA  == <<"libomnishare_ta.so">>
NoFile == <<>>

Unequal == [f \in Files |-> [s \in Builds \cup Requests |->
              IF f \notin Elements(TAs) THEN 2 ELSE IF s \in Requests THEN 3 ELSE 1]]

Symmetry == Permutations(Activities) \cup Permutations(Builds)
=============================================================================
