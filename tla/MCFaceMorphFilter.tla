------------------------- MODULE MCFaceMorphFilter -------------------------
(* Instances of FaceMorphFilter for TLC, and the mutants of its actions.   *)
EXTENDS FaceMorphFilter

NoInputs == {}
SecondInput == {1}
BothInputs == {0, 1}
TwoTimes == {1, 2}

=============================================================================
