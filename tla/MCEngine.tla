------------------------------ MODULE MCEngine ------------------------------
(* Engine on a small instance. *)
EXTENDS Engine

TwoKeys      == {"name", "matric"}
ThreeValues  == {"a", "b", "-"}
OneBlank     == {"-"}
SomeLengths  == {0, 30, 120, 300}
TwoLevels    == {0, 80}
FourMins     == {0, 600, 800, 900}
=============================================================================
