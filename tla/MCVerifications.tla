-------------------------- MODULE MCVerifications --------------------------
(* Verifications on small instances. *)
EXTENDS Verifications

CONSTANTS w1, o1, o2, c1

OneTask      == {1}
ThreeTasks   == {1, 2, 3}
None         == {}
OnlySecond   == {2}
BothEnds     == {1, 3}
OneWorkerSet == {w1}
OneOperator  == {o1}
TwoOperators == {o1, o2}
Texts        == {c1}
=============================================================================
