----------------------------- MODULE MCLibrary -----------------------------
(* Library on a small instance. *)
EXTENDS Library, TLC

CONSTANTS r1, r2

TwoRequests == {r1, r2}
RequestSymmetry == Permutations(TwoRequests)
OneKind     == {"pdf"}
TwoTypes    == {"TRANSCRIPT", "REF"}
OneSeed     == {"TRANSCRIPT"}
=============================================================================
