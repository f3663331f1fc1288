--------------------------- MODULE ReviewWorkflow ---------------------------
(* What a submitter and an auditor are promised about one document, with no   *)
(* queue, worker or session in sight: it waits, it is reported on once, and   *)
(* then only operators move it; a rejection is the end of it.  A run that is  *)
(* repeated ends the promise: from then on the document is outside it.        *)
CONSTANT Documents

VARIABLE stage

Stages == {"none", "waiting", "reported", "VERIFIED", "REJECTED", "repeated"}

Init == stage = [d \in Documents |-> "none"]

Submit(d) == stage[d] = "none" /\ stage' = [stage EXCEPT ![d] = "waiting"]

Report(d) == stage[d] = "waiting" /\ stage' = [stage EXCEPT ![d] = "reported"]

\* The first decision, and the reversal of an approval.
Decide(d) ==
  /\ stage[d] \in {"reported", "VERIFIED"}
  /\ \E v \in {"VERIFIED", "REJECTED"} : stage' = [stage EXCEPT ![d] = v]

\* A document that has its report is worked on once more.
Repeat(d) ==
  /\ stage[d] \in {"reported", "VERIFIED", "REJECTED"}
  /\ stage' = [stage EXCEPT ![d] = "repeated"]

Next == \E d \in Documents : Submit(d) \/ Report(d) \/ Decide(d) \/ Repeat(d)

Spec == Init /\ [][Next]_stage
=============================================================================
