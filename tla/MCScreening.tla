---------------------------- MODULE MCScreening ----------------------------
(* Screening on small instances: as many tasks as items and retries need. *)
EXTENDS Screening

CONSTANTS w1, w2, a1, i1, i2, i3

TaskIds(n)   == 1..n
TwoTasks     == TaskIds(2)
ThreeTasks   == TaskIds(3)
FirstTask    == TaskIds(1)
FourTasks    == TaskIds(4)
FiveTasks    == TaskIds(5)
None         == {}
OneItemBad   == {i1}
TwoItems     == {i1, i2}
ThreeItems   == {i1, i2, i3}
OneWorkerSet == {w1}
TwoWorkers   == {w1, w2}
OneAdmin     == {a1}
=============================================================================
