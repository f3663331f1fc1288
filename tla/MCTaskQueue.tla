---------------------------- MODULE MCTaskQueue ----------------------------
(* TaskQueue on small instances: task ids are their created_at order. *)
EXTENDS TaskQueue

CONSTANTS w1, w2

TwoTasks   == {1, 2}
ThreeTasks == {1, 2, 3}
None       == {}
OnlySecond == {2}
One        == {w1}
Two        == {w1, w2}
=============================================================================
