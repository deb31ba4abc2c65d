----------------------------- MODULE MCSimulator -----------------------------
(* Instance of Simulator for TLC: four nodes, two groups with or without   *)
(* the last one.                                                           *)
EXTENDS Simulator

MCPartitions == {<<>>, <<{0, 1}, {2}>>, <<{0, 1}, {2, 3}>>}
MCSpeakers == {0}
==============================================================================
