---------------------------- MODULE MCNodeTraffic ----------------------------
(* A small instance of NodeTraffic for TLC.                                 *)
EXTENDS NodeTraffic, TLC

(* A long month, and a short one without the last reset day.                 *)
MCMonths == <<3, 2>>

Symmetry == Permutations(Nodes)
=============================================================================
