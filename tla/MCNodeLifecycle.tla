-------------------------- MODULE MCNodeLifecycle --------------------------
(* Instances of NodeLifecycle: the nodes of one profile.                    *)
EXTENDS NodeLifecycle, TLC

NodeSymmetry == Permutations(Nodes)
=============================================================================
