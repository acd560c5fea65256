-------------------------- MODULE MCUsagePipeline --------------------------
(* Small instances of UsagePipeline for TLC.                                *)
EXTENDS UsagePipeline

(* Every node counts one and a half times.                                  *)
MCMultiplier == [n \in Nodes |-> 3]
MCOne == 2

=============================================================================
