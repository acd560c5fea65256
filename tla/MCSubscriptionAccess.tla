------------------------ MODULE MCSubscriptionAccess ------------------------
(* A small instance of SubscriptionAccess for TLC.                          *)
EXTENDS SubscriptionAccess, TLC

(* Off, and on with room for one device.                                    *)
MCSettings == {[enabled |-> FALSE, fallback |-> 1], [enabled |-> TRUE, fallback |-> 1]}

Symmetry == Permutations(Devices) \cup Permutations(Requests)
=============================================================================
