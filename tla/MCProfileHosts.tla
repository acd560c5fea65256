---------------------------- MODULE MCProfileHosts ----------------------------
(* Small instances of ProfileHosts for TLC.                                 *)
EXTENDS ProfileHosts, TLC

Symmetry ==
    Permutations(Slots) \cup Permutations(Tags) \cup Permutations(Profiles)
        \cup Permutations(Types) \cup Permutations(Raws)
=============================================================================
