--------------------------- MODULE MCSquadRestarts ---------------------------
(* A small instance of SquadRestarts for TLC.                               *)
EXTENDS SquadRestarts, TLC

(* Two profiles, one with two inbounds and one with one.                                                 *)
MCProfileOf == ("i" :> "p") @@ ("k" :> "p") @@ ("j" :> "q")
=============================================================================
