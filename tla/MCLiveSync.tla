----------------------------- MODULE MCLiveSync -----------------------------
(* Small instances of LiveSync. *)
EXTENDS LiveSync, TLC

CONSTANTS c1, c2

MCOneEach == (c1 :> 1) @@ (c2 :> 1)
MCTwoOne == (c1 :> 2) @@ (c2 :> 1)
MCTwoAlone == (c1 :> 2)
=============================================================================
