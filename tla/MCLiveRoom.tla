----------------------------- MODULE MCLiveRoom -----------------------------
(* Small instances of LiveRoom. *)
EXTENDS LiveRoomInductive, TLC

CONSTANTS a1, a2, e1, e2

MCAuthor == (e1 :> a1) @@ (e2 :> a2)
MCNewMap == <<>>
MCOldMap == <<[id |-> "v1a", hash |-> "v1"], [id |-> "v1b", hash |-> "v1"]>>
=============================================================================
