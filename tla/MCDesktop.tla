------------------------------ MODULE MCDesktop ------------------------------
(* Small instances of Desktop. *)
EXTENDS Desktop, TLC

MCWindow == 1 .. 4
MCNaming == <<2, 4, 1, 3>>
MCOnDisk == "f" :> "b"

\* Three maps in two native windows: one that was never saved, one like its file
\* and one that differs from it.
Three ==
  [desk |-> [NoDesk EXCEPT !.documents = <<2, 4, 1>>,
                           !.host = (2 :> 1) @@ (4 :> 1) @@ (1 :> 2),
                           !.shown = [h \in Host |-> CASE h = 1 -> 2 [] h = 2 -> 1 [] OTHER -> None],
                           !.front = 1],
   map |-> (2 :> [Blank EXCEPT !.text = "b"])
        @@ (4 :> [text |-> "b", base |-> "b", path |-> "f"])
        @@ (1 :> [Blank EXCEPT !.text = "b"])]

Nothing == [desk |-> NoDesk, map |-> <<>>]
Budget(effort, quits, crashes, faults) ==
  [budget |-> [effort |-> effort, quits |-> quits, crashes |-> crashes, faults |-> faults]]

\* Few commands between two quits, with a crash and with a snapshot that fails;
\* more of them around one quit, or with none; and a first start.
MCOpening ==
  {Three @@ Budget(1, 2, 1, 1), Three @@ Budget(2, 1, 0, 0), Three @@ Budget(3, 0, 0, 0),
   Nothing @@ Budget(2, 1, 0, 0)}

=============================================================================
