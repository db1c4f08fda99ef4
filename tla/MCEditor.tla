------------------------------ MODULE MCEditor ------------------------------
EXTENDS Editor, TLC

(***************************************************************************)
(* Windows with small maps.  Their identities are neither in the order of  *)
(* the numbers nor without gaps, so that new nodes come before, between    *)
(* and after the old ones in the order of keys.                            *)
(***************************************************************************)
Leaf(uid, parent, content) == [NewNode(uid, parent) EXCEPT !.content = content]

\* A shared map: a root, a branch and its leaf, related to each other.
Branched ==
  [Blank(4) EXCEPT
     !.nodes = (1 :> [Leaf(4, None, "a") EXCEPT !.children = <<2>>])
            @@ (2 :> [Leaf(6, 1, "a") EXCEPT !.children = <<3>>])
            @@ (3 :> Leaf(2, 2, "b")),
     !.connections = <<<<2, 3>>>>,
     !.nextId = 4]

\* A map of its own: a root with a task and a meeting.
Forked ==
  [Blank(4) EXCEPT
     !.nodes = (1 :> [Leaf(4, None, "a") EXCEPT !.children = <<2, 3>>])
            @@ (2 :> [Leaf(6, 1, "a") EXCEPT !.task = TRUE])
            @@ (3 :> [Leaf(2, 1, "b") EXCEPT !.meeting = TRUE]),
     !.nextId = 4]

JoinedDocs == {[Branched EXCEPT !.selected = 2, !.selection = {2}]}
OpeningDocs == {[Rebuild(Forked) EXCEPT !.selected = 2, !.selection = {2, 3}]}
NoDocs == {}

\* The file on disk: a root and a leaf.
DiskDoc ==
  Bytes([Blank(7) EXCEPT
    !.nodes = (1 :> [Leaf(7, None, "a") EXCEPT !.children = <<2>>]) @@ (2 :> Leaf(8, 1, "b"))])

Sections1 == <<"notes">>

=============================================================================
