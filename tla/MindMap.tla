------------------------------ MODULE MindMap ------------------------------
(***************************************************************************)
(* The document of the desktop client (src/engine.cpp): a tree of nodes    *)
(* with relationships across it, as the editor holds it in memory and as   *)
(* the loader accepts it.                                                  *)
(*                                                                         *)
(* A node is known by a local number, which commands and the canvas use,   *)
(* and by an identity, which it keeps in files and on other machines.      *)
(* `content' stands for what the editor stores and never looks into: text, *)
(* notes, style, resources, image, calendar entries, meeting details and   *)
(* position.  `look' stands for spacing, branch style and theme.           *)
(***************************************************************************)
EXTENDS Integers, Sequences, SequencesExt, FiniteSets, SequenceTools

CONSTANTS
  MaxIdentity,   \* bound: identities are 1 .. MaxIdentity (the code: UUIDs)
  Content,       \* what a node may hold
  Plain,         \* what a new node holds
  MaxNodes,      \* nodes of a document (the code: 10000)
  MaxDepth       \* depth of its tree (the code: 512)

ASSUME MapAssumption ==
  /\ MaxIdentity \in Nat
  /\ Plain \in Content
  /\ MaxNodes \in Nat \ {0}
  /\ MaxDepth \in Nat

-----------------------------------------------------------------------------
Identity == 1 .. MaxIdentity
Layout == {"Horizontal", "Vertical", "Compact"}
Root == 1
None == -1       \* the parent of the root; no node selected

Kind == {"text", "date"}
Node == [syncId : Int, parent : Int, children : Seq(Int), kind : Kind,
         meeting : BOOLEAN, task : BOOLEAN, checked : BOOLEAN, folded : BOOLEAN,
         content : Content]
IsDocument(d) ==
  d \in [nodes : {d.nodes}, connections : Seq(Int \X Int), layout : Layout, manual : BOOLEAN,
         look : Content, selected : Int, selection : SUBSET Int, nextId : Nat]

\* What a file is made of, whether the loader accepts it or not: numbered records
\* of the right kinds, with any links.
Record(n) ==
  n \in [syncId : Int, parent : {n.parent}, children : Seq(ToSet(n.children)), kind : Kind,
         meeting : BOOLEAN, task : BOOLEAN, checked : BOOLEAN, folded : BOOLEAN,
         content : Content]
Records(nodes) ==
  /\ IsFiniteSet(DOMAIN nodes) /\ DOMAIN nodes \subseteq Nat \ {0}
  /\ nodes = [i \in DOMAIN nodes |-> nodes[i]] /\ \A i \in DOMAIN nodes : Record(nodes[i])
IsFile(b) ==
  /\ b \in [nodes : {b.nodes}, connections : Seq(ToSet(b.connections)), layout : Layout,
            manual : BOOLEAN, look : Content]
  /\ Records(b.nodes)
  /\ \A k \in DOMAIN b.connections : b.connections[k] = <<b.connections[k][1], b.connections[k][2]>>

\* The identities of S in their order as keys.
InOrder(S) == Only([u \in Identity |-> u], S)
Highest(S) == CHOOSE n \in S : \A k \in S : k <= n

NewNode(uid, parent) ==
  [syncId |-> uid, parent |-> parent, children |-> <<>>, kind |-> "text",
   meeting |-> FALSE, task |-> FALSE, checked |-> FALSE, folded |-> FALSE,
   content |-> Plain]

\* A new document: a root and nothing else.
Blank(uid) ==
  [nodes |-> Single(Root, NewNode(uid, None)), connections |-> <<>>,
   layout |-> "Horizontal", manual |-> FALSE, look |-> Plain,
   selected |-> Root, selection |-> {Root}, nextId |-> 2]

\* What a file of the document holds, and what tells an edited one.
Bytes(d) == [nodes |-> d.nodes, connections |-> d.connections,
             layout |-> d.layout, manual |-> d.manual, look |-> d.look]

IdentitiesOf(nodes) == {nodes[i].syncId : i \in DOMAIN nodes}

-----------------------------------------------------------------------------
(***************************************************************************)
(* The tree.                                                               *)
(***************************************************************************)
Kids(nodes, i) == ToSet(nodes[i].children)

Ancestors(nodes, i) ==
  LET above[j \in DOMAIN nodes] ==
        LET p == nodes[j].parent IN IF p = None THEN {} ELSE {p} \cup above[p]
  IN above[i]

IsDescendant(nodes, i, ancestor) == ancestor \in Ancestors(nodes, i)
Branch(nodes, i) == {j \in DOMAIN nodes : j = i \/ IsDescendant(nodes, j, i)}
Depth(nodes, i) == Cardinality(Ancestors(nodes, i))
Deepest(nodes, S) == CHOOSE i \in S : \A j \in S : Depth(nodes, j) <= Depth(nodes, i)
Height(nodes, i) == Highest({Depth(nodes, j) - Depth(nodes, i) : j \in Branch(nodes, i)})

\* The topmost nodes of a selection, in the order of the outline.
BranchRoots(nodes, selection) ==
  LET below[i \in DOMAIN nodes] ==
        IF i \in selection THEN <<i>>
        ELSE FlattenSeq([k \in DOMAIN nodes[i].children |-> below[nodes[i].children[k]]])
  IN below[Root]

Unfolded(nodes) ==
  {i \in DOMAIN nodes : \A a \in Ancestors(nodes, i) : ~nodes[a].folded}

Spliced(s, at, new) == SubSeq(s, 1, at) \o new \o SubSeq(s, at + 1, Len(s))

\* children with `new' after or before one of them, or at the end.
After(children, sibling, new) ==
  Spliced(children,
          IF sibling \in ToSet(children) THEN Position(children, sibling) ELSE Len(children),
          new)
Before(children, sibling, new) ==
  Spliced(children,
          IF sibling \in ToSet(children) THEN Position(children, sibling) - 1 ELSE Len(children),
          new)

Detached(nodes, ids) ==
  Table([i \in DOMAIN nodes |->
    [nodes[i] EXCEPT !.children = Only(@, DOMAIN nodes \ ids)]])

\* A branch, gone with its relationships.
WithoutNodes(d, gone) ==
  [d EXCEPT !.nodes = LET rest == Detached(d.nodes, gone)
                      IN Table([i \in DOMAIN rest \ gone |-> rest[i]]),
            !.connections = Only(@, {e \in ToSet(@) : e[1] \notin gone /\ e[2] \notin gone})]

\* Branches under another parent, which unfolds, before the sibling or at the end.
Moved(d, ids, parent, sibling) ==
  LET rest == Detached(d.nodes, ToSet(ids))
  IN [d EXCEPT !.nodes = Table([i \in DOMAIN rest |->
       CASE i \in ToSet(ids) -> [rest[i] EXCEPT !.parent = parent]
         [] i = parent -> [rest[i] EXCEPT !.children = Before(@, sibling, ids), !.folded = FALSE]
         [] OTHER -> rest[i]])]

-----------------------------------------------------------------------------
(***************************************************************************)
(* rebuild: what follows from a change.  A text node with tasks among its  *)
(* children is a task, checked when all of these are; the selection keeps  *)
(* to what the folds show.  (The rectangles it computes are left out.)     *)
(***************************************************************************)
Aggregated(nodes) ==
  LET settled[i \in DOMAIN nodes] ==
        LET tasks == {t \in {settled[c] : c \in Kids(nodes, i)} : t.task}
        IN IF nodes[i].kind = "text" /\ ~nodes[i].meeting /\ tasks # {}
             THEN [nodes[i] EXCEPT !.task = TRUE, !.checked = \A t \in tasks : t.checked]
             ELSE nodes[i]
  IN Table([i \in DOMAIN nodes |-> settled[i]])

\* The nearest node that shows, upwards from the selected one.
Shown(nodes, selected) ==
  IF selected = None THEN None
  ELSE IF selected \notin DOMAIN nodes THEN Root
  ELSE Deepest(nodes, ({selected} \cup Ancestors(nodes, selected)) \cap Unfolded(nodes))

\* Mutant: nodes that a fold hides stay selected.
RebuildUnpruned(d) ==
  [d EXCEPT !.nodes = Aggregated(d.nodes), !.selected = Shown(Aggregated(d.nodes), d.selected)]

Rebuild(d) ==
  LET nodes == Aggregated(d.nodes)
      selected == Shown(nodes, d.selected)
  IN [d EXCEPT !.nodes = nodes,
               !.selected = selected,
               !.selection = (@ \cap Unfolded(nodes)) \cup ({selected} \ {None})]

-----------------------------------------------------------------------------
(***************************************************************************)
(* loadDocumentBytes: what the loader accepts, and the document it makes.  *)
(***************************************************************************)
ValidNode(n) ==
  /\ n.checked => n.task
  /\ n.kind = "date" => ~n.task /\ ~n.checked
  /\ n.meeting => n.kind = "text"
  /\ \A j, k \in DOMAIN n.children : n.children[j] = n.children[k] => j = k

\* Every node is reached from the root, within the depth, over links that agree.
ValidTree(nodes) ==
  LET level[k \in 0 .. MaxDepth] ==
        IF k = 0 THEN {Root} ELSE UNION {Kids(nodes, i) : i \in level[k - 1]}
  IN /\ Root \in DOMAIN nodes /\ nodes[Root].parent = None
     /\ \A i \in DOMAIN nodes : \A c \in Kids(nodes, i) :
          c \in DOMAIN nodes /\ nodes[c].parent = i
     /\ UNION {level[k] : k \in 0 .. MaxDepth} = DOMAIN nodes
     /\ \A i \in level[MaxDepth] : nodes[i].children = <<>>

Oriented(e) == IF e[1] > e[2] THEN <<e[2], e[1]>> ELSE e

ValidConnections(nodes, connections) ==
  /\ \A k \in DOMAIN connections :
       LET e == connections[k]
       IN e[1] # e[2] /\ e[1] \in DOMAIN nodes /\ e[2] \in DOMAIN nodes
  /\ \A j, k \in DOMAIN connections :
       Oriented(connections[j]) = Oriented(connections[k]) => j = k

Loadable(b) ==
  /\ ~(b.layout = "Compact" /\ b.manual)
  /\ Cardinality(DOMAIN b.nodes) <= MaxNodes
  /\ Cardinality(IdentitiesOf(b.nodes)) = Cardinality(DOMAIN b.nodes)
  /\ \A i \in DOMAIN b.nodes : ValidNode(b.nodes[i])
  /\ ValidTree(b.nodes)
  /\ ValidConnections(b.nodes, b.connections)

Loaded(b) ==
  Rebuild([nodes |-> b.nodes,
           connections |-> [k \in DOMAIN b.connections |-> Oriented(b.connections[k])],
           layout |-> b.layout, manual |-> b.manual, look |-> b.look,
           selected |-> Root, selection |-> {Root},
           nextId |-> Highest(DOMAIN b.nodes) + 1])

=============================================================================
