--------------------------- MODULE LiveOperations ---------------------------
(***************************************************************************)
(* Documents as maps share them (src/collaboration/liveoperations.cpp): a  *)
(* canonical form in which nodes are keyed by identity and name their      *)
(* parent, the operations between two of them, and their application.      *)
(***************************************************************************)
EXTENDS MindMap

NoParent == 0

-----------------------------------------------------------------------------
\* normalize: the parent by identity, the place among its children as a number.
Normalize(d) ==
  LET uid(i) == IF i = None THEN NoParent ELSE d.nodes[i].syncId
      local(u) == CHOOSE i \in DOMAIN d.nodes : d.nodes[i].syncId = u
      order(i) == LET p == d.nodes[i].parent
                  IN IF p = None THEN 0 ELSE Position(d.nodes[p].children, i) - 1
  IN [props |-> [layout |-> d.layout, manual |-> d.manual, look |-> d.look],
      nodes |-> Table([u \in IdentitiesOf(d.nodes) |->
        LET n == d.nodes[local(u)]
        IN [kind |-> n.kind, meeting |-> n.meeting, task |-> n.task, checked |-> n.checked,
            folded |-> n.folded, content |-> n.content,
            parent |-> uid(n.parent), order |-> order(local(u))]]),
      edges |-> {Oriented(<<uid(e[1]), uid(e[2])>>) : e \in ToSet(d.connections)}]

ChildrenOf(c, u) == {v \in DOMAIN c.nodes : c.nodes[v].parent = u}
RootOf(c) == CHOOSE u \in DOMAIN c.nodes : c.nodes[u].parent = NoParent

\* Equal orders are told apart by the identity.
InSequence(c, S) ==
  LET before(u) == {v \in S : \/ c.nodes[v].order < c.nodes[u].order
                              \/ c.nodes[v].order = c.nodes[u].order /\ v < u}
  IN [k \in 1 .. Cardinality(S) |-> CHOOSE u \in S : Cardinality(before(u)) = k - 1]

\* project: numbers for the nodes, the root first and the others in key order.
Project(c) ==
  LET keys == <<RootOf(c)>> \o InOrder(DOMAIN c.nodes \ {RootOf(c)})
      number(u) == Position(keys, u)
      edges == FlattenSeq([a \in Identity |->
                 LET ends == InOrder({b \in Identity : <<a, b>> \in c.edges})
                 IN [k \in DOMAIN ends |-> <<number(a), number(ends[k])>>]])
  IN [nodes |-> Table([i \in DOMAIN keys |->
        LET n == c.nodes[keys[i]]
            kids == InSequence(c, ChildrenOf(c, keys[i]))
        IN [syncId |-> keys[i],
            parent |-> IF n.parent = NoParent THEN None ELSE number(n.parent),
            children |-> [k \in DOMAIN kids |-> number(kids[k])],
            kind |-> n.kind, meeting |-> n.meeting, task |-> n.task, checked |-> n.checked,
            folded |-> n.folded, content |-> n.content]]),
      connections |-> edges,
      layout |-> c.props.layout, manual |-> c.props.manual, look |-> c.props.look]

-----------------------------------------------------------------------------
(***************************************************************************)
(* diff: properties, then nodes in key order, then edges.  A node that     *)
(* only one side has is set or removed as a whole, one that both have by   *)
(* its fields.                                                             *)
(***************************************************************************)
Changes(a, b) == [f \in {f \in DOMAIN a : a[f] # b[f]} |-> b[f]]

NodeOps(a, b, u) ==
  IF u \notin DOMAIN b.nodes THEN <<[op |-> "removeNode", at |-> u]>>
  ELSE IF u \notin DOMAIN a.nodes
    THEN <<[op |-> "setNode", at |-> u, value |-> b.nodes[u]]>>
  ELSE IF a.nodes[u] # b.nodes[u]
    THEN <<[op |-> "setFields", at |-> u, value |-> Changes(a.nodes[u], b.nodes[u])]>>
  ELSE <<>>

EdgeOps(a, b, u, v) ==
  IF <<u, v>> \in a.edges \ b.edges THEN <<[op |-> "removeEdge", at |-> <<u, v>>]>>
  ELSE IF <<u, v>> \in b.edges \ a.edges THEN <<[op |-> "setEdge", at |-> <<u, v>>]>>
  ELSE <<>>

Diff(a, b) ==
  (IF a.props = b.props THEN <<>>
   ELSE <<[op |-> "setProps", value |-> Changes(a.props, b.props)]>>)
  \o FlattenSeq([u \in Identity |->
       IF u \in DOMAIN a.nodes \cup DOMAIN b.nodes THEN NodeOps(a, b, u) ELSE <<>>])
  \o FlattenSeq([u \in Identity |->
       FlattenSeq([v \in Identity |-> EdgeOps(a, b, u, v)])])

-----------------------------------------------------------------------------
(***************************************************************************)
(* apply: the operations in order, all or none.                            *)
(***************************************************************************)
Under(c, u) ==
  LET below[k \in 0 .. Cardinality(DOMAIN c.nodes)] ==
        IF k = 0 THEN {u} ELSE UNION {{v} \cup ChildrenOf(c, v) : v \in below[k - 1]}
  IN below[Cardinality(DOMAIN c.nodes)]

RemovedNode(c, u) ==
  LET gone == Under(c, u)
  IN [c EXCEPT !.nodes = Table([v \in DOMAIN @ \ gone |-> @[v]]),
               !.edges = {e \in @ : e[1] \notin gone /\ e[2] \notin gone}]

\* An operation that the document refuses.
Refused(c, o) ==
  \/ o.op = "setNode" /\ o.at \in DOMAIN c.nodes /\ c.nodes[o.at] # o.value
  \/ o.op = "removeNode" /\ o.at \in DOMAIN c.nodes /\ c.nodes[o.at].parent = NoParent

\* What it does; what is said of a node that is not there is skipped.
Effect(c, o) ==
  CASE o.op = "setProps" -> [c EXCEPT !.props = Over(o.value, @)]
    [] o.op = "setNode" -> [c EXCEPT !.nodes = Over(@, Single(o.at, o.value))]
    [] o.op = "removeNode" /\ o.at \in DOMAIN c.nodes -> RemovedNode(c, o.at)
    [] o.op = "setFields" /\ o.at \in DOMAIN c.nodes ->
         [c EXCEPT !.nodes[o.at] = Over(o.value, @)]
    [] o.op = "setEdge" /\ {o.at[1], o.at[2]} \subseteq DOMAIN c.nodes ->
         [c EXCEPT !.edges = @ \cup {o.at}]
    [] o.op = "removeEdge" -> [c EXCEPT !.edges = @ \ {o.at}]
    [] OTHER -> c

\* Parents exist and lead to the one root, which is the root of before.
ValidResult(before, c) ==
  /\ \A u \in DOMAIN c.nodes : c.nodes[u].parent \in DOMAIN c.nodes \cup {NoParent}
  /\ Cardinality(ChildrenOf(c, NoParent)) = 1
  /\ Under(c, RootOf(c)) = DOMAIN c.nodes
  /\ Cardinality(DOMAIN c.nodes) <= MaxNodes
  /\ RootOf(before) \in DOMAIN c.nodes => RootOf(before) = RootOf(c)

\* The documents after the operations: one of them, or none.
Results(c, ops) ==
  LET after[k \in 0 .. Len(ops)] ==
        IF k = 0 THEN {c}
        ELSE {Effect(x, ops[k]) : x \in {x \in after[k - 1] : ~Refused(x, ops[k])}}
  IN {x \in after[Len(ops)] : ValidResult(c, x)}

=============================================================================
