------------------------------ MODULE MapProofs ------------------------------
(***************************************************************************)
(* Facts about the documents of MindMap and LiveOperations: what a tree    *)
(* is, that the recursions over it have the values they should, that       *)
(* rebuild settles it and keeps the selection on what shows, and that the  *)
(* loader accepts trees only.                                              *)
(***************************************************************************)
EXTENDS LiveOperations, DataLemmas

-----------------------------------------------------------------------------
(***************************************************************************)
(* Functions and finite sets of numbers.                                   *)
(***************************************************************************)
LEMMA TableIs ==
  ASSUME NEW f
  PROVE  Table(f) = f
<1>1. \E g \in {f} : g = f
  OBVIOUS
<1> QED BY <1>1 DEF Table

LEMMA OverIs ==
  ASSUME NEW f, NEW g
  PROVE  /\ DOMAIN Over(f, g) = DOMAIN f \cup DOMAIN g
         /\ \A x \in DOMAIN f : Over(f, g)[x] = f[x]
         /\ \A x \in DOMAIN g \ DOMAIN f : Over(f, g)[x] = g[x]
<1>1. Over(f, g) = [x \in DOMAIN f \cup DOMAIN g |-> IF x \in DOMAIN f THEN f[x] ELSE g[x]]
  BY TableIs DEF Over
<1> QED BY <1>1

LEMMA OverMaps ==
  ASSUME NEW f, NEW g
  PROVE  Over(f, g) = [x \in DOMAIN Over(f, g) |-> Over(f, g)[x]]
<1>1. Over(f, g) = [x \in DOMAIN f \cup DOMAIN g |-> IF x \in DOMAIN f THEN f[x] ELSE g[x]]
  BY TableIs DEF Over
<1> QED BY <1>1

LEMMA SingleIs ==
  ASSUME NEW x, NEW v
  PROVE  DOMAIN Single(x, v) = {x} /\ Single(x, v)[x] = v
BY DEF Single

\* A finite set of numbers has a highest one.
LEMMA HighestOf ==
  ASSUME NEW S \in SUBSET Int, IsFiniteSet(S), S # {}
  PROVE  Highest(S) \in S /\ \A k \in S : k <= Highest(S)
<1> DEFINE Top(T) == \E n \in T : \A k \in T : k <= n
           Done == {m \in Nat : \A T \in SUBSET Int :
                      IsFiniteSet(T) /\ Cardinality(T) = m + 1 => Top(T)}
<1>1. 0 \in Done
  <2>1. SUFFICES ASSUME NEW T \in SUBSET Int, IsFiniteSet(T), Cardinality(T) = 1 PROVE Top(T)
    OBVIOUS
  <2>2. PICK x : T = {x}
    BY <2>1, FS_Singleton
  <2> QED BY <2>1, <2>2
<1>2. ASSUME NEW m \in Done PROVE m + 1 \in Done
  <2>1. SUFFICES ASSUME NEW T \in SUBSET Int, IsFiniteSet(T), Cardinality(T) = m + 1 + 1
                 PROVE  Top(T)
    OBVIOUS
  <2>2. m \in Nat
    OBVIOUS
  <2>3. PICK x \in T : TRUE
    <3>1. T # {}
      BY <2>1, <2>2, FS_EmptySet
    <3> QED BY <3>1
  <2>4. IsFiniteSet(T \ {x}) /\ Cardinality(T \ {x}) = m + 1
    BY <2>1, <2>2, <2>3, FS_RemoveElement
  <2>5. Top(T \ {x})
    BY <2>4
  <2>6. PICK n \in T \ {x} : \A k \in T \ {x} : k <= n
    BY <2>5
  <2>7. CASE x <= n
    BY <2>6, <2>7
  <2>8. CASE ~(x <= n)
    <3>1. \A k \in T : k <= x
      BY <2>6, <2>8, <2>3
    <3> QED BY <2>3, <3>1
  <2> QED BY <2>7, <2>8
<1>3. Done = Nat
  <2> HIDE DEF Done
  <2>1. Done \in SUBSET Nat
    BY DEF Done
  <2> QED BY <1>1, <1>2, <2>1, InductiveSet
<1>4. Cardinality(S) \in Nat /\ Cardinality(S) # 0
  BY FS_EmptySet, FS_CardinalityType
<1>5. Cardinality(S) - 1 \in Done /\ Cardinality(S) - 1 + 1 = Cardinality(S)
  <2> HIDE DEF Done
  <2> QED BY <1>3, <1>4
<1>6. Top(S)
  BY <1>5
<1> QED BY <1>6 DEF Highest

-----------------------------------------------------------------------------
(***************************************************************************)
(* Trees.  The depth of each node witnesses that there is no cycle.        *)
(***************************************************************************)
Typed(n) ==
  /\ IsFiniteSet(DOMAIN n) /\ DOMAIN n \subseteq Nat \ {0}
  /\ n \in [DOMAIN n -> Node]

Linked(n) ==
  /\ Root \in DOMAIN n /\ n[Root].parent = None
  /\ \A i \in DOMAIN n \ {Root} : n[i].parent \in DOMAIN n /\ i \in Kids(n, n[i].parent)
  /\ \A i \in DOMAIN n : \A c \in Kids(n, i) : c \in DOMAIN n /\ n[c].parent = i

Levels(n, dep) ==
  /\ dep \in [DOMAIN n -> 0 .. MaxDepth]
  /\ dep[Root] = 0
  /\ \A i \in DOMAIN n \ {Root} : dep[i] = dep[n[i].parent] + 1

Tree(n, dep) == Typed(n) /\ Linked(n) /\ Levels(n, dep)

LEMMA MaxDepthNat == MaxDepth \in Nat /\ MaxIdentity \in Nat /\ MaxNodes \in Nat \ {0} /\ Plain \in Content
BY MapAssumption DEF MapAssumption

\* A child is never the root, and lies one deeper than its parent.
LEMMA KidsDeeper ==
  ASSUME NEW n, NEW dep, Tree(n, dep), NEW i \in DOMAIN n
  PROVE  /\ Kids(n, i) \subseteq DOMAIN n \ {Root}
         /\ \A c \in Kids(n, i) : n[c].parent = i /\ dep[c] = dep[i] + 1
         /\ dep[i] \in 0 .. MaxDepth
         /\ None \notin DOMAIN n
         /\ (n[i].parent = None) <=> (i = Root)
<1>1. None \notin DOMAIN n
  BY DEF Tree, Typed, None
<1>2. ASSUME NEW c \in Kids(n, i) PROVE c \in DOMAIN n \ {Root} /\ n[c].parent = i
  BY <1>1, <1>2 DEF Tree, Linked
<1>3. \A c \in Kids(n, i) : dep[c] = dep[i] + 1
  BY <1>2 DEF Tree, Levels
<1> QED BY <1>1, <1>2, <1>3 DEF Tree, Levels, Linked

LEMMA DownInduction ==
  ASSUME NEW n, NEW dep, Tree(n, dep), NEW S,
         Root \in S, \A i \in DOMAIN n \ {Root} : n[i].parent \in S => i \in S
  PROVE  DOMAIN n \subseteq S
<1> DEFINE Done == {k \in Nat : \A i \in DOMAIN n : dep[i] <= k => i \in S}
<1>1. \A i \in DOMAIN n : dep[i] \in 0 .. MaxDepth
  BY DEF Tree, Levels
<1>2. ASSUME NEW i \in DOMAIN n \ {Root} PROVE n[i].parent \in DOMAIN n /\ dep[i] = dep[n[i].parent] + 1
  BY DEF Tree, Levels, Linked
<1>3. 0 \in Done
  BY <1>1, <1>2, MaxDepthNat
<1>4. ASSUME NEW k \in Done PROVE k + 1 \in Done
  BY <1>1, <1>2, MaxDepthNat
<1>5. Done = Nat
  <2> HIDE DEF Done
  <2>1. Done \in SUBSET Nat
    BY DEF Done
  <2> QED BY <1>3, <1>4, <2>1, InductiveSet
<1>6. MaxDepth \in Done
  BY <1>5, MaxDepthNat
<1> QED BY <1>1, <1>6

LEMMA UpInduction ==
  ASSUME NEW n, NEW dep, Tree(n, dep), NEW S,
         \A i \in DOMAIN n : Kids(n, i) \subseteq S => i \in S
  PROVE  DOMAIN n \subseteq S
<1> DEFINE Done == {k \in Nat : \A i \in DOMAIN n : MaxDepth <= dep[i] + k => i \in S}
<1>1. ASSUME NEW i \in DOMAIN n
      PROVE  dep[i] \in 0 .. MaxDepth /\ \A c \in Kids(n, i) : c \in DOMAIN n /\ dep[c] = dep[i] + 1
  BY KidsDeeper
<1>2. 0 \in Done
  <2> SUFFICES ASSUME NEW i \in DOMAIN n, MaxDepth <= dep[i] PROVE i \in S
    BY <1>1
  <2>1. Kids(n, i) = {}
    BY <1>1, MaxDepthNat
  <2> QED BY <2>1
<1>3. ASSUME NEW k \in Done PROVE k + 1 \in Done
  <2> SUFFICES ASSUME NEW i \in DOMAIN n, MaxDepth <= dep[i] + (k + 1) PROVE i \in S
    OBVIOUS
  <2>1. \A c \in Kids(n, i) : c \in DOMAIN n /\ MaxDepth <= dep[c] + k
    BY <1>1, MaxDepthNat
  <2> QED BY <2>1
<1>4. Done = Nat
  <2> HIDE DEF Done
  <2>1. Done \in SUBSET Nat
    BY DEF Done
  <2> QED BY <1>2, <1>3, <2>1, InductiveSet
<1>5. MaxDepth \in Done
  BY <1>4, MaxDepthNat
<1> QED BY <1>1, <1>5, MaxDepthNat

-----------------------------------------------------------------------------
(***************************************************************************)
(* The nodes above a node.                                                 *)
(***************************************************************************)
Above(n, f) ==
  f = [j \in DOMAIN n |-> LET p == n[j].parent IN IF p = None THEN {} ELSE {p} \cup f[p]]

LEMMA AboveExists ==
  ASSUME NEW n, NEW dep, Tree(n, dep)
  PROVE  \E f : Above(n, f)
<1> DEFINE Value(f, j) == IF n[j].parent = None THEN {} ELSE {n[j].parent} \cup f[n[j].parent]
           Upto(f, k) == \A j \in DOMAIN n : dep[j] <= k => f[j] = Value(f, j)
           Solved == {k \in Nat : \E f : f = [j \in DOMAIN n |-> f[j]] /\ Upto(f, k)}
<1>1. ASSUME NEW i \in DOMAIN n
      PROVE  /\ dep[i] \in 0 .. MaxDepth
             /\ n[i].parent # None => n[i].parent \in DOMAIN n /\ dep[i] = dep[n[i].parent] + 1
  BY KidsDeeper DEF Tree, Linked, Levels
<1>2. 0 \in Solved
  <2> DEFINE f == [j \in DOMAIN n |-> {}]
  <2>1. ASSUME NEW j \in DOMAIN n, dep[j] <= 0 PROVE f[j] = Value(f, j)
    <3>1. n[j].parent = None
      <4> SUFFICES ASSUME n[j].parent # None PROVE FALSE
        OBVIOUS
      <4>1. n[j].parent \in DOMAIN n /\ dep[j] = dep[n[j].parent] + 1 /\ dep[n[j].parent] \in Nat
        BY <1>1, MaxDepthNat
      <4> QED BY <2>1, <4>1
    <3> QED BY <3>1
  <2>2. f = [j \in DOMAIN n |-> f[j]] /\ Upto(f, 0)
    BY <2>1
  <2> HIDE DEF f, Value
  <2> QED BY <2>2
<1>3. ASSUME NEW k \in Solved PROVE k + 1 \in Solved
  <2>1. PICK f : f = [j \in DOMAIN n |-> f[j]] /\ Upto(f, k)
    OBVIOUS
  <2> DEFINE g == [j \in DOMAIN n |-> IF dep[j] = k + 1 THEN Value(f, j) ELSE f[j]]
  <2>2. ASSUME NEW j \in DOMAIN n, dep[j] <= k + 1 PROVE g[j] = Value(g, j)
    <3>1. n[j].parent # None => g[n[j].parent] = f[n[j].parent]
      BY <1>1, <2>2, MaxDepthNat
    <3>2. Value(g, j) = Value(f, j)
      BY <3>1
    <3>3. g[j] = Value(f, j)
      <4>1. CASE dep[j] = k + 1
        BY <4>1
      <4>2. CASE dep[j] # k + 1
        <5>1. dep[j] <= k /\ k \in Nat
          BY <1>1, <2>2, <4>2, MaxDepthNat
        <5>2. f[j] = Value(f, j)
          BY <2>1, <5>1
        <5>3. g[j] = f[j]
          BY <4>2
        <5> HIDE DEF g, Value
        <5> QED BY <5>2, <5>3
      <4> QED BY <4>1, <4>2
    <3> HIDE DEF g, Value
    <3> QED BY <3>2, <3>3
  <2>3. g = [j \in DOMAIN n |-> g[j]] /\ Upto(g, k + 1)
    BY <2>2
  <2> HIDE DEF g, Value
  <2> QED BY <2>3
<1>4. MaxDepth \in Solved
  <2> HIDE DEF Solved
  <2>1. Solved \in SUBSET Nat
    BY DEF Solved
  <2>2. Solved = Nat
    BY <1>2, <1>3, <2>1, InductiveSet
  <2> QED BY <2>2, MaxDepthNat
<1>5. PICK f : f = [j \in DOMAIN n |-> f[j]] /\ Upto(f, MaxDepth)
  BY <1>4
<1>6. \A j \in DOMAIN n : f[j] = Value(f, j)
  BY <1>1, <1>5
<1> QED BY <1>5, <1>6 DEF Above

LEMMA AncestorsUnfold ==
  ASSUME NEW n, NEW dep, Tree(n, dep), NEW i \in DOMAIN n
  PROVE  Ancestors(n, i) = IF i = Root THEN {} ELSE {n[i].parent} \cup Ancestors(n, n[i].parent)
<1> DEFINE f == CHOOSE g : Above(n, g)
<1>1. \A j : Ancestors(n, j) = f[j]
  BY DEF Ancestors, Above
<1>2. Above(n, f)
  BY AboveExists
<1> HIDE DEF f
<1>3. f[i] = IF n[i].parent = None THEN {} ELSE {n[i].parent} \cup f[n[i].parent]
  BY <1>2 DEF Above
<1> QED BY <1>1, <1>3, KidsDeeper

LEMMA AncestorsOf ==
  ASSUME NEW n, NEW dep, Tree(n, dep), NEW i \in DOMAIN n
  PROVE  /\ Ancestors(n, i) \subseteq DOMAIN n
         /\ \A a \in Ancestors(n, i) : dep[a] < dep[i]
         /\ IsFiniteSet(Ancestors(n, i)) /\ Depth(n, i) = dep[i]
         /\ i # Root => Root \in Ancestors(n, i)
         /\ \A a \in Ancestors(n, i) : Ancestors(n, a) \subseteq Ancestors(n, i)
<1> DEFINE A(j) == Ancestors(n, j)
           Good(j) == /\ A(j) \subseteq DOMAIN n
                      /\ \A a \in A(j) : dep[a] < dep[j]
                      /\ IsFiniteSet(A(j)) /\ Cardinality(A(j)) = dep[j]
                      /\ j # Root => Root \in A(j)
                      /\ \A a \in A(j) : A(a) \subseteq A(j)
           S == {j \in DOMAIN n : Good(j)}
<1>1. ASSUME NEW j \in DOMAIN n
      PROVE  /\ dep[j] \in 0 .. MaxDepth
             /\ A(j) = IF j = Root THEN {} ELSE {n[j].parent} \cup A(n[j].parent)
             /\ j # Root => n[j].parent \in DOMAIN n /\ dep[j] = dep[n[j].parent] + 1
  BY AncestorsUnfold DEF Tree, Linked, Levels
<1> HIDE DEF A
<1>2. Root \in S
  <2>1. Root \in DOMAIN n /\ dep[Root] = 0
    BY DEF Tree, Linked, Levels
  <2>2. A(Root) = {}
    BY <1>1, <2>1
  <2> QED BY <2>1, <2>2, FS_EmptySet
<1>3. ASSUME NEW j \in DOMAIN n \ {Root}, n[j].parent \in S PROVE j \in S
  <2> DEFINE p == n[j].parent
  <2>1. p \in DOMAIN n /\ Good(p) /\ dep[j] = dep[p] + 1 /\ A(j) = {p} \cup A(p) /\ dep[p] \in Nat
    BY <1>1, <1>3, MaxDepthNat
  <2> HIDE DEF p
  <2>2. p \notin A(p)
    BY <2>1
  <2>3. IsFiniteSet(A(j)) /\ Cardinality(A(j)) = dep[j]
    BY <2>1, <2>2, FS_AddElement
  <2>4. A(j) \subseteq DOMAIN n
    BY <2>1
  <2>5. ASSUME NEW a \in A(j) PROVE dep[a] < dep[j]
    <3>1. dep[a] \in Nat
      BY <1>1, <2>4, MaxDepthNat
    <3> QED BY <2>1, <3>1
  <2>6. \A a \in A(j) : A(a) \subseteq A(j)
    BY <2>1
  <2>7. Root \in A(j)
    BY <2>1
  <2> QED BY <2>3, <2>4, <2>5, <2>6, <2>7
<1>4. DOMAIN n \subseteq S
  <2> HIDE DEF S
  <2> QED BY <1>2, <1>3, DownInduction
<1> QED BY <1>4 DEF A, Depth

\* The ancestors go by the parents alone.
LEMMA SameAncestors ==
  ASSUME NEW n, NEW dep, Tree(n, dep), NEW m, NEW lev, Tree(m, lev),
         DOMAIN m = DOMAIN n, \A i \in DOMAIN n : m[i].parent = n[i].parent
  PROVE  \A i \in DOMAIN n : Ancestors(m, i) = Ancestors(n, i)
<1> DEFINE S == {i \in DOMAIN n : Ancestors(m, i) = Ancestors(n, i)}
<1>1. ASSUME NEW i \in DOMAIN n
      PROVE  /\ Ancestors(n, i) = IF i = Root THEN {} ELSE {n[i].parent} \cup Ancestors(n, n[i].parent)
             /\ Ancestors(m, i) = IF i = Root THEN {} ELSE {n[i].parent} \cup Ancestors(m, n[i].parent)
  <2>1. i \in DOMAIN m /\ m[i].parent = n[i].parent
    OBVIOUS
  <2> QED BY <2>1, AncestorsUnfold
<1>2. Root \in S
  <2>1. Root \in DOMAIN n
    BY DEF Tree, Linked
  <2> QED BY <1>1, <2>1
<1>3. ASSUME NEW i \in DOMAIN n \ {Root}, n[i].parent \in S PROVE i \in S
  BY <1>1, <1>3
<1>4. DOMAIN n \subseteq S
  <2> HIDE DEF S
  <2> QED BY <1>2, <1>3, DownInduction
<1> QED BY <1>4

LEMMA BranchOf ==
  ASSUME NEW n, NEW dep, Tree(n, dep), NEW i \in DOMAIN n
  PROVE  /\ i \in Branch(n, i) /\ Branch(n, i) \subseteq DOMAIN n
         /\ \A j \in Branch(n, i) \ {i} : j # Root /\ n[j].parent \in Branch(n, i)
         /\ \A j \in Branch(n, i) : Kids(n, j) \subseteq Branch(n, i)
         /\ \A j \in DOMAIN n \ {Root} : n[j].parent \in Branch(n, i) => j \in Branch(n, i)
         /\ \A j \in Branch(n, i) : Branch(n, j) \subseteq Branch(n, i)
         /\ \A j \in Branch(n, i) : dep[i] <= dep[j] /\ (dep[i] = dep[j] => j = i)
         /\ Root \in Branch(n, i) => i = Root
<1>1. ASSUME NEW j \in DOMAIN n
      PROVE  /\ dep[j] \in 0 .. MaxDepth
             /\ Ancestors(n, j) = IF j = Root THEN {} ELSE {n[j].parent} \cup Ancestors(n, n[j].parent)
             /\ j # Root => n[j].parent \in DOMAIN n
             /\ \A a \in Ancestors(n, j) : dep[a] < dep[j] /\ Ancestors(n, a) \subseteq Ancestors(n, j)
             /\ \A c \in Kids(n, j) : c \in DOMAIN n \ {Root} /\ n[c].parent = j
  <2>1. j # Root => n[j].parent \in DOMAIN n
    BY DEF Tree, Linked
  <2> QED BY <2>1, AncestorsUnfold, AncestorsOf, KidsDeeper
<1>2. Branch(n, i) = {j \in DOMAIN n : j = i \/ i \in Ancestors(n, j)}
  BY DEF Branch, IsDescendant
<1>3. i \in Branch(n, i) /\ Branch(n, i) \subseteq DOMAIN n
  BY <1>2
<1>4. ASSUME NEW j \in Branch(n, i) \ {i} PROVE j # Root /\ n[j].parent \in Branch(n, i)
  <2>1. j \in DOMAIN n /\ i \in Ancestors(n, j)
    BY <1>2
  <2> QED BY <1>1, <1>2, <2>1
<1>5. ASSUME NEW j \in DOMAIN n \ {Root}, n[j].parent \in Branch(n, i) PROVE j \in Branch(n, i)
  BY <1>1, <1>2, <1>5
<1>6. ASSUME NEW j \in Branch(n, i) PROVE Kids(n, j) \subseteq Branch(n, i)
  <2> SUFFICES ASSUME NEW c \in Kids(n, j) PROVE c \in Branch(n, i)
    OBVIOUS
  <2>1. c \in DOMAIN n \ {Root} /\ n[c].parent = j
    BY <1>1, <1>3
  <2> QED BY <1>5, <2>1
<1>7. ASSUME NEW j \in Branch(n, i) PROVE Branch(n, j) \subseteq Branch(n, i)
  <2> SUFFICES ASSUME NEW k \in Branch(n, j) PROVE k \in Branch(n, i)
    OBVIOUS
  <2>1. k \in DOMAIN n /\ (k = j \/ j \in Ancestors(n, k))
    BY DEF Branch, IsDescendant
  <2>2. j = i \/ i \in Ancestors(n, j)
    BY <1>2
  <2> QED BY <1>1, <1>2, <2>1, <2>2
<1>8. ASSUME NEW j \in Branch(n, i) PROVE dep[i] <= dep[j] /\ (dep[i] = dep[j] => j = i)
  <2>1. j \in DOMAIN n /\ (j = i \/ dep[i] < dep[j]) /\ dep[i] \in Nat /\ dep[j] \in Nat
    BY <1>1, <1>2, MaxDepthNat
  <2> QED BY <2>1
<1>9. Root \in Branch(n, i) => i = Root
  BY <1>4
<1> QED BY <1>3, <1>4, <1>5, <1>6, <1>7, <1>8, <1>9

LEMMA HeightOf ==
  ASSUME NEW n, NEW dep, Tree(n, dep), NEW i \in DOMAIN n
  PROVE  Height(n, i) \in Nat /\ \A j \in Branch(n, i) : dep[j] <= dep[i] + Height(n, i)
<1> DEFINE H == {Depth(n, j) - Depth(n, i) : j \in Branch(n, i)}
<1>1. ASSUME NEW j \in Branch(n, i)
      PROVE  Depth(n, j) - Depth(n, i) = dep[j] - dep[i] /\ dep[j] - dep[i] \in 0 .. MaxDepth
  <2>1. j \in DOMAIN n /\ dep[i] <= dep[j]
    BY BranchOf
  <2>2. dep[i] \in 0 .. MaxDepth /\ dep[j] \in 0 .. MaxDepth
    BY <2>1, KidsDeeper
  <2>3. Depth(n, j) = dep[j] /\ Depth(n, i) = dep[i]
    BY <2>1, AncestorsOf
  <2> QED BY <2>1, <2>2, <2>3, MaxDepthNat
<1>2. i \in Branch(n, i)
  BY BranchOf
<1>3. H \subseteq 0 .. MaxDepth /\ H # {}
  BY <1>1, <1>2
<1>4. IsFiniteSet(H)
  <2>1. IsFiniteSet(0 .. MaxDepth)
    BY FS_Interval, MaxDepthNat
  <2> QED BY <1>3, <2>1, FS_Subset
<1>5. H \in SUBSET Int
  BY <1>3, MaxDepthNat
<1>6. Height(n, i) \in H /\ \A k \in H : k <= Height(n, i)
  <2>1. Height(n, i) = Highest(H)
    BY DEF Height
  <2> HIDE DEF H
  <2> QED BY <1>3, <1>4, <1>5, <2>1, HighestOf
<1>7. ASSUME NEW j \in Branch(n, i) PROVE dep[j] <= dep[i] + Height(n, i)
  <2>1. dep[j] - dep[i] \in H
    BY <1>1
  <2>2. dep[j] - dep[i] <= Height(n, i) /\ Height(n, i) \in 0 .. MaxDepth
    BY <1>3, <1>6, <2>1
  <2>3. j \in DOMAIN n
    BY BranchOf
  <2>4. dep[j] \in 0 .. MaxDepth /\ dep[i] \in 0 .. MaxDepth
    BY <2>3, KidsDeeper
  <2> QED BY <2>2, <2>4, MaxDepthNat
<1> QED BY <1>3, <1>6, <1>7, MaxDepthNat

\* The branches of two children of a node have nothing in common.
LEMMA KidsApart ==
  ASSUME NEW n, NEW dep, Tree(n, dep), NEW i \in DOMAIN n,
         NEW c \in Kids(n, i), NEW d \in Kids(n, i), c # d
  PROVE  Branch(n, c) \cap Branch(n, d) = {}
<1>1. /\ c \in DOMAIN n \ {Root} /\ n[c].parent = i /\ d \in DOMAIN n \ {Root} /\ n[d].parent = i
      /\ dep[c] = dep[i] + 1 /\ dep[d] = dep[i] + 1 /\ dep[i] \in Nat
  BY KidsDeeper, MaxDepthNat
<1> DEFINE S == {j \in DOMAIN n : ~(j \in Branch(n, c) /\ j \in Branch(n, d))}
<1>2. Root \in S
  <2>1. Root \in DOMAIN n
    BY DEF Tree, Linked
  <2> QED BY <1>1, <2>1, BranchOf
<1>3. ASSUME NEW j \in DOMAIN n \ {Root}, n[j].parent \in S PROVE j \in S
  <2> SUFFICES ASSUME j \in Branch(n, c), j \in Branch(n, d) PROVE FALSE
    OBVIOUS
  <2>1. i \notin Branch(n, c) /\ i \notin Branch(n, d)
    <3>1. ~(dep[c] <= dep[i]) /\ ~(dep[d] <= dep[i])
      BY <1>1
    <3> QED BY <1>1, <3>1, BranchOf
  <2>2. CASE j = c
    <3>1. j \in Branch(n, d) \ {d}
      BY <2>2
    <3>2. n[j].parent \in Branch(n, d)
      BY <1>1, <3>1, BranchOf
    <3> QED BY <1>1, <2>1, <2>2, <3>2
  <2>3. CASE j = d
    <3>1. j \in Branch(n, c) \ {c}
      BY <2>3
    <3>2. n[j].parent \in Branch(n, c)
      BY <1>1, <3>1, BranchOf
    <3> QED BY <1>1, <2>1, <2>3, <3>2
  <2>4. CASE j # c /\ j # d
    <3>1. n[j].parent \in Branch(n, c) /\ n[j].parent \in Branch(n, d)
      BY <1>1, <2>4, BranchOf
    <3> QED BY <1>3, <3>1
  <2> QED BY <2>2, <2>3, <2>4
<1>4. DOMAIN n \subseteq S
  <2> HIDE DEF S
  <2> QED BY <1>2, <1>3, DownInduction
<1>5. Branch(n, c) \subseteq DOMAIN n
  BY <1>1, BranchOf
<1> QED BY <1>4, <1>5

-----------------------------------------------------------------------------
(***************************************************************************)
(* What rebuild aggregates.                                                *)
(***************************************************************************)
Aggregates(n, f) ==
  f = [i \in DOMAIN n |->
        LET tasks == {t \in {f[c] : c \in Kids(n, i)} : t.task}
        IN IF n[i].kind = "text" /\ ~n[i].meeting /\ tasks # {}
             THEN [n[i] EXCEPT !.task = TRUE, !.checked = \A t \in tasks : t.checked]
             ELSE n[i]]

LEMMA AggregatesExists ==
  ASSUME NEW n, NEW dep, Tree(n, dep)
  PROVE  \E f : Aggregates(n, f)
<1> DEFINE Tasks(f, i) == {t \in {f[c] : c \in Kids(n, i)} : t.task}
           Value(f, i) == IF n[i].kind = "text" /\ ~n[i].meeting /\ Tasks(f, i) # {}
                            THEN [n[i] EXCEPT !.task = TRUE, !.checked = \A t \in Tasks(f, i) : t.checked]
                            ELSE n[i]
           Upto(f, k) == \A i \in DOMAIN n : MaxDepth <= dep[i] + k => f[i] = Value(f, i)
           Solved == {k \in Nat : \E f : f = [i \in DOMAIN n |-> f[i]] /\ Upto(f, k)}
<1>1. ASSUME NEW i \in DOMAIN n
      PROVE  dep[i] \in 0 .. MaxDepth /\ \A c \in Kids(n, i) : c \in DOMAIN n /\ dep[c] = dep[i] + 1
  BY KidsDeeper
<1>2. ASSUME NEW f, NEW g, NEW i, \A c \in Kids(n, i) : f[c] = g[c]
      PROVE  Value(f, i) = Value(g, i)
  <2>1. {f[c] : c \in Kids(n, i)} = {g[c] : c \in Kids(n, i)}
    BY <1>2
  <2>2. Tasks(f, i) = Tasks(g, i)
    BY <2>1
  <2> HIDE DEF Tasks
  <2> QED BY <2>2
<1> HIDE DEF Value
<1>3. 0 \in Solved
  <2> DEFINE e == [i \in DOMAIN n |-> n[i]]
             f == [i \in DOMAIN n |-> Value(e, i)]
  <2>1. ASSUME NEW i \in DOMAIN n, MaxDepth <= dep[i] + 0 PROVE f[i] = Value(f, i)
    <3>1. Kids(n, i) = {}
      BY <1>1, <2>1, MaxDepthNat
    <3>2. Value(f, i) = Value(e, i)
      BY <1>2, <3>1
    <3> QED BY <3>2
  <2>2. f = [i \in DOMAIN n |-> f[i]] /\ Upto(f, 0)
    BY <2>1
  <2> HIDE DEF f
  <2> QED BY <2>2
<1>4. ASSUME NEW k \in Solved PROVE k + 1 \in Solved
  <2>1. PICK f : f = [i \in DOMAIN n |-> f[i]] /\ Upto(f, k)
    OBVIOUS
  <2> DEFINE g == [i \in DOMAIN n |-> IF MaxDepth = dep[i] + (k + 1) THEN Value(f, i) ELSE f[i]]
  <2>2. ASSUME NEW i \in DOMAIN n, MaxDepth <= dep[i] + (k + 1) PROVE g[i] = Value(g, i)
    <3>1. \A c \in Kids(n, i) : g[c] = f[c]
      BY <1>1, <2>2, MaxDepthNat
    <3>2. Value(g, i) = Value(f, i)
      BY <1>2, <3>1
    <3>3. g[i] = Value(f, i)
      <4>1. CASE MaxDepth = dep[i] + (k + 1)
        BY <4>1
      <4>2. CASE MaxDepth # dep[i] + (k + 1)
        <5>1. MaxDepth <= dep[i] + k
          BY <1>1, <2>2, <4>2, MaxDepthNat
        <5>2. f[i] = Value(f, i)
          BY <2>1, <5>1
        <5> QED BY <4>2, <5>2
      <4> QED BY <4>1, <4>2
    <3> HIDE DEF g
    <3> QED BY <3>2, <3>3
  <2>3. g = [i \in DOMAIN n |-> g[i]] /\ Upto(g, k + 1)
    BY <2>2
  <2> HIDE DEF g
  <2> QED BY <2>3
<1>5. MaxDepth \in Solved
  <2> HIDE DEF Solved
  <2>1. Solved \in SUBSET Nat
    BY DEF Solved
  <2>2. Solved = Nat
    BY <1>3, <1>4, <2>1, InductiveSet
  <2> QED BY <2>2, MaxDepthNat
<1>6. PICK f : f = [i \in DOMAIN n |-> f[i]] /\ Upto(f, MaxDepth)
  BY <1>5
<1>7. \A i \in DOMAIN n : f[i] = Value(f, i)
  BY <1>1, <1>6, MaxDepthNat
<1>8. f = [i \in DOMAIN n |-> Value(f, i)]
  <2> HIDE DEF Value
  <2> QED BY <1>6, <1>7
<1>9. Aggregates(n, f)
  BY <1>8 DEF Aggregates, Value
<1> QED BY <1>9

\* Two trees with the same links.
Alike(m, n) ==
  /\ DOMAIN m = DOMAIN n
  /\ \A i \in DOMAIN n : /\ m[i].syncId = n[i].syncId /\ m[i].parent = n[i].parent
                         /\ m[i].children = n[i].children

LEMMA AlikeTree ==
  ASSUME NEW n, NEW dep, Tree(n, dep), NEW m, m \in [DOMAIN n -> Node], Alike(m, n)
  PROVE  /\ Tree(m, dep) /\ \A i \in DOMAIN n : Kids(m, i) = Kids(n, i)
         /\ IdentitiesOf(m) = IdentitiesOf(n)
         /\ \A i \in DOMAIN n : Ancestors(m, i) = Ancestors(n, i) /\ Depth(m, i) = Depth(n, i)
<1>1. /\ DOMAIN m = DOMAIN n
      /\ \A i \in DOMAIN n : m[i].parent = n[i].parent /\ m[i].syncId = n[i].syncId
      /\ \A i \in DOMAIN n : Kids(m, i) = Kids(n, i)
  BY DEF Alike, Kids
<1>2. Typed(m)
  BY <1>1 DEF Tree, Typed
<1>3. Linked(m)
  BY <1>1 DEF Tree, Linked
<1>4. Levels(m, dep)
  BY <1>1 DEF Tree, Levels
<1>5. Tree(m, dep)
  BY <1>2, <1>3, <1>4 DEF Tree
<1>6. \A i \in DOMAIN n : Ancestors(m, i) = Ancestors(n, i)
  BY <1>1, <1>5, SameAncestors
<1>7. IdentitiesOf(m) = IdentitiesOf(n)
  BY <1>1 DEF IdentitiesOf
<1> QED BY <1>1, <1>5, <1>6, <1>7 DEF Depth

TasksOf(n, i) == {c \in Kids(n, i) : n[c].task}

Settled(n) ==
  \A i \in DOMAIN n :
    n[i].kind = "text" /\ ~n[i].meeting /\ TasksOf(n, i) # {}
      => n[i].task /\ (n[i].checked <=> \A c \in TasksOf(n, i) : n[c].checked)

ValidNodes(n) == \A i \in DOMAIN n : ValidNode(n[i])

LEMMA AggregatedIs ==
  ASSUME NEW n, NEW dep, Tree(n, dep)
  PROVE  /\ Aggregates(n, Aggregated(n)) /\ Alike(Aggregated(n), n)
         /\ Aggregated(n) \in [DOMAIN n -> Node]
         /\ \A i \in DOMAIN n : /\ Aggregated(n)[i].kind = n[i].kind
                                /\ Aggregated(n)[i].meeting = n[i].meeting
                                /\ Aggregated(n)[i].folded = n[i].folded
                                /\ Aggregated(n)[i].content = n[i].content
         /\ Settled(Aggregated(n))
         /\ ValidNodes(n) => ValidNodes(Aggregated(n))
<1> DEFINE f == CHOOSE g : Aggregates(n, g)
           N == Aggregated(n)
           Tasks(i) == {t \in {N[c] : c \in Kids(n, i)} : t.task}
<1>1. Aggregates(n, f)
  BY AggregatesExists
<1>2. N = f
  <2>1. N = Table([i \in DOMAIN n |-> f[i]])
    BY DEF Aggregated, Aggregates
  <2>2. f = [i \in DOMAIN n |-> f[i]]
    BY <1>1 DEF Aggregates
  <2> QED BY <2>1, <2>2, TableIs
<1>3. Aggregates(n, N)
  BY <1>1, <1>2
<1> HIDE DEF f, N
<1>4. DOMAIN N = DOMAIN n
  BY <1>3 DEF Aggregates
<1>5. ASSUME NEW i \in DOMAIN n
      PROVE  N[i] = IF n[i].kind = "text" /\ ~n[i].meeting /\ Tasks(i) # {}
                      THEN [n[i] EXCEPT !.task = TRUE, !.checked = \A t \in Tasks(i) : t.checked]
                      ELSE n[i]
  BY <1>3 DEF Aggregates
<1> HIDE DEF Tasks
<1>6. \A i \in DOMAIN n : n[i] \in Node
  BY DEF Tree, Typed
<1>7. ASSUME NEW i \in DOMAIN n
      PROVE  /\ N[i] \in Node
             /\ N[i].syncId = n[i].syncId /\ N[i].parent = n[i].parent /\ N[i].children = n[i].children
             /\ N[i].kind = n[i].kind /\ N[i].meeting = n[i].meeting
             /\ N[i].folded = n[i].folded /\ N[i].content = n[i].content
             /\ ValidNode(n[i]) => ValidNode(N[i])
             /\ n[i].kind = "text" /\ ~n[i].meeting /\ Tasks(i) # {}
                  => N[i].task /\ (N[i].checked <=> \A t \in Tasks(i) : t.checked)
  <2> DEFINE all == \A t \in Tasks(i) : t.checked
  <2>1. all \in BOOLEAN
    OBVIOUS
  <2>2. N[i] = IF n[i].kind = "text" /\ ~n[i].meeting /\ Tasks(i) # {}
                 THEN [n[i] EXCEPT !.task = TRUE, !.checked = all] ELSE n[i]
    BY <1>5
  <2> HIDE DEF all
  <2>3. /\ N[i] \in Node
        /\ N[i].syncId = n[i].syncId /\ N[i].parent = n[i].parent /\ N[i].children = n[i].children
        /\ N[i].kind = n[i].kind /\ N[i].meeting = n[i].meeting
        /\ N[i].folded = n[i].folded /\ N[i].content = n[i].content
        /\ n[i].kind = "text" /\ ~n[i].meeting /\ Tasks(i) # {} => N[i].task /\ N[i].checked = all
    BY <1>6, <2>1, <2>2 DEF Node
  <2>4. ValidNode(n[i]) => ValidNode(N[i])
    BY <1>6, <2>1, <2>2 DEF Node, ValidNode, Kind
  <2> QED BY <2>3, <2>4 DEF all
<1>8. Alike(N, n)
  BY <1>4, <1>7 DEF Alike
<1>9. N \in [DOMAIN n -> Node]
  <2>1. N = [i \in DOMAIN n |-> N[i]]
    BY <1>3 DEF Aggregates
  <2> QED BY <1>7, <2>1
<1>10. Settled(N)
  <2> SUFFICES ASSUME NEW i \in DOMAIN n, N[i].kind = "text", ~N[i].meeting, TasksOf(N, i) # {}
               PROVE  N[i].task /\ (N[i].checked <=> \A c \in TasksOf(N, i) : N[c].checked)
    BY <1>4 DEF Settled
  <2>1. Kids(N, i) = Kids(n, i)
    BY <1>7 DEF Kids
  <2>2. Tasks(i) = {N[c] : c \in TasksOf(N, i)}
    BY <2>1 DEF Tasks, TasksOf
  <2>3. Tasks(i) # {} /\ ((\A t \in Tasks(i) : t.checked) <=> \A c \in TasksOf(N, i) : N[c].checked)
    BY <2>2
  <2>4. n[i].kind = "text" /\ ~n[i].meeting
    BY <1>7
  <2> QED BY <1>7, <2>3, <2>4
<1>11. ValidNodes(n) => ValidNodes(N)
  BY <1>4, <1>7 DEF ValidNodes
<1> QED BY <1>3, <1>7, <1>8, <1>9, <1>10, <1>11 DEF N

\* Nothing is left to aggregate where it is done.
LEMMA SettledStays ==
  ASSUME NEW n, NEW dep, Tree(n, dep), Settled(n)
  PROVE  Aggregated(n) = n
<1> DEFINE N == Aggregated(n)
           S == {i \in DOMAIN n : N[i] = n[i]}
           Tasks(i) == {t \in {N[c] : c \in Kids(n, i)} : t.task}
<1>1. Aggregates(n, N) /\ DOMAIN N = DOMAIN n
  BY AggregatedIs DEF Alike
<1>2. ASSUME NEW i \in DOMAIN n
      PROVE  N[i] = IF n[i].kind = "text" /\ ~n[i].meeting /\ Tasks(i) # {}
                      THEN [n[i] EXCEPT !.task = TRUE, !.checked = \A t \in Tasks(i) : t.checked]
                      ELSE n[i]
  <2> HIDE DEF N
  <2> QED BY <1>1 DEF Aggregates
<1> HIDE DEF N
<1>3. ASSUME NEW i \in DOMAIN n, Kids(n, i) \subseteq S PROVE i \in S
  <2>1. Tasks(i) = {n[c] : c \in TasksOf(n, i)}
    BY <1>3 DEF TasksOf
  <2>2. (\A t \in Tasks(i) : t.checked) <=> \A c \in TasksOf(n, i) : n[c].checked
    BY <2>1
  <2>3. n[i] \in Node
    BY DEF Tree, Typed
  <2> DEFINE all == \A t \in Tasks(i) : t.checked
  <2>4. CASE n[i].kind = "text" /\ ~n[i].meeting /\ Tasks(i) # {}
    <3>1. TasksOf(n, i) # {}
      BY <2>1, <2>4
    <3>2. n[i].task /\ (n[i].checked <=> all)
      BY <2>2, <2>4, <3>1 DEF Settled
    <3>3. n[i].task = TRUE /\ n[i].checked = all
      <4>1. n[i].task \in BOOLEAN /\ n[i].checked \in BOOLEAN /\ all \in BOOLEAN
        BY <2>3 DEF Node
      <4> HIDE DEF all
      <4> QED BY <3>2, <4>1
    <3>4. N[i] = [n[i] EXCEPT !.task = TRUE, !.checked = all]
      BY <1>2, <2>4
    <3> HIDE DEF all
    <3>5. N[i] = n[i]
      BY <2>3, <3>3, <3>4 DEF Node
    <3> QED BY <3>5
  <2>5. CASE ~(n[i].kind = "text" /\ ~n[i].meeting /\ Tasks(i) # {})
    <3>1. N[i] = n[i]
      BY <1>2, <2>5
    <3> QED BY <3>1
  <2> QED BY <2>4, <2>5
<1>4. DOMAIN n \subseteq S
  <2> HIDE DEF S
  <2> QED BY <1>3, UpInduction
<1>5. N = [i \in DOMAIN n |-> N[i]] /\ n = [i \in DOMAIN n |-> n[i]]
  BY <1>1 DEF Aggregates, Tree, Typed
<1>6. N = n
  BY <1>4, <1>5
<1> QED BY <1>6 DEF N

-----------------------------------------------------------------------------
(***************************************************************************)
(* Documents, and what rebuild makes of them.                              *)
(***************************************************************************)
IsTree(n) == \E dep : Tree(n, dep)

\* No two nodes have one identity.
Distinct(n) == \A i, j \in DOMAIN n : n[i].syncId = n[j].syncId => i = j

Joins(d) ==
  \A k \in DOMAIN d.connections :
    /\ d.connections[k][1] # d.connections[k][2]
    /\ d.connections[k][1] \in DOMAIN d.nodes /\ d.connections[k][2] \in DOMAIN d.nodes

\* A document as a command leaves it to rebuild.
Raw(d, uids) ==
  /\ IsDocument(d)
  /\ IsTree(d.nodes) /\ ValidNodes(d.nodes)
  /\ Distinct(d.nodes) /\ IdentitiesOf(d.nodes) \subseteq uids
  /\ Cardinality(DOMAIN d.nodes) <= MaxNodes
  /\ Joins(d)
  /\ ~(d.layout = "Compact" /\ d.manual)
  /\ DOMAIN d.nodes \subseteq 1 .. d.nextId - 1
  /\ d.selected = None => d.selection = {}

\* A document as the window and the history hold it.
Sound(d, uids) ==
  /\ Raw(d, uids)
  /\ Settled(d.nodes)
  /\ d.selected \in DOMAIN d.nodes \cup {None} /\ d.selection \subseteq DOMAIN d.nodes

\* The selection is of nodes that show.
OnDisplay(d) ==
  IF d.selected = None THEN d.selection = {}
  ELSE d.selected \in d.selection /\ d.selection \subseteq Unfolded(d.nodes)

LEMMA DeepestOf ==
  ASSUME NEW n, NEW dep, Tree(n, dep), NEW S \in SUBSET DOMAIN n, S # {}
  PROVE  Deepest(n, S) \in S
<1> DEFINE H == {dep[i] : i \in S}
<1>1. \A i \in DOMAIN n : Depth(n, i) = dep[i] /\ dep[i] \in 0 .. MaxDepth
  BY AncestorsOf, KidsDeeper
<1>2. H \subseteq 0 .. MaxDepth /\ H # {}
  BY <1>1
<1>3. IsFiniteSet(H) /\ H \in SUBSET Int
  <2>1. IsFiniteSet(0 .. MaxDepth) /\ 0 .. MaxDepth \subseteq Int
    BY FS_Interval, MaxDepthNat
  <2> QED BY <1>2, <2>1, FS_Subset
<1>4. Highest(H) \in H /\ \A k \in H : k <= Highest(H)
  <2> HIDE DEF H
  <2> QED BY <1>2, <1>3, HighestOf
<1>5. PICK i \in S : dep[i] = Highest(H)
  BY <1>4
<1>6. \A j \in S : dep[j] <= dep[i]
  BY <1>4, <1>5
<1>7. \A j \in S : Depth(n, j) <= Depth(n, i)
  BY <1>1, <1>6
<1> QED BY <1>7 DEF Deepest

LEMMA UnfoldedOf ==
  ASSUME NEW n, NEW dep, Tree(n, dep)
  PROVE  /\ Root \in Unfolded(n) /\ Unfolded(n) \subseteq DOMAIN n
         /\ \A s \in DOMAIN n \cup {None} : Shown(n, s) \in Unfolded(n) \cup {None}
         /\ \A s : (Shown(n, s) = None) <=> (s = None)
         /\ \A s : s # None => Shown(n, s) \in Unfolded(n)
<1>1. Root \in DOMAIN n
  BY DEF Tree, Linked
<1>2. Ancestors(n, Root) = {}
  BY <1>1, AncestorsUnfold
<1>3. Root \in Unfolded(n) /\ Unfolded(n) \subseteq DOMAIN n
  BY <1>1, <1>2 DEF Unfolded
<1>4. ASSUME NEW s, s # None PROVE Shown(n, s) \in Unfolded(n)
  <2>1. CASE s \notin DOMAIN n
    BY <1>3, <1>4, <2>1 DEF Shown
  <2>2. CASE s \in DOMAIN n
    <3> DEFINE S == ({s} \cup Ancestors(n, s)) \cap Unfolded(n)
    <3>1. Root \in S
      BY <1>3, <2>2, AncestorsOf
    <3>2. S \in SUBSET DOMAIN n
      BY <1>3
    <3>3. Shown(n, s) = Deepest(n, S)
      BY <1>4, <2>2 DEF Shown
    <3>4. Deepest(n, S) \in S
      <4> HIDE DEF S
      <4> QED BY <3>1, <3>2, DeepestOf
    <3> QED BY <3>3, <3>4
  <2> QED BY <2>1, <2>2
<1>5. None \notin DOMAIN n
  BY <1>1, KidsDeeper
<1>6. Shown(n, None) = None
  BY DEF Shown
<1> QED BY <1>3, <1>4, <1>5, <1>6

\* Unfolded nodes go by the links and the folds.
LEMMA SameUnfolded ==
  ASSUME NEW n, NEW dep, Tree(n, dep), NEW m, m \in [DOMAIN n -> Node], Alike(m, n),
         \A i \in DOMAIN n : m[i].folded = n[i].folded
  PROVE  Unfolded(m) = Unfolded(n)
<1>1. \A i \in DOMAIN n : Ancestors(m, i) = Ancestors(n, i) /\ Ancestors(n, i) \subseteq DOMAIN n
  BY AlikeTree, AncestorsOf
<1>2. DOMAIN m = DOMAIN n
  BY DEF Alike
<1> QED BY <1>1, <1>2 DEF Unfolded

LEMMA RebuildIs ==
  ASSUME NEW d, IsDocument(d)
  PROVE  /\ Rebuild(d).nodes = Aggregated(d.nodes)
         /\ Rebuild(d).connections = d.connections /\ Rebuild(d).layout = d.layout
         /\ Rebuild(d).manual = d.manual /\ Rebuild(d).look = d.look
         /\ Rebuild(d).nextId = d.nextId
         /\ Rebuild(d).selected = Shown(Aggregated(d.nodes), d.selected)
         /\ Rebuild(d).selection = (d.selection \cap Unfolded(Aggregated(d.nodes)))
                                     \cup ({Shown(Aggregated(d.nodes), d.selected)} \ {None})
         /\ DOMAIN Rebuild(d) = {"nodes", "connections", "layout", "manual", "look",
                                 "selected", "selection", "nextId"}
         /\ Rebuild(d) = [nodes |-> Rebuild(d).nodes, connections |-> Rebuild(d).connections,
                          layout |-> Rebuild(d).layout, manual |-> Rebuild(d).manual,
                          look |-> Rebuild(d).look, selected |-> Rebuild(d).selected,
                          selection |-> Rebuild(d).selection, nextId |-> Rebuild(d).nextId]
<1> DEFINE n == Aggregated(d.nodes)
           s == Shown(n, d.selected)
           t == (d.selection \cap Unfolded(n)) \cup ({s} \ {None})
<1>1. Rebuild(d) = [d EXCEPT !.nodes = n, !.selected = s, !.selection = t]
  BY DEF Rebuild
<1> HIDE DEF n, s, t
<1>2. /\ Rebuild(d).nodes = n /\ Rebuild(d).selected = s /\ Rebuild(d).selection = t
      /\ Rebuild(d).connections = d.connections /\ Rebuild(d).layout = d.layout
      /\ Rebuild(d).manual = d.manual /\ Rebuild(d).look = d.look
      /\ Rebuild(d).nextId = d.nextId
      /\ Rebuild(d) = [nodes |-> n, connections |-> d.connections,
                       layout |-> d.layout, manual |-> d.manual,
                       look |-> d.look, selected |-> s,
                       selection |-> t, nextId |-> d.nextId]
  BY <1>1 DEF IsDocument
<1> QED BY <1>2 DEF n, s, t

LEMMA RebuildSound ==
  ASSUME NEW d, NEW uids, Raw(d, uids)
  PROVE  Sound(Rebuild(d), uids) /\ OnDisplay(Rebuild(d))
<1> DEFINE r == Rebuild(d)
           n == Aggregated(d.nodes)
<1>1. IsDocument(d)
  BY DEF Raw
<1>2. /\ r.nodes = n /\ r.connections = d.connections /\ r.layout = d.layout
      /\ r.manual = d.manual /\ r.look = d.look /\ r.nextId = d.nextId
      /\ r.selected = Shown(n, d.selected)
      /\ r.selection = (d.selection \cap Unfolded(n)) \cup ({Shown(n, d.selected)} \ {None})
      /\ r = [nodes |-> r.nodes, connections |-> r.connections, layout |-> r.layout,
              manual |-> r.manual, look |-> r.look, selected |-> r.selected,
              selection |-> r.selection, nextId |-> r.nextId]
  BY <1>1, RebuildIs
<1>3. PICK dep : Tree(d.nodes, dep)
  BY DEF Raw, IsTree
<1>4. /\ Alike(n, d.nodes) /\ n \in [DOMAIN d.nodes -> Node] /\ Settled(n)
      /\ ValidNodes(d.nodes) => ValidNodes(n)
  BY <1>3, AggregatedIs
<1>5. Tree(n, dep) /\ DOMAIN n = DOMAIN d.nodes /\ IdentitiesOf(n) = IdentitiesOf(d.nodes)
      /\ \A i \in DOMAIN n : n[i].syncId = d.nodes[i].syncId
  BY <1>3, <1>4, AlikeTree DEF Alike
<1> HIDE DEF n, r
<1>6. /\ Unfolded(n) \subseteq DOMAIN n
      /\ (r.selected = None) <=> (d.selected = None)
      /\ d.selected # None => r.selected \in Unfolded(n)
  BY <1>2, <1>5, UnfoldedOf
<1>7. r.selected \in DOMAIN n \cup {None} /\ r.selection \subseteq DOMAIN n
  BY <1>2, <1>6
<1>8. DOMAIN n \subseteq Int /\ None \in Int
  BY <1>5 DEF Tree, Typed, None
<1>9. IsDocument(r)
  BY <1>1, <1>2, <1>7, <1>8 DEF IsDocument
<1>10. OnDisplay(r)
  <2>1. CASE d.selected = None
    <3>1. d.selection = {}
      BY <2>1 DEF Raw
    <3> QED BY <1>2, <1>6, <2>1, <3>1 DEF OnDisplay
  <2>2. CASE d.selected # None
    BY <1>2, <1>6, <2>2 DEF OnDisplay
  <2> QED BY <2>1, <2>2
<1>11. Raw(r, uids)
  <2>1. IsTree(r.nodes) /\ ValidNodes(r.nodes)
    BY <1>2, <1>4, <1>5 DEF IsTree, Raw
  <2>2. Distinct(r.nodes) /\ IdentitiesOf(r.nodes) \subseteq uids
    BY <1>2, <1>5 DEF Distinct, Raw
  <2>3. Joins(r)
    BY <1>2, <1>5 DEF Joins, Raw
  <2>4. r.selected = None => r.selection = {}
    BY <1>10 DEF OnDisplay
  <2>5. /\ Cardinality(DOMAIN r.nodes) <= MaxNodes
        /\ ~(r.layout = "Compact" /\ r.manual)
        /\ DOMAIN r.nodes \subseteq 1 .. r.nextId - 1
    BY <1>2, <1>5 DEF Raw
  <2> QED BY <1>9, <2>1, <2>2, <2>3, <2>4, <2>5 DEF Raw
<1>12. Sound(r, uids)
  BY <1>2, <1>4, <1>7, <1>11 DEF Sound
<1> QED BY <1>10, <1>12 DEF r

\* To rebuild a sound document changes nothing that a file holds.
LEMMA RebuildKeeps ==
  ASSUME NEW d, NEW uids, Sound(d, uids)
  PROVE  Bytes(Rebuild(d)) = Bytes(d)
<1>1. PICK dep : Tree(d.nodes, dep)
  BY DEF Sound, Raw, IsTree
<1>2. Aggregated(d.nodes) = d.nodes
  BY <1>1, SettledStays DEF Sound
<1>3. IsDocument(d)
  BY DEF Sound, Raw
<1> QED BY <1>2, <1>3, RebuildIs DEF Bytes

-----------------------------------------------------------------------------
(***************************************************************************)
(* The loader accepts trees, and every tree.                               *)
(***************************************************************************)
LEMMA DistinctCounts ==
  ASSUME NEW n, IsFiniteSet(DOMAIN n)
  PROVE  /\ (Cardinality(IdentitiesOf(n)) = Cardinality(DOMAIN n)) <=> Distinct(n)
         /\ IsFiniteSet(IdentitiesOf(n))
<1> DEFINE f == [i \in DOMAIN n |-> n[i].syncId]
<1>1. f \in Surjection(DOMAIN n, IdentitiesOf(n))
  BY DEF Surjection, IdentitiesOf
<1>2. /\ IsFiniteSet(IdentitiesOf(n))
      /\ Cardinality(IdentitiesOf(n)) = Cardinality(DOMAIN n)
           <=> f \in Injection(DOMAIN n, IdentitiesOf(n))
  <2> HIDE DEF f
  <2> QED BY <1>1, FS_Surjection
<1>3. f \in Injection(DOMAIN n, IdentitiesOf(n)) <=> Distinct(n)
  <2>1. f \in [DOMAIN n -> IdentitiesOf(n)]
    BY DEF IdentitiesOf
  <2> QED BY <2>1 DEF Injection, IsInjective, Distinct
<1> QED BY <1>2, <1>3

LEMMA TypedRecords ==
  ASSUME NEW n, Typed(n)
  PROVE  Records(n)
<1> SUFFICES ASSUME NEW i \in DOMAIN n PROVE Record(n[i])
  BY DEF Typed, Records
<1>1. n[i] \in Node
  BY DEF Typed
<1>2. n[i].children \in Seq(ToSet(n[i].children))
  BY <1>1, MembersOf DEF Node
<1> QED BY <1>1, <1>2 DEF Node, Record

Leveling(n, f) ==
  f = [k \in 0 .. MaxDepth |->
        IF k = 0 THEN {Root} ELSE UNION {Kids(n, i) : i \in f[k - 1]}]

LEMMA LevelingExists ==
  ASSUME NEW n
  PROVE  \E f : Leveling(n, f)
<1> DEFINE Value(f, k) == IF k = 0 THEN {Root} ELSE UNION {Kids(n, i) : i \in f[k - 1]}
           Solved == {m \in Nat : \E f : f = [k \in 0 .. m |-> Value(f, k)]}
<1>1. 0 \in Solved
  <2>1. [k \in 0 .. 0 |-> {Root}] = [k \in 0 .. 0 |-> Value([j \in 0 .. 0 |-> {Root}], k)]
    OBVIOUS
  <2> QED BY <2>1
<1>2. ASSUME NEW m \in Solved PROVE m + 1 \in Solved
  <2>1. PICK f : f = [k \in 0 .. m |-> Value(f, k)]
    OBVIOUS
  <2> DEFINE g == [k \in 0 .. m + 1 |-> IF k = m + 1 THEN Value(f, k) ELSE f[k]]
  <2>2. ASSUME NEW k \in 0 .. m + 1 PROVE g[k] = Value(g, k)
    <3>1. k # 0 => k - 1 \in 0 .. m + 1 /\ k - 1 # m + 1
      OBVIOUS
    <3>2. k # 0 => g[k - 1] = f[k - 1]
      BY <3>1
    <3>3. Value(g, k) = Value(f, k)
      BY <3>2
    <3>4. CASE k = m + 1
      <4>1. g[k] = Value(f, k)
        BY <3>4
      <4> QED BY <3>3, <4>1
    <3>5. CASE k # m + 1
      <4>1. k \in 0 .. m
        BY <3>5
      <4>2. f[k] = Value(f, k)
        BY <2>1, <4>1
      <4>3. g[k] = f[k]
        BY <3>5
      <4> QED BY <3>3, <4>2, <4>3
    <3> QED BY <3>4, <3>5
  <2>3. g = [k \in 0 .. m + 1 |-> g[k]]
    OBVIOUS
  <2> HIDE DEF g, Value
  <2>4. g = [k \in 0 .. m + 1 |-> Value(g, k)]
    BY <2>2, <2>3
  <2> QED BY <2>4
<1>3. MaxDepth \in Solved
  <2> HIDE DEF Solved
  <2>1. Solved \in SUBSET Nat
    BY DEF Solved
  <2>2. Solved = Nat
    BY <1>1, <1>2, <2>1, InductiveSet
  <2> QED BY <2>2, MaxDepthNat
<1> QED BY <1>3 DEF Leveling

LEMMA LevelsOf ==
  ASSUME NEW n, ValidTree(n)
  PROVE  \E f : /\ Leveling(n, f) /\ UNION {f[k] : k \in 0 .. MaxDepth} = DOMAIN n
                /\ \A i \in f[MaxDepth] : n[i].children = <<>>
<1> DEFINE f == CHOOSE g : Leveling(n, g)
<1>1. Leveling(n, f)
  BY LevelingExists
<1>2. /\ UNION {f[k] : k \in 0 .. MaxDepth} = DOMAIN n
      /\ \A i \in f[MaxDepth] : n[i].children = <<>>
  BY DEF ValidTree, Leveling
<1> QED BY <1>1, <1>2

LEMMA ValidIsTree ==
  ASSUME NEW n, Records(n), ValidTree(n)
  PROVE  IsTree(n)
<1>1. PICK f : /\ Leveling(n, f) /\ UNION {f[k] : k \in 0 .. MaxDepth} = DOMAIN n
               /\ \A i \in f[MaxDepth] : n[i].children = <<>>
  BY LevelsOf
<1>2. /\ Root \in DOMAIN n /\ n[Root].parent = None
      /\ \A i \in DOMAIN n : \A c \in Kids(n, i) : c \in DOMAIN n /\ n[c].parent = i
  BY DEF ValidTree
<1>3. None \notin DOMAIN n /\ DOMAIN n \subseteq Nat \ {0}
  BY DEF Records, None
<1>4. f[0] = {Root} /\ \A k \in 1 .. MaxDepth : f[k] = UNION {Kids(n, i) : i \in f[k - 1]}
  BY <1>1, MaxDepthNat DEF Leveling
<1>5. \A k \in 0 .. MaxDepth : f[k] \subseteq DOMAIN n
  BY <1>1
<1>6. ASSUME NEW k \in 1 .. MaxDepth, NEW i \in f[k]
      PROVE  k - 1 \in 0 .. MaxDepth /\ i # Root /\ i \in DOMAIN n
             /\ n[i].parent \in f[k - 1] /\ i \in Kids(n, n[i].parent)
  <2>1. k - 1 \in 0 .. MaxDepth
    BY MaxDepthNat
  <2>2. PICK j \in f[k - 1] : i \in Kids(n, j)
    BY <1>4
  <2>3. j \in DOMAIN n
    BY <1>5, <2>1, <2>2
  <2>4. i \in DOMAIN n /\ n[i].parent = j
    BY <1>2, <2>2, <2>3
  <2>5. i # Root
    BY <1>2, <1>3, <2>3, <2>4
  <2> QED BY <2>1, <2>2, <2>4, <2>5
<1> DEFINE Once1(k) == \A i \in f[k] : \A m \in 0 .. MaxDepth : i \in f[m] => m = k
           Done == {k \in Nat : k <= MaxDepth => Once1(k)}
<1>7. 0 \in Done
  <2> SUFFICES ASSUME NEW i \in f[0], NEW m \in 0 .. MaxDepth, i \in f[m] PROVE m = 0
    OBVIOUS
  <2>1. i = Root
    BY <1>4
  <2> QED BY <1>6, <2>1, MaxDepthNat
<1>8. ASSUME NEW k \in Done PROVE k + 1 \in Done
  <2> SUFFICES ASSUME k + 1 <= MaxDepth, NEW i \in f[k + 1], NEW m \in 0 .. MaxDepth, i \in f[m]
               PROVE  m = k + 1
    OBVIOUS
  <2>1. k \in Nat /\ k + 1 \in 1 .. MaxDepth /\ k + 1 - 1 = k /\ k <= MaxDepth
    BY MaxDepthNat
  <2>2. i # Root /\ n[i].parent \in f[k]
    BY <1>6, <2>1
  <2>3. m # 0
    BY <1>4, <2>2
  <2>4. m \in 1 .. MaxDepth
    BY <2>3, MaxDepthNat
  <2>5. n[i].parent \in f[m - 1] /\ m - 1 \in 0 .. MaxDepth
    BY <1>6, <2>4
  <2>6. m - 1 = k
    BY <2>1, <2>2, <2>5
  <2> QED BY <2>1, <2>4, <2>6
<1>9. ASSUME NEW k \in 0 .. MaxDepth, NEW m \in 0 .. MaxDepth, NEW i \in f[k], i \in f[m] PROVE m = k
  <2>1. Done = Nat
    <3> HIDE DEF Done
    <3>1. Done \in SUBSET Nat
      BY DEF Done
    <3> QED BY <1>7, <1>8, <3>1, InductiveSet
  <2>2. k \in Done /\ k <= MaxDepth
    BY <2>1, MaxDepthNat
  <2> QED BY <1>9, <2>2
<1> DEFINE dep == [i \in DOMAIN n |-> CHOOSE k \in 0 .. MaxDepth : i \in f[k]]
<1>10. ASSUME NEW i \in DOMAIN n PROVE dep[i] \in 0 .. MaxDepth /\ i \in f[dep[i]]
  <2>1. \E k \in 0 .. MaxDepth : i \in f[k]
    BY <1>1
  <2> QED BY <2>1
<1>11. dep \in [DOMAIN n -> 0 .. MaxDepth]
  BY <1>10
<1> HIDE DEF dep
<1>12. dep[Root] = 0
  <2>1. Root \in f[0] /\ 0 \in 0 .. MaxDepth
    BY <1>4, MaxDepthNat
  <2> QED BY <1>2, <1>9, <1>10, <2>1
<1>13. ASSUME NEW i \in DOMAIN n \ {Root}
       PROVE  /\ n[i].parent \in DOMAIN n /\ i \in Kids(n, n[i].parent)
              /\ dep[i] = dep[n[i].parent] + 1
  <2>1. dep[i] # 0
    BY <1>4, <1>10
  <2>2. dep[i] \in 1 .. MaxDepth /\ i \in f[dep[i]]
    BY <1>10, <2>1, MaxDepthNat
  <2>3. /\ dep[i] - 1 \in 0 .. MaxDepth
        /\ n[i].parent \in f[dep[i] - 1] /\ i \in Kids(n, n[i].parent)
    BY <1>6, <2>2
  <2>4. n[i].parent \in DOMAIN n
    BY <1>5, <2>3
  <2>5. dep[n[i].parent] = dep[i] - 1
    BY <1>9, <1>10, <2>3, <2>4
  <2> QED BY <2>2, <2>3, <2>4, <2>5, MaxDepthNat
<1>14. Linked(n) /\ Levels(n, dep)
  BY <1>2, <1>11, <1>12, <1>13 DEF Linked, Levels
<1>15. Typed(n)
  <2> SUFFICES ASSUME NEW i \in DOMAIN n PROVE n[i] \in Node
    BY DEF Typed, Records
  <2>1. Record(n[i])
    BY DEF Records
  <2>2. n[i].parent \in Int
    BY <1>2, <1>3, <1>13 DEF None
  <2>3. ToSet(n[i].children) \subseteq Int
    BY <1>2, <1>3 DEF Kids
  <2>4. n[i].children \in Seq(Int)
    BY <2>1, <2>3 DEF Record
  <2> QED BY <2>1, <2>2, <2>4 DEF Record, Node
<1> QED BY <1>14, <1>15 DEF Tree, IsTree

LEMMA TreeIsValid ==
  ASSUME NEW n, NEW dep, Tree(n, dep)
  PROVE  ValidTree(n)
<1> DEFINE f == CHOOSE g : Leveling(n, g)
<1>1. Leveling(n, f)
  BY LevelingExists
<1> HIDE DEF f
<1>2. f[0] = {Root} /\ \A k \in 1 .. MaxDepth : f[k] = UNION {Kids(n, i) : i \in f[k - 1]}
  BY <1>1, MaxDepthNat DEF Leveling
<1>3. ASSUME NEW i \in DOMAIN n
      PROVE  /\ dep[i] \in 0 .. MaxDepth
             /\ i # Root => n[i].parent \in DOMAIN n /\ i \in Kids(n, n[i].parent)
                            /\ dep[i] = dep[n[i].parent] + 1
             /\ \A c \in Kids(n, i) : c \in DOMAIN n /\ dep[c] = dep[i] + 1
  BY KidsDeeper DEF Tree, Linked, Levels
<1>4. Root \in DOMAIN n /\ dep[Root] = 0
  BY DEF Tree, Linked, Levels
<1> DEFINE At(k) == {i \in DOMAIN n : dep[i] = k}
           Done == {k \in Nat : k <= MaxDepth => f[k] = At(k)}
<1>5. 0 \in Done
  <2>1. ASSUME NEW i \in DOMAIN n, dep[i] = 0 PROVE i = Root
    <3> SUFFICES ASSUME i # Root PROVE FALSE
      OBVIOUS
    <3>1. dep[n[i].parent] \in Nat /\ dep[i] = dep[n[i].parent] + 1
      BY <1>3, MaxDepthNat
    <3> QED BY <2>1, <3>1
  <2> QED BY <1>2, <1>4, <2>1
<1>6. ASSUME NEW k \in Done PROVE k + 1 \in Done
  <2> SUFFICES ASSUME k + 1 <= MaxDepth PROVE f[k + 1] = At(k + 1)
    OBVIOUS
  <2>1. k \in Nat /\ k + 1 \in 1 .. MaxDepth /\ k + 1 - 1 = k /\ k <= MaxDepth
    BY MaxDepthNat
  <2>2. f[k] = At(k)
    BY <2>1
  <2>3. f[k + 1] = UNION {Kids(n, i) : i \in At(k)}
    BY <1>2, <2>1, <2>2
  <2>4. UNION {Kids(n, i) : i \in At(k)} \subseteq At(k + 1)
    BY <1>3
  <2>5. ASSUME NEW i \in At(k + 1) PROVE i \in UNION {Kids(n, j) : j \in At(k)}
    <3>1. i \in DOMAIN n /\ dep[i] = k + 1
      OBVIOUS
    <3>2. i # Root
      BY <1>4, <2>1, <3>1
    <3>3. n[i].parent \in DOMAIN n /\ i \in Kids(n, n[i].parent) /\ dep[i] = dep[n[i].parent] + 1
      BY <1>3, <3>2
    <3>4. dep[n[i].parent] = k
      BY <1>3, <2>1, <3>1, <3>3, MaxDepthNat
    <3> QED BY <3>3, <3>4
  <2> QED BY <2>3, <2>4, <2>5
<1>7. Done = Nat
  <2> HIDE DEF Done
  <2>1. Done \in SUBSET Nat
    BY DEF Done
  <2> QED BY <1>5, <1>6, <2>1, InductiveSet
<1>8. ASSUME NEW k \in 0 .. MaxDepth PROVE f[k] = At(k)
  <2>1. k \in Done
    BY <1>7, MaxDepthNat
  <2> QED BY <2>1, MaxDepthNat
<1>9. UNION {f[k] : k \in 0 .. MaxDepth} = DOMAIN n
  BY <1>3, <1>8
<1>10. ASSUME NEW i \in f[MaxDepth] PROVE n[i].children = <<>>
  <2>1. i \in DOMAIN n /\ dep[i] = MaxDepth
    BY <1>8, MaxDepthNat
  <2>2. Kids(n, i) = {}
    BY <1>3, <2>1, MaxDepthNat
  <2>3. n[i].children \in Seq(Int)
    BY <2>1 DEF Tree, Typed, Node
  <2> QED BY <2>2, <2>3, MembersOf DEF Kids
<1>11. /\ Root \in DOMAIN n /\ n[Root].parent = None
       /\ \A i \in DOMAIN n : \A c \in Kids(n, i) : c \in DOMAIN n /\ n[c].parent = i
  BY DEF Tree, Linked
<1> QED BY <1>9, <1>10, <1>11 DEF ValidTree, Leveling, f

LEMMA LoadedSound ==
  ASSUME NEW b, IsFile(b), Loadable(b), NEW uids, IdentitiesOf(b.nodes) \subseteq uids
  PROVE  /\ Sound(Loaded(b), uids) /\ OnDisplay(Loaded(b)) /\ Alike(Loaded(b).nodes, b.nodes)
         /\ Loaded(b).nodes = Aggregated(b.nodes) /\ IsTree(b.nodes)
         /\ Loaded(b).layout = b.layout /\ Loaded(b).manual = b.manual /\ Loaded(b).look = b.look
         /\ Loaded(b).connections = [k \in DOMAIN b.connections |-> Oriented(b.connections[k])]
<1> DEFINE es == [k \in DOMAIN b.connections |-> Oriented(b.connections[k])]
           d  == [nodes |-> b.nodes, connections |-> es, layout |-> b.layout,
                  manual |-> b.manual, look |-> b.look, selected |-> Root,
                  selection |-> {Root}, nextId |-> Highest(DOMAIN b.nodes) + 1]
<1>1. Loaded(b) = Rebuild(d)
  BY DEF Loaded
<1>2. PICK dep : Tree(b.nodes, dep)
  BY ValidIsTree DEF IsFile, Loadable, IsTree
<1>3. /\ \A i \in DOMAIN b.nodes : ValidNode(b.nodes[i])
      /\ ~(b.layout = "Compact" /\ b.manual)
      /\ Cardinality(DOMAIN b.nodes) <= MaxNodes
      /\ Distinct(b.nodes)
  <2>1. IsFiniteSet(DOMAIN b.nodes)
    BY DEF IsFile, Records
  <2> QED BY <2>1, DistinctCounts DEF Loadable
<1>4. DOMAIN b.nodes \in SUBSET Int /\ IsFiniteSet(DOMAIN b.nodes) /\ DOMAIN b.nodes # {}
      /\ DOMAIN b.nodes \subseteq Nat \ {0}
  BY <1>2 DEF Tree, Typed, Linked
<1> DEFINE top == Highest(DOMAIN b.nodes)
<1>5. top \in Nat \ {0} /\ \A i \in DOMAIN b.nodes : i \in 1 .. top + 1 - 1
  <2>1. Highest(DOMAIN b.nodes) \in DOMAIN b.nodes /\ \A i \in DOMAIN b.nodes : i <= Highest(DOMAIN b.nodes)
    BY <1>4, HighestOf
  <2> QED BY <1>4, <2>1
<1> HIDE DEF top
<1>6. ASSUME NEW k \in DOMAIN b.connections
      PROVE  /\ es[k] \in Int \X Int /\ es[k][1] # es[k][2]
             /\ es[k][1] \in DOMAIN b.nodes /\ es[k][2] \in DOMAIN b.nodes
  <2> DEFINE e == b.connections[k]
  <2>1. e = <<e[1], e[2]>> /\ e[1] # e[2] /\ e[1] \in DOMAIN b.nodes /\ e[2] \in DOMAIN b.nodes
    BY DEF IsFile, Loadable, ValidConnections
  <2>2. es[k] = IF e[1] > e[2] THEN <<e[2], e[1]>> ELSE e
    BY DEF Oriented
  <2> HIDE DEF e, es
  <2>3. es[k] = <<e[2], e[1]>> \/ es[k] = <<e[1], e[2]>>
    BY <2>1, <2>2
  <2>4. e[1] \in Int /\ e[2] \in Int
    BY <1>4, <2>1
  <2> QED BY <2>1, <2>3, <2>4
<1>7. es \in Seq(Int \X Int)
  <2>1. b.connections \in Seq(ToSet(b.connections))
    BY DEF IsFile
  <2>2. DOMAIN b.connections = 1 .. Len(b.connections) /\ Len(b.connections) \in Nat
    BY <2>1, LenProperties
  <2>3. es \in [1 .. Len(b.connections) -> Int \X Int]
    BY <1>6, <2>2
  <2> HIDE DEF es
  <2> QED BY <2>2, <2>3, SeqDef
<1>8. IsDocument(d)
  <2>1. b.layout \in Layout /\ b.manual \in BOOLEAN /\ b.look \in Content
    BY DEF IsFile
  <2>2. Root \in Int /\ top + 1 \in Nat
    BY <1>5 DEF Root
  <2> HIDE DEF es
  <2> QED BY <1>7, <2>1, <2>2 DEF IsDocument, top
<1>9. Joins(d)
  <2>1. DOMAIN es = DOMAIN b.connections
    OBVIOUS
  <2> HIDE DEF es
  <2> QED BY <1>6, <2>1 DEF Joins
<1>10. Raw(d, uids)
  <2>1. IsTree(d.nodes)
    BY <1>2 DEF IsTree
  <2>2. DOMAIN d.nodes \subseteq 1 .. d.nextId - 1
    BY <1>5 DEF top
  <2>3. d.selected # None
    BY DEF Root, None
  <2> HIDE DEF es
  <2> QED BY <1>3, <1>8, <1>9, <2>1, <2>2, <2>3 DEF Raw, ValidNodes
<1>11. Sound(Rebuild(d), uids) /\ OnDisplay(Rebuild(d))
  <2> HIDE DEF d
  <2> QED BY <1>10, RebuildSound
<1>12. /\ Rebuild(d).nodes = Aggregated(b.nodes) /\ Rebuild(d).layout = b.layout
       /\ Rebuild(d).manual = b.manual /\ Rebuild(d).look = b.look
       /\ Rebuild(d).connections = es
  <2>1. /\ d.nodes = b.nodes /\ d.layout = b.layout /\ d.manual = b.manual /\ d.look = b.look
        /\ d.connections = es
    OBVIOUS
  <2> HIDE DEF d, es
  <2> QED BY <1>8, <2>1, RebuildIs
<1>13. Alike(Aggregated(b.nodes), b.nodes)
  BY <1>2, AggregatedIs
<1>14. IsTree(b.nodes)
  BY <1>2 DEF IsTree
<1> HIDE DEF d
<1> QED BY <1>1, <1>11, <1>12, <1>13, <1>14

\* A sound document is one that the loader accepts, but for pairs related twice.
LEMMA SoundLoads ==
  ASSUME NEW d, NEW uids, Sound(d, uids)
  PROVE  /\ Loadable([Bytes(d) EXCEPT !.connections = <<>>])
         /\ \A e \in ToSet(d.connections) : e[1] # e[2] /\ e[1] \in DOMAIN d.nodes /\ e[2] \in DOMAIN d.nodes
         /\ IsFile(Bytes(d))
<1> DEFINE b == [Bytes(d) EXCEPT !.connections = <<>>]
<1>1. PICK dep : Tree(d.nodes, dep)
  BY DEF Sound, Raw, IsTree
<1>2. IsDocument(d) /\ ValidNodes(d.nodes) /\ Distinct(d.nodes)
      /\ Cardinality(DOMAIN d.nodes) <= MaxNodes /\ Joins(d)
      /\ ~(d.layout = "Compact" /\ d.manual)
  BY DEF Sound, Raw
<1>3. b.nodes = d.nodes /\ b.connections = <<>> /\ b.layout = d.layout /\ b.manual = d.manual
  BY DEF Bytes
<1>4. ValidTree(d.nodes)
  BY <1>1, TreeIsValid
<1>5. Cardinality(IdentitiesOf(d.nodes)) = Cardinality(DOMAIN d.nodes)
  BY <1>1, <1>2, DistinctCounts DEF Tree, Typed
<1>6. ValidConnections(d.nodes, <<>>)
  BY DEF ValidConnections
<1>7. Loadable(b)
  <2> HIDE DEF b
  <2> QED BY <1>2, <1>3, <1>4, <1>5, <1>6 DEF Loadable, ValidNodes
<1>8. \A e \in ToSet(d.connections) : e[1] # e[2] /\ e[1] \in DOMAIN d.nodes /\ e[2] \in DOMAIN d.nodes
  BY <1>2 DEF Joins, ToSet
<1>9. IsFile(Bytes(d))
  <2>1. /\ d.connections \in Seq(Int \X Int) /\ d.layout \in Layout /\ d.manual \in BOOLEAN
        /\ d.look \in Content
    BY <1>2 DEF IsDocument
  <2>2. d.connections \in Seq(ToSet(d.connections))
    BY <2>1, MembersOf
  <2>3. \A k \in DOMAIN d.connections : d.connections[k] \in Int \X Int
    BY <2>1, LenProperties
  <2>4. \A k \in DOMAIN d.connections : d.connections[k] = <<d.connections[k][1], d.connections[k][2]>>
    BY <2>3
  <2>5. Records(d.nodes)
    BY <1>1, TypedRecords DEF Tree
  <2> QED BY <2>1, <2>2, <2>4, <2>5 DEF IsFile, Bytes
<1> QED BY <1>7, <1>8, <1>9

-----------------------------------------------------------------------------
(***************************************************************************)
(* What commands do to the tree.                                           *)
(***************************************************************************)
LEMMA SubSeqMembers ==
  ASSUME NEW T, NEW s \in Seq(T), NEW a \in 1 .. Len(s) + 1, NEW b \in a - 1 .. Len(s)
  PROVE  /\ SubSeq(s, a, b) \in Seq(T) /\ ToSet(SubSeq(s, a, b)) = {s[k] : k \in a .. b}
         /\ IsInjective(s) => IsInjective(SubSeq(s, a, b))
<1> DEFINE t == SubSeq(s, a, b)
<1>1. /\ Len(s) \in Nat /\ DOMAIN s = 1 .. Len(s) /\ \A k \in 1 .. Len(s) : s[k] \in T
      /\ a \in Nat /\ b \in Nat /\ a <= b + 1
  BY LenProperties
<1>2. t = [k \in 1 .. b - a + 1 |-> s[a + k - 1]]
  <2>1. a \in Int /\ b \in Int /\ \A i \in a .. b : s[i] \in T
    BY <1>1
  <2>2. /\ t \in Seq(T) /\ Len(t) = IF a <= b THEN b - a + 1 ELSE 0
        /\ \A k \in 1 .. b - a + 1 : t[k] = s[a + k - 1]
    BY <2>1, SubSeqProperties
  <2> HIDE DEF t
  <2>3. t = [k \in 1 .. Len(t) |-> t[k]]
    BY <2>2, LenProperties
  <2>4. 1 .. Len(t) = 1 .. b - a + 1
    BY <1>1, <2>2
  <2> QED BY <2>2, <2>3, <2>4
<1> HIDE DEF t
<1>3. DOMAIN t = 1 .. b - a + 1
  BY <1>2
<1>4. \A k \in 1 .. b - a + 1 : a + k - 1 \in a .. b /\ a + k - 1 \in 1 .. Len(s) /\ t[k] = s[a + k - 1]
  BY <1>1, <1>2
<1>5. t \in Seq(T)
  <2>1. t \in [1 .. b - a + 1 -> T] /\ b - a + 1 \in Nat
    BY <1>1, <1>2, <1>4
  <2> QED BY <2>1
<1>6. ToSet(t) = {s[k] : k \in a .. b}
  <2>1. ASSUME NEW k \in a .. b PROVE s[k] \in ToSet(t)
    <3>1. k - a + 1 \in 1 .. b - a + 1 /\ a + (k - a + 1) - 1 = k
      BY <1>1
    <3>2. t[k - a + 1] = s[k]
      BY <1>4, <3>1
    <3> QED BY <1>3, <3>1, <3>2 DEF ToSet
  <2>2. ToSet(t) \subseteq {s[k] : k \in a .. b}
    BY <1>3, <1>4 DEF ToSet
  <2> QED BY <2>1, <2>2
<1>7. IsInjective(s) => IsInjective(t)
  <2> SUFFICES ASSUME IsInjective(s), NEW j \in 1 .. b - a + 1, NEW k \in 1 .. b - a + 1, t[j] = t[k]
               PROVE  j = k
    BY <1>3 DEF IsInjective
  <2>1. a + j - 1 = a + k - 1
    BY <1>1, <1>4 DEF IsInjective
  <2> QED BY <1>1, <2>1
<1> QED BY <1>5, <1>6, <1>7 DEF t

LEMMA SplicedMembers ==
  ASSUME NEW T, NEW s \in Seq(T), NEW new \in Seq(T), NEW at \in 0 .. Len(s)
  PROVE  /\ Spliced(s, at, new) \in Seq(T)
         /\ ToSet(Spliced(s, at, new)) = ToSet(s) \cup ToSet(new)
         /\ IsInjective(s) /\ IsInjective(new) /\ ToSet(s) \cap ToSet(new) = {}
              => IsInjective(Spliced(s, at, new))
<1> DEFINE a == SubSeq(s, 1, at)
           b == SubSeq(s, at + 1, Len(s))
<1>1. /\ Len(s) \in Nat /\ DOMAIN s = 1 .. Len(s) /\ 1 \in 1 .. Len(s) + 1 /\ at \in 1 - 1 .. Len(s)
      /\ at + 1 \in 1 .. Len(s) + 1 /\ Len(s) \in at + 1 - 1 .. Len(s)
  BY LenProperties
<1>2. /\ a \in Seq(T) /\ ToSet(a) = {s[k] : k \in 1 .. at}
      /\ IsInjective(s) => IsInjective(a)
  BY <1>1, SubSeqMembers
<1>3. /\ b \in Seq(T) /\ ToSet(b) = {s[k] : k \in at + 1 .. Len(s)}
      /\ IsInjective(s) => IsInjective(b)
  <2> DEFINE i == at + 1
             j == Len(s)
  <2>1. i \in 1 .. Len(s) + 1 /\ j \in i - 1 .. Len(s) /\ b = SubSeq(s, i, j)
    BY <1>1
  <2> HIDE DEF i, j, b
  <2>2. /\ b \in Seq(T) /\ ToSet(b) = {s[k] : k \in i .. j}
        /\ IsInjective(s) => IsInjective(b)
    BY <2>1, SubSeqMembers
  <2> QED BY <2>2 DEF i, j
<1>4. Spliced(s, at, new) = a \o new \o b
  BY DEF Spliced
<1> HIDE DEF a, b
<1>5. ToSet(a) \cup ToSet(b) = ToSet(s)
  <2>1. (1 .. at) \cup (at + 1 .. Len(s)) = 1 .. Len(s)
    BY <1>1
  <2>2. ToSet(s) = {s[k] : k \in 1 .. Len(s)}
    BY MembersOf
  <2> QED BY <1>2, <1>3, <2>1, <2>2
<1>6. IsInjective(s) => ToSet(a) \cap ToSet(b) = {}
  <2> SUFFICES ASSUME IsInjective(s), NEW j \in 1 .. at, NEW k \in at + 1 .. Len(s), s[j] = s[k]
               PROVE  FALSE
    BY <1>2, <1>3
  <2>1. j \in DOMAIN s /\ k \in DOMAIN s /\ j # k
    BY <1>1
  <2> QED BY <2>1 DEF IsInjective
<1>7. /\ a \o new \in Seq(T) /\ ToSet(a \o new) = ToSet(a) \cup ToSet(new)
      /\ IsInjective(a) /\ IsInjective(new) /\ ToSet(a) \cap ToSet(new) = {} => IsInjective(a \o new)
  BY <1>2, ConcatMembers
<1>8. /\ a \o new \o b \in Seq(T) /\ ToSet(a \o new \o b) = ToSet(a \o new) \cup ToSet(b)
      /\ IsInjective(a \o new) /\ IsInjective(b) /\ ToSet(a \o new) \cap ToSet(b) = {}
           => IsInjective(a \o new \o b)
  BY <1>3, <1>7, ConcatMembers
<1>9. ToSet(a \o new \o b) = ToSet(s) \cup ToSet(new)
  BY <1>5, <1>7, <1>8
<1>10. ASSUME IsInjective(s), IsInjective(new), ToSet(s) \cap ToSet(new) = {}
       PROVE  IsInjective(a \o new \o b)
  <2>1. ToSet(a) \cap ToSet(new) = {} /\ ToSet(b) \cap ToSet(new) = {}
    BY <1>5, <1>10
  <2>2. IsInjective(a \o new)
    BY <1>2, <1>7, <1>10, <2>1
  <2>3. ToSet(a \o new) \cap ToSet(b) = {}
    BY <1>6, <1>7, <1>10, <2>1
  <2> QED BY <1>3, <1>8, <1>10, <2>2, <2>3
<1> QED BY <1>4, <1>8, <1>9, <1>10

\* Children next to a sibling, or at the end.
LEMMA Inserted ==
  ASSUME NEW T, NEW s \in Seq(T), NEW new \in Seq(T), NEW sibling
  PROVE  /\ After(s, sibling, new) \in Seq(T) /\ Before(s, sibling, new) \in Seq(T)
         /\ ToSet(After(s, sibling, new)) = ToSet(s) \cup ToSet(new)
         /\ ToSet(Before(s, sibling, new)) = ToSet(s) \cup ToSet(new)
         /\ IsInjective(s) /\ IsInjective(new) /\ ToSet(s) \cap ToSet(new) = {}
              => IsInjective(After(s, sibling, new)) /\ IsInjective(Before(s, sibling, new))
<1> DEFINE a == IF sibling \in ToSet(s) THEN Position(s, sibling) ELSE Len(s)
           b == IF sibling \in ToSet(s) THEN Position(s, sibling) - 1 ELSE Len(s)
<1>1. Len(s) \in Nat
  BY LenProperties
<1>2. sibling \in ToSet(s) => Position(s, sibling) \in 1 .. Len(s)
  BY PositionOf
<1>3. a \in 0 .. Len(s) /\ b \in 0 .. Len(s)
  BY <1>1, <1>2
<1>4. After(s, sibling, new) = Spliced(s, a, new) /\ Before(s, sibling, new) = Spliced(s, b, new)
  BY DEF After, Before
<1> HIDE DEF a, b
<1>5. \A at \in 0 .. Len(s) :
        /\ Spliced(s, at, new) \in Seq(T) /\ ToSet(Spliced(s, at, new)) = ToSet(s) \cup ToSet(new)
        /\ IsInjective(s) /\ IsInjective(new) /\ ToSet(s) \cap ToSet(new) = {}
             => IsInjective(Spliced(s, at, new))
  <2> TAKE at \in 0 .. Len(s)
  <2> QED BY SplicedMembers
<1> QED BY <1>3, <1>4, <1>5

\* The fields of a node besides its links.
Same(x, y) ==
  /\ x.syncId = y.syncId /\ x.kind = y.kind /\ x.meeting = y.meeting /\ x.task = y.task
  /\ x.checked = y.checked /\ x.content = y.content

LEMMA DetachedIs ==
  ASSUME NEW n, NEW dep, Tree(n, dep), NEW ids
  PROVE  /\ DOMAIN Detached(n, ids) = DOMAIN n
         /\ Detached(n, ids) = [i \in DOMAIN n |-> Detached(n, ids)[i]]
         /\ \A i \in DOMAIN n :
              /\ Detached(n, ids)[i] \in Node /\ Same(Detached(n, ids)[i], n[i])
              /\ Detached(n, ids)[i].parent = n[i].parent
              /\ Detached(n, ids)[i].folded = n[i].folded
              /\ ToSet(Detached(n, ids)[i].children) = Kids(n, i) \ ids
              /\ ValidNode(n[i]) => ValidNode(Detached(n, ids)[i])
<1> DEFINE D == Detached(n, ids)
           kept(i) == Only(n[i].children, DOMAIN n \ ids)
<1>1. D = [i \in DOMAIN n |-> [n[i] EXCEPT !.children = kept(i)]]
  BY TableIs DEF Detached
<1>2. ASSUME NEW i \in DOMAIN n
      PROVE  /\ kept(i) \in Seq(Int) /\ ToSet(kept(i)) = Kids(n, i) \ ids
             /\ IsInjective(n[i].children) => IsInjective(kept(i))
  <2>1. n[i].children \in Seq(Int)
    BY DEF Tree, Typed, Node
  <2>2. ToSet(n[i].children) \subseteq DOMAIN n
    BY KidsDeeper DEF Kids
  <2>3. /\ kept(i) \in Seq(Int) /\ ToSet(kept(i)) = ToSet(n[i].children) \cap (DOMAIN n \ ids)
        /\ IsInjective(n[i].children) => IsInjective(kept(i))
    BY <2>1, OnlyMembers
  <2> QED BY <2>2, <2>3 DEF Kids
<1> HIDE DEF kept, D
<1>3. ASSUME NEW i \in DOMAIN n
      PROVE  /\ D[i] \in Node /\ Same(D[i], n[i]) /\ D[i].parent = n[i].parent
             /\ D[i].folded = n[i].folded /\ D[i].children = kept(i)
  <2>1. n[i] \in Node
    BY DEF Tree, Typed
  <2>2. D[i] = [n[i] EXCEPT !.children = kept(i)]
    BY <1>1
  <2> QED BY <1>2, <2>1, <2>2 DEF Node, Same
<1>4. ASSUME NEW i \in DOMAIN n, ValidNode(n[i]) PROVE ValidNode(D[i])
  <2>1. IsInjective(n[i].children)
    BY <1>4 DEF ValidNode, IsInjective
  <2>2. IsInjective(D[i].children)
    BY <1>2, <1>3, <2>1
  <2> QED BY <1>3, <1>4, <2>2 DEF ValidNode, IsInjective, Same
<1>5. DOMAIN D = DOMAIN n /\ D = [i \in DOMAIN n |-> D[i]]
  BY <1>1
<1> QED BY <1>2, <1>3, <1>4, <1>5 DEF D

\* A set of whole branches goes.
LEMMA WithoutRaw ==
  ASSUME NEW d, NEW uids, Sound(d, uids), NEW gone, gone \subseteq DOMAIN d.nodes \ {Root},
         \A i \in gone : Kids(d.nodes, i) \subseteq gone
  PROVE  /\ Raw(WithoutNodes(d, gone), uids)
         /\ DOMAIN WithoutNodes(d, gone).nodes = DOMAIN d.nodes \ gone
         /\ WithoutNodes(d, gone).nodes[Root].syncId = d.nodes[Root].syncId
         /\ \A i \in DOMAIN d.nodes \ gone : WithoutNodes(d, gone).nodes[i].syncId = d.nodes[i].syncId
<1> DEFINE n == d.nodes
           D == Detached(n, gone)
           m == Table([i \in DOMAIN D \ gone |-> D[i]])
           es == Only(d.connections, {e \in ToSet(d.connections) : e[1] \notin gone /\ e[2] \notin gone})
           w == WithoutNodes(d, gone)
<1>1. PICK dep : Tree(n, dep)
  BY DEF Sound, Raw, IsTree
<1>2. IsDocument(d) /\ ValidNodes(n) /\ Distinct(n) /\ IdentitiesOf(n) \subseteq uids
      /\ Cardinality(DOMAIN n) <= MaxNodes /\ Joins(d) /\ ~(d.layout = "Compact" /\ d.manual)
      /\ DOMAIN n \subseteq 1 .. d.nextId - 1 /\ (d.selected = None => d.selection = {})
  BY DEF Sound, Raw
<1>3. w = [d EXCEPT !.nodes = m, !.connections = es]
  BY DEF WithoutNodes
<1>4. /\ m = [i \in DOMAIN n \ gone |-> D[i]] /\ DOMAIN m = DOMAIN n \ gone
      /\ \A i \in DOMAIN n \ gone : /\ m[i] \in Node /\ m[i].syncId = n[i].syncId
                                    /\ m[i].parent = n[i].parent /\ Kids(m, i) = Kids(n, i) \ gone
                                    /\ ValidNode(m[i])
  <2>1. /\ DOMAIN D = DOMAIN n
        /\ \A i \in DOMAIN n :
             /\ D[i] \in Node /\ Same(D[i], n[i]) /\ D[i].parent = n[i].parent
             /\ ToSet(D[i].children) = Kids(n, i) \ gone
             /\ ValidNode(n[i]) => ValidNode(D[i])
    BY <1>1, DetachedIs
  <2>2. m = [i \in DOMAIN n \ gone |-> D[i]]
    BY <2>1, TableIs
  <2> HIDE DEF D, m
  <2> QED BY <1>2, <2>1, <2>2 DEF Same, ValidNodes, Kids
<1> HIDE DEF m, D
<1>5. /\ es \in Seq(Int \X Int)
      /\ \A k \in DOMAIN es : es[k][1] # es[k][2] /\ es[k][1] \in DOMAIN m /\ es[k][2] \in DOMAIN m
  <2> DEFINE keep == {e \in ToSet(d.connections) : e[1] \notin gone /\ e[2] \notin gone}
  <2>1. d.connections \in Seq(Int \X Int)
    BY <1>2 DEF IsDocument
  <2>2. es \in Seq(Int \X Int) /\ ToSet(es) = ToSet(d.connections) \cap keep
    BY <2>1, OnlyMembers
  <2>3. ASSUME NEW k \in DOMAIN es
        PROVE  es[k][1] # es[k][2] /\ es[k][1] \in DOMAIN m /\ es[k][2] \in DOMAIN m
    <3>1. es[k] \in ToSet(es)
      BY DEF ToSet
    <3>2. es[k] \in keep /\ es[k] \in ToSet(d.connections)
      BY <2>2, <3>1
    <3> DEFINE e == es[k]
    <3> HIDE DEF es
    <3>3. PICK j \in DOMAIN d.connections : es[k] = d.connections[j]
      BY <3>2 DEF ToSet
    <3> QED BY <1>2, <1>4, <3>2, <3>3 DEF Joins
  <2> QED BY <2>2, <2>3
<1> HIDE DEF es
<1>6. /\ w.nodes = m /\ w.connections = es /\ w.layout = d.layout /\ w.manual = d.manual
      /\ w.selected = d.selected /\ w.selection = d.selection /\ w.nextId = d.nextId
      /\ IsDocument(w)
  BY <1>2, <1>3, <1>5 DEF IsDocument
<1>b. gone \subseteq DOMAIN n \ {Root} /\ \A i \in gone : Kids(n, i) \subseteq gone
  OBVIOUS
<1> HIDE DEF w, n
<1>7. Typed(m)
  <2>1. IsFiniteSet(DOMAIN m)
    BY <1>1, <1>4, FS_Subset DEF Tree, Typed
  <2>2. DOMAIN m \subseteq Nat \ {0}
    BY <1>1, <1>4 DEF Tree, Typed
  <2>3. m \in [DOMAIN m -> Node]
    <3>1. m = [i \in DOMAIN m |-> m[i]]
      BY <1>4
    <3> QED BY <1>4, <3>1
  <2> QED BY <2>1, <2>2, <2>3 DEF Typed
<1>8. Root \in DOMAIN n /\ n[Root].parent = None /\ Root \in DOMAIN m
  BY <1>1, <1>4 DEF Tree, Linked
<1>9. Linked(m)
  <2>1. ASSUME NEW i \in DOMAIN m \ {Root} PROVE m[i].parent \in DOMAIN m /\ i \in Kids(m, m[i].parent)
    <3>1. n[i].parent \in DOMAIN n /\ i \in Kids(n, n[i].parent)
      BY <1>1, <1>4 DEF Tree, Linked
    <3>2. n[i].parent \notin gone
      BY <1>b, <1>4, <3>1
    <3> QED BY <1>4, <3>1, <3>2
  <2>2. ASSUME NEW i \in DOMAIN m, NEW c \in Kids(m, i) PROVE c \in DOMAIN m /\ m[c].parent = i
    <3>1. i \in DOMAIN n \ gone /\ c \in Kids(n, i) \ gone
      BY <1>4
    <3>2. c \in DOMAIN n /\ n[c].parent = i
      BY <1>1, <3>1 DEF Tree, Linked
    <3> QED BY <1>4, <3>1, <3>2
  <2> QED BY <1>4, <1>8, <2>1, <2>2 DEF Linked
<1>10. Levels(m, [i \in DOMAIN m |-> dep[i]])
  <2> DEFINE lev == [i \in DOMAIN m |-> dep[i]]
  <2>1. dep \in [DOMAIN n -> 0 .. MaxDepth] /\ dep[Root] = 0
        /\ \A i \in DOMAIN n \ {Root} : dep[i] = dep[n[i].parent] + 1
    BY <1>1 DEF Tree, Levels
  <2>2. lev \in [DOMAIN m -> 0 .. MaxDepth] /\ lev[Root] = 0
    BY <1>4, <1>8, <2>1
  <2>3. ASSUME NEW i \in DOMAIN m \ {Root} PROVE lev[i] = lev[m[i].parent] + 1
    <3>1. i \in DOMAIN n \ {Root} /\ m[i].parent = n[i].parent /\ m[i].parent \in DOMAIN m
      BY <1>4, <1>9 DEF Linked
    <3>2. lev[i] = dep[i] /\ lev[m[i].parent] = dep[n[i].parent]
      BY <3>1
    <3> QED BY <2>1, <3>1, <3>2
  <2>4. Levels(m, lev)
    <3> HIDE DEF lev
    <3> QED BY <2>2, <2>3 DEF Levels
  <2> QED BY <2>4
<1>11. Tree(m, [i \in DOMAIN m |-> dep[i]])
  BY <1>7, <1>9, <1>10 DEF Tree
<1>12. Raw(w, uids)
  <2>1. IsTree(m) /\ ValidNodes(m)
    BY <1>4, <1>11 DEF IsTree, ValidNodes
  <2>2. IdentitiesOf(m) \subseteq uids /\ Distinct(m)
    BY <1>2, <1>4 DEF IdentitiesOf, Distinct
  <2>3. Joins(w)
    BY <1>5, <1>6 DEF Joins
  <2>4. Cardinality(DOMAIN w.nodes) <= MaxNodes
    <3>1. IsFiniteSet(DOMAIN n) /\ DOMAIN m \in SUBSET DOMAIN n
      BY <1>1, <1>4 DEF Tree, Typed
    <3>2. Cardinality(DOMAIN m) <= Cardinality(DOMAIN n)
      BY <3>1, FS_Subset
    <3>3. Cardinality(DOMAIN m) \in Nat /\ Cardinality(DOMAIN n) \in Nat
      BY <1>7, <3>1, FS_CardinalityType DEF Typed
    <3> QED BY <1>2, <1>6, <3>2, <3>3, MaxDepthNat
  <2> QED BY <1>2, <1>4, <1>6, <2>1, <2>2, <2>3, <2>4 DEF Raw
<1>13. /\ w.nodes[Root].syncId = n[Root].syncId
       /\ \A i \in DOMAIN n \ gone : w.nodes[i].syncId = n[i].syncId
  BY <1>4, <1>6, <1>8
<1> QED BY <1>4, <1>6, <1>12, <1>13 DEF w, n

\* Branches of which none lies in another share no node.
LEMMA BranchesApart ==
  ASSUME NEW n, NEW dep, Tree(n, dep), NEW ids \in SUBSET (DOMAIN n \ {Root}),
         \A a, b \in ids : a \in Branch(n, b) => a = b
  PROVE  \A j \in DOMAIN n : \A a, b \in ids : j \in Branch(n, a) /\ j \in Branch(n, b) => a = b
<1> DEFINE S == {j \in DOMAIN n : \A a, b \in ids : j \in Branch(n, a) /\ j \in Branch(n, b) => a = b}
<1>1. Root \in DOMAIN n /\ \A i \in DOMAIN n \ {Root} : n[i].parent \in DOMAIN n
  BY DEF Tree, Linked
<1>2. \A a \in ids : /\ a \in DOMAIN n /\ Root \notin Branch(n, a)
                     /\ \A j \in Branch(n, a) \ {a} : n[j].parent \in Branch(n, a)
  <2> TAKE a \in ids
  <2>1. a \in DOMAIN n /\ a # Root
    OBVIOUS
  <2> QED BY <2>1, BranchOf
<1>3. Root \in S
  BY <1>1, <1>2
<1>4. ASSUME NEW j \in DOMAIN n \ {Root}, n[j].parent \in S PROVE j \in S
  <2> SUFFICES ASSUME NEW a \in ids, NEW b \in ids, j \in Branch(n, a), j \in Branch(n, b)
               PROVE  a = b
    OBVIOUS
  <2>1. CASE j = a \/ j = b
    BY <2>1
  <2>2. CASE j # a /\ j # b
    BY <1>2, <1>4, <2>2
  <2> QED BY <2>1, <2>2
<1>5. DOMAIN n \subseteq S
  <2> HIDE DEF S
  <2> QED BY <1>3, <1>4, DownInduction
<1> QED BY <1>5

LEMMA MovedRaw ==
  ASSUME NEW d, NEW uids, Sound(d, uids), NEW parent \in DOMAIN d.nodes,
         NEW ids \in Seq(DOMAIN d.nodes \ {Root}), IsInjective(ids), NEW sibling,
         \A a, b \in ToSet(ids) : a \in Branch(d.nodes, b) => a = b,
         \A a \in ToSet(ids) : /\ parent \notin Branch(d.nodes, a)
                               /\ Depth(d.nodes, parent) + 1 + Height(d.nodes, a) <= MaxDepth
  PROVE  /\ Raw(Moved(d, ids, parent, sibling), uids)
         /\ DOMAIN Moved(d, ids, parent, sibling).nodes = DOMAIN d.nodes
         /\ \A i \in DOMAIN d.nodes :
              Moved(d, ids, parent, sibling).nodes[i].syncId = d.nodes[i].syncId
<1> DEFINE n == d.nodes
           I == ToSet(ids)
           D == Detached(n, I)
           g == [i \in DOMAIN D |->
                  CASE i \in I -> [D[i] EXCEPT !.parent = parent]
                    [] i = parent -> [D[i] EXCEPT !.children = Before(@, sibling, ids), !.folded = FALSE]
                    [] OTHER -> D[i]]
           m == Table(g)
           w == Moved(d, ids, parent, sibling)
<1>1. PICK dep : Tree(n, dep)
  BY DEF Sound, Raw, IsTree
<1>2. IsDocument(d) /\ ValidNodes(n) /\ Distinct(n) /\ IdentitiesOf(n) \subseteq uids
      /\ Cardinality(DOMAIN n) <= MaxNodes /\ Joins(d) /\ ~(d.layout = "Compact" /\ d.manual)
      /\ DOMAIN n \subseteq 1 .. d.nextId - 1 /\ (d.selected = None => d.selection = {})
  BY DEF Sound, Raw
<1>3. w = [d EXCEPT !.nodes = m]
  BY DEF Moved
<1>4. I \subseteq DOMAIN n \ {Root} /\ parent \notin I /\ parent \in Int /\ DOMAIN n \subseteq Int
      /\ ids \in Seq(Int) /\ I \in SUBSET (DOMAIN n \ {Root})
  <2>1. I \subseteq DOMAIN n \ {Root}
    BY MembersOf
  <2>2. \A a \in I : a \in Branch(n, a)
    <3> TAKE a \in I
    <3>1. a \in DOMAIN n
      BY <2>1
    <3> HIDE DEF n, I
    <3> QED BY <1>1, <3>1, BranchOf
  <2>3. DOMAIN n \subseteq Int
    BY <1>1 DEF Tree, Typed
  <2>4. ids \in Seq(Int)
    <3>1. DOMAIN n \ {Root} \subseteq Int
      BY <2>3
    <3> QED BY <3>1
  <2> QED BY <2>1, <2>2, <2>3, <2>4
<1>5. /\ DOMAIN m = DOMAIN n /\ m = [i \in DOMAIN n |-> m[i]]
      /\ \A i \in DOMAIN n :
           /\ m[i] \in Node /\ m[i].syncId = n[i].syncId /\ ValidNode(m[i])
           /\ m[i].parent = (IF i \in I THEN parent ELSE n[i].parent)
           /\ Kids(m, i) = (Kids(n, i) \ I) \cup (IF i = parent THEN I ELSE {})
  <2>1. /\ DOMAIN D = DOMAIN n
        /\ \A i \in DOMAIN n :
             /\ D[i] \in Node /\ Same(D[i], n[i]) /\ D[i].parent = n[i].parent
             /\ ToSet(D[i].children) = Kids(n, i) \ I
             /\ ValidNode(n[i]) => ValidNode(D[i])
    BY <1>1, DetachedIs
  <2>2. m = g
    BY TableIs
  <2> HIDE DEF D, m, I, n
  <2>3. DOMAIN m = DOMAIN n /\ m = [i \in DOMAIN n |-> m[i]]
    <3>1. g = [i \in DOMAIN D |-> g[i]] /\ DOMAIN g = DOMAIN D
      OBVIOUS
    <3> HIDE DEF g
    <3> QED BY <2>1, <2>2, <3>1
  <2>4. ASSUME NEW i \in DOMAIN n
        PROVE  /\ m[i] \in Node /\ m[i].syncId = n[i].syncId /\ ValidNode(m[i])
               /\ m[i].parent = (IF i \in I THEN parent ELSE n[i].parent)
               /\ Kids(m, i) = (Kids(n, i) \ I) \cup (IF i = parent THEN I ELSE {})
    <3>1. D[i] \in Node /\ D[i].syncId = n[i].syncId /\ D[i].parent = n[i].parent
          /\ ToSet(D[i].children) = Kids(n, i) \ I /\ ValidNode(D[i])
      BY <1>2, <2>1 DEF Same, ValidNodes
    <3>2. CASE i \in I
      <4>1. m[i] = [D[i] EXCEPT !.parent = parent] /\ i # parent
        BY <1>4, <2>1, <2>2, <3>2
      <4>2. m[i] \in Node /\ m[i].syncId = D[i].syncId /\ m[i].parent = parent
            /\ m[i].children = D[i].children /\ m[i].kind = D[i].kind /\ m[i].task = D[i].task
            /\ m[i].checked = D[i].checked /\ m[i].meeting = D[i].meeting
        BY <1>4, <3>1, <4>1 DEF Node
      <4> QED BY <3>1, <3>2, <4>1, <4>2 DEF ValidNode, Kids
    <3>3. CASE i = parent
      <4> DEFINE ch == Before(D[i].children, sibling, ids)
      <4>1. m[i] = [D[i] EXCEPT !.children = ch, !.folded = FALSE] /\ i \notin I
        BY <1>4, <2>1, <2>2, <3>3
      <4>2. D[i].children \in Seq(Int)
        BY <3>1 DEF Node
      <4>3. IsInjective(D[i].children) /\ ToSet(D[i].children) \cap ToSet(ids) = {}
        BY <3>1 DEF ValidNode, IsInjective, I
      <4>4. ch \in Seq(Int) /\ ToSet(ch) = ToSet(D[i].children) \cup ToSet(ids) /\ IsInjective(ch)
        BY <1>4, <4>2, <4>3, Inserted
      <4> HIDE DEF ch
      <4>5. m[i] \in Node /\ m[i].syncId = D[i].syncId /\ m[i].parent = D[i].parent
            /\ m[i].children = ch /\ m[i].kind = D[i].kind /\ m[i].task = D[i].task
            /\ m[i].checked = D[i].checked /\ m[i].meeting = D[i].meeting
        BY <3>1, <4>1, <4>4 DEF Node
      <4>6. ValidNode(m[i])
        BY <3>1, <4>4, <4>5 DEF ValidNode, IsInjective
      <4>7. Kids(m, i) = (Kids(n, i) \ I) \cup I
        BY <3>1, <4>4, <4>5 DEF Kids, I
      <4> QED BY <3>1, <3>3, <4>1, <4>5, <4>6, <4>7
    <3>4. CASE i \notin I /\ i # parent
      <4>1. m[i] = D[i]
        BY <2>1, <2>2, <3>4
      <4> QED BY <3>1, <3>4, <4>1 DEF Kids
    <3> QED BY <3>2, <3>3, <3>4
  <2> QED BY <2>3, <2>4
<1>6. /\ w.nodes = m /\ w.connections = d.connections /\ w.layout = d.layout /\ w.manual = d.manual
      /\ w.selected = d.selected /\ w.selection = d.selection /\ w.nextId = d.nextId
      /\ IsDocument(w)
  <2> HIDE DEF m
  <2> QED BY <1>2, <1>3 DEF IsDocument
<1>7. /\ \A a, b \in I : a \in Branch(n, b) => a = b
      /\ \A a \in I : parent \notin Branch(n, a) /\ Depth(n, parent) + 1 + Height(n, a) <= MaxDepth
      /\ parent \in DOMAIN n
  OBVIOUS
<1> HIDE DEF m, D, w, n, I
<1>8. Typed(m)
  BY <1>1, <1>5 DEF Tree, Typed
<1>9. Root \in DOMAIN n /\ n[Root].parent = None /\ \A i \in DOMAIN n \ {Root} : n[i].parent \in DOMAIN n /\ i \in Kids(n, n[i].parent)
  BY <1>1 DEF Tree, Linked
<1>10. Linked(m)
  <2>1. ASSUME NEW i \in DOMAIN m \ {Root} PROVE m[i].parent \in DOMAIN m /\ i \in Kids(m, m[i].parent)
    <3>1. CASE i \in I
      BY <1>5, <1>7, <3>1
    <3>2. CASE i \notin I
      BY <1>5, <1>9, <3>2
    <3> QED BY <3>1, <3>2
  <2>2. ASSUME NEW i \in DOMAIN m, NEW c \in Kids(m, i) PROVE c \in DOMAIN m /\ m[c].parent = i
    <3>1. CASE c \in I
      BY <1>4, <1>5, <2>2, <3>1
    <3>2. CASE c \notin I
      <4>1. c \in Kids(n, i)
        BY <1>5, <2>2, <3>2
      <4>2. c \in DOMAIN n /\ n[c].parent = i
        BY <1>1, <1>5, <4>1 DEF Tree, Linked
      <4> QED BY <1>5, <3>2, <4>2
    <3> QED BY <3>1, <3>2
  <2>3. Root \in DOMAIN m /\ m[Root].parent = None
    BY <1>4, <1>5, <1>9
  <2> QED BY <2>1, <2>2, <2>3 DEF Linked
<1>11. \E lev : Levels(m, lev)
  <2> DEFINE in(j) == {a \in I : j \in Branch(n, a)}
             top(j) == CHOOSE a \in I : j \in Branch(n, a)
             lev == [j \in DOMAIN m |-> IF in(j) = {} THEN dep[j]
                                        ELSE dep[j] - dep[top(j)] + dep[parent] + 1]
  <2>1. dep \in [DOMAIN n -> 0 .. MaxDepth] /\ dep[Root] = 0
        /\ \A i \in DOMAIN n \ {Root} : dep[i] = dep[n[i].parent] + 1
    BY <1>1 DEF Tree, Levels
  <2>2. \A a \in I : /\ a \in DOMAIN n /\ Root \notin Branch(n, a) /\ a \in Branch(n, a)
                     /\ Branch(n, a) \subseteq DOMAIN n
                     /\ \A j \in Branch(n, a) \ {a} : n[j].parent \in Branch(n, a)
                     /\ \A j \in DOMAIN n \ {Root} : n[j].parent \in Branch(n, a) => j \in Branch(n, a)
                     /\ \A j \in Branch(n, a) : dep[a] <= dep[j] /\ dep[j] <= dep[a] + Height(n, a)
                     /\ Height(n, a) \in Nat
    <3> TAKE a \in I
    <3>1. a \in DOMAIN n /\ a # Root
      BY <1>4
    <3> QED BY <1>1, <3>1, BranchOf, HeightOf
  <2>3. \A j \in DOMAIN n : \A a, b \in I : j \in Branch(n, a) /\ j \in Branch(n, b) => a = b
    BY <1>1, <1>4, <1>7, BranchesApart
  <2>4. Depth(n, parent) = dep[parent] /\ dep[parent] \in Nat
    BY <1>1, <1>7, <2>1, AncestorsOf, MaxDepthNat
  <2>5. ASSUME NEW j \in DOMAIN n, NEW a \in I, j \in Branch(n, a)
        PROVE  lev[j] = dep[j] - dep[a] + dep[parent] + 1 /\ lev[j] \in 0 .. MaxDepth
    <3>1. top(j) = a
      BY <2>3, <2>5
    <3>2. lev[j] = dep[j] - dep[a] + dep[parent] + 1
      <4> HIDE DEF top
      <4> QED BY <1>5, <2>5, <3>1
    <3>3. dep[j] \in Nat /\ dep[a] \in Nat /\ dep[a] <= dep[j] /\ dep[j] <= dep[a] + Height(n, a) /\ Height(n, a) \in Nat
          /\ dep[parent] + 1 + Height(n, a) <= MaxDepth
      BY <1>7, <2>1, <2>2, <2>4, <2>5, MaxDepthNat
    <3> HIDE DEF lev
    <3> QED BY <2>4, <3>2, <3>3, MaxDepthNat
  <2>6. ASSUME NEW j \in DOMAIN n, \A a \in I : j \notin Branch(n, a)
        PROVE  lev[j] = dep[j] /\ lev[j] \in 0 .. MaxDepth
    BY <1>5, <2>1, <2>6
  <2>7. lev \in [DOMAIN m -> 0 .. MaxDepth]
    <3>1. \A j \in DOMAIN m : lev[j] \in 0 .. MaxDepth
      <4> TAKE j \in DOMAIN m
      <4> HIDE DEF lev
      <4> QED BY <1>5, <2>5, <2>6
    <3>2. lev = [j \in DOMAIN m |-> lev[j]]
      OBVIOUS
    <3> HIDE DEF lev
    <3> QED BY <3>1, <3>2
  <2>8. lev[Root] = 0
    BY <1>9, <2>1, <2>2, <2>6
  <2>9. ASSUME NEW j \in DOMAIN m \ {Root} PROVE lev[j] = lev[m[j].parent] + 1
    <3>1. j \in DOMAIN n \ {Root} /\ n[j].parent \in DOMAIN n /\ dep[j] = dep[n[j].parent] + 1
      BY <1>5, <1>9, <2>1
    <3>2. dep[j] \in Int /\ dep[n[j].parent] \in Int /\ dep[parent] \in Int
      BY <1>7, <2>1, <3>1
    <3>3. CASE j \in I
      <4>1. lev[j] = dep[j] - dep[j] + dep[parent] + 1
        BY <2>2, <2>5, <3>1, <3>3
      <4>2. lev[parent] = dep[parent] /\ m[j].parent = parent
        BY <1>5, <1>7, <2>6, <3>1, <3>3
      <4> HIDE DEF lev
      <4> QED BY <3>2, <4>1, <4>2
    <3>4. CASE j \notin I /\ \E a \in I : j \in Branch(n, a)
      <4>1. PICK a \in I : j \in Branch(n, a)
        BY <3>4
      <4>2. n[j].parent \in Branch(n, a)
        BY <2>2, <3>4, <4>1
      <4>3. lev[j] = dep[j] - dep[a] + dep[parent] + 1
            /\ lev[n[j].parent] = dep[n[j].parent] - dep[a] + dep[parent] + 1
        BY <2>5, <3>1, <4>1, <4>2
      <4>4. m[j].parent = n[j].parent /\ dep[a] \in Int
        BY <1>5, <2>1, <2>2, <3>1, <3>4
      <4>5. lev[m[j].parent] = dep[n[j].parent] - dep[a] + dep[parent] + 1
        BY <4>3, <4>4
      <4>6. \A x, y, z, p \in Int : x = p + 1 => x - y + z + 1 = (p - y + z + 1) + 1
        OBVIOUS
      <4>7. dep[j] - dep[a] + dep[parent] + 1 = (dep[n[j].parent] - dep[a] + dep[parent] + 1) + 1
        BY <3>1, <3>2, <4>4, <4>6
      <4> HIDE DEF lev
      <4> QED BY <4>3, <4>5, <4>7
    <3>5. CASE \A a \in I : j \notin Branch(n, a)
      <4>1. \A a \in I : n[j].parent \notin Branch(n, a)
        BY <2>2, <3>1, <3>5
      <4>2. j \notin I
        BY <2>2, <3>5
      <4>3. lev[j] = dep[j] /\ lev[n[j].parent] = dep[n[j].parent]
        BY <2>6, <3>1, <3>5, <4>1
      <4>4. m[j].parent = n[j].parent
        BY <1>5, <3>1, <4>2
      <4> HIDE DEF lev
      <4> QED BY <3>1, <4>3, <4>4
    <3> QED BY <3>3, <3>4, <3>5
  <2>10. Levels(m, lev)
    <3> HIDE DEF lev
    <3> QED BY <2>7, <2>8, <2>9 DEF Levels
  <2> HIDE DEF lev
  <2> QED BY <2>10
<1>12. IsTree(m)
  BY <1>8, <1>10, <1>11 DEF Tree, IsTree
<1>13. ValidNodes(m) /\ IdentitiesOf(m) \subseteq uids /\ Distinct(m)
  BY <1>2, <1>5 DEF ValidNodes, IdentitiesOf, Distinct
<1>14. Joins(w)
  BY <1>2, <1>5, <1>6 DEF Joins, n
<1>15. Raw(w, uids)
  BY <1>2, <1>5, <1>6, <1>12, <1>13, <1>14 DEF Raw
<1> QED BY <1>5, <1>6, <1>15 DEF w, n

\* New nodes that are linked among themselves, the tops of them under `parent',
\* with their distance from it.
Sprout(new, lev, parent, tops) ==
  /\ Typed(new) /\ tops \in Seq(DOMAIN new) /\ IsInjective(tops)
  /\ lev \in [DOMAIN new -> Nat \ {0}]
  /\ \A i \in DOMAIN new :
       \/ i \in ToSet(tops) /\ lev[i] = 1
       \/ /\ new[i].parent \in DOMAIN new /\ i \in Kids(new, new[i].parent)
          /\ lev[i] = lev[new[i].parent] + 1
  /\ \A i \in ToSet(tops) : new[i].parent = parent
  /\ \A i \in DOMAIN new : \A c \in Kids(new, i) : c \in DOMAIN new /\ new[c].parent = i

\* m is n with the new nodes in it.
Grafted(m, n, new, parent, tops) ==
  /\ Typed(m) /\ DOMAIN m = DOMAIN n \cup DOMAIN new
  /\ \A i \in DOMAIN new : m[i] = new[i]
  /\ \A i \in DOMAIN n : /\ m[i].parent = n[i].parent
                         /\ Kids(m, i) = Kids(n, i) \cup (IF i = parent THEN ToSet(tops) ELSE {})

LEMMA GraftTree ==
  ASSUME NEW n, NEW dep, Tree(n, dep), NEW parent \in DOMAIN n,
         NEW new, NEW lev, NEW tops, Sprout(new, lev, parent, tops),
         DOMAIN new \cap DOMAIN n = {}, \A i \in DOMAIN new : dep[parent] + lev[i] <= MaxDepth,
         NEW m, Grafted(m, n, new, parent, tops)
  PROVE  IsTree(m)
<1> DEFINE up == [i \in DOMAIN m |-> IF i \in DOMAIN n THEN dep[i] ELSE dep[parent] + lev[i]]
<1>a. /\ Typed(m) /\ DOMAIN m = DOMAIN n \cup DOMAIN new
      /\ \A i \in DOMAIN new : m[i] = new[i]
      /\ \A i \in DOMAIN n : /\ m[i].parent = n[i].parent
                             /\ Kids(m, i) = Kids(n, i) \cup (IF i = parent THEN ToSet(tops) ELSE {})
  BY DEF Grafted
<1>1. /\ Root \in DOMAIN n /\ n[Root].parent = None
      /\ \A i \in DOMAIN n \ {Root} : n[i].parent \in DOMAIN n /\ i \in Kids(n, n[i].parent)
      /\ \A i \in DOMAIN n : \A c \in Kids(n, i) : c \in DOMAIN n /\ n[c].parent = i
      /\ dep \in [DOMAIN n -> 0 .. MaxDepth] /\ dep[Root] = 0
      /\ \A i \in DOMAIN n \ {Root} : dep[i] = dep[n[i].parent] + 1
  BY DEF Tree, Linked, Levels
<1>2. /\ lev \in [DOMAIN new -> Nat \ {0}] /\ ToSet(tops) \subseteq DOMAIN new
      /\ \A i \in ToSet(tops) : new[i].parent = parent
      /\ \A i \in DOMAIN new : \A c \in Kids(new, i) : c \in DOMAIN new /\ new[c].parent = i
      /\ \A i \in DOMAIN new :
           \/ i \in ToSet(tops) /\ lev[i] = 1
           \/ /\ new[i].parent \in DOMAIN new /\ i \in Kids(new, new[i].parent)
              /\ lev[i] = lev[new[i].parent] + 1
  BY MembersOf DEF Sprout
<1>3. \A i \in DOMAIN new : Kids(m, i) = Kids(new, i) /\ i \notin DOMAIN n
  BY <1>a DEF Kids
<1>4. Linked(m)
  <2>1. Root \in DOMAIN m /\ m[Root].parent = None
    BY <1>a, <1>1
  <2>2. ASSUME NEW i \in DOMAIN m \ {Root} PROVE m[i].parent \in DOMAIN m /\ i \in Kids(m, m[i].parent)
    <3>1. CASE i \in DOMAIN n
      BY <1>a, <1>1, <3>1
    <3>2. CASE i \in DOMAIN new
      BY <1>a, <1>2, <1>3, <3>2
    <3> QED BY <1>a, <3>1, <3>2
  <2>3. ASSUME NEW i \in DOMAIN m, NEW c \in Kids(m, i) PROVE c \in DOMAIN m /\ m[c].parent = i
    <3>1. CASE i \in DOMAIN new
      BY <1>a, <1>2, <1>3, <2>3, <3>1
    <3>2. CASE i \in DOMAIN n /\ c \in Kids(n, i)
      BY <1>a, <1>1, <3>2
    <3>3. CASE i \in DOMAIN n /\ c \notin Kids(n, i)
      <4>1. i = parent /\ c \in ToSet(tops)
        BY <1>a, <2>3, <3>3
      <4> QED BY <1>a, <1>2, <4>1
    <3> QED BY <1>a, <3>1, <3>2, <3>3
  <2> QED BY <2>1, <2>2, <2>3 DEF Linked
<1>5. \A i \in DOMAIN n : up[i] = dep[i] /\ up[i] \in 0 .. MaxDepth
  BY <1>a, <1>1
<1>6. \A i \in DOMAIN new : up[i] = dep[parent] + lev[i] /\ up[i] \in 0 .. MaxDepth
  <2> TAKE i \in DOMAIN new
  <2>1. up[i] = dep[parent] + lev[i]
    BY <1>a, <1>3
  <2>2. dep[parent] \in Nat /\ lev[i] \in Nat /\ dep[parent] + lev[i] <= MaxDepth
    BY <1>1, <1>2, MaxDepthNat
  <2> HIDE DEF up
  <2> QED BY <2>1, <2>2, MaxDepthNat
<1>7. up \in [DOMAIN m -> 0 .. MaxDepth]
  <2>1. up = [i \in DOMAIN m |-> up[i]]
    OBVIOUS
  <2> HIDE DEF up
  <2> QED BY <1>a, <1>5, <1>6, <2>1
<1>8. ASSUME NEW i \in DOMAIN m \ {Root} PROVE up[i] = up[m[i].parent] + 1
  <2> HIDE DEF up
  <2>1. CASE i \in DOMAIN n
    <3>1. m[i].parent = n[i].parent /\ n[i].parent \in DOMAIN n /\ dep[i] = dep[n[i].parent] + 1
      BY <1>a, <1>1, <2>1
    <3> QED BY <1>5, <2>1, <3>1
  <2>2. CASE i \in DOMAIN new /\ i \in ToSet(tops) /\ lev[i] = 1
    <3>1. m[i].parent = parent /\ up[parent] = dep[parent] /\ up[i] = dep[parent] + 1
      BY <1>a, <1>2, <1>5, <1>6, <2>2
    <3> QED BY <3>1
  <2>3. CASE /\ i \in DOMAIN new /\ new[i].parent \in DOMAIN new
             /\ lev[i] = lev[new[i].parent] + 1
    <3>1. up[i] = dep[parent] + lev[i] /\ up[m[i].parent] = dep[parent] + lev[new[i].parent]
      BY <1>a, <1>6, <2>3
    <3>2. dep[parent] \in Int /\ lev[new[i].parent] \in Int
      BY <1>1, <1>2, <2>3
    <3> QED BY <2>3, <3>1, <3>2
  <2> QED BY <1>a, <1>2, <2>1, <2>2, <2>3
<1>9. Levels(m, up)
  <2>1. up[Root] = 0
    BY <1>a, <1>1
  <2> HIDE DEF up
  <2> QED BY <1>7, <1>8, <2>1 DEF Levels
<1>10. Tree(m, up)
  <2> HIDE DEF up
  <2> QED BY <1>a, <1>4, <1>9 DEF Tree
<1> QED BY <1>10 DEF IsTree

LEMMA OverTyped ==
  ASSUME NEW n, Typed(n), NEW new, Typed(new), DOMAIN new \cap DOMAIN n = {}
  PROVE  /\ Typed(Over(n, new)) /\ DOMAIN Over(n, new) = DOMAIN n \cup DOMAIN new
         /\ \A i \in DOMAIN n : Over(n, new)[i] = n[i]
         /\ \A i \in DOMAIN new : Over(n, new)[i] = new[i]
<1> DEFINE m == Over(n, new)
<1>1. /\ IsFiniteSet(DOMAIN n) /\ DOMAIN n \subseteq Nat \ {0} /\ n \in [DOMAIN n -> Node]
      /\ IsFiniteSet(DOMAIN new) /\ DOMAIN new \subseteq Nat \ {0} /\ new \in [DOMAIN new -> Node]
  BY DEF Typed
<1>2. /\ DOMAIN m = DOMAIN n \cup DOMAIN new
      /\ \A x \in DOMAIN n : m[x] = n[x]
      /\ \A x \in DOMAIN new \ DOMAIN n : m[x] = new[x]
  BY OverIs
<1>3. m = [x \in DOMAIN m |-> m[x]]
  BY OverMaps
<1> HIDE DEF m
<1>4. \A i \in DOMAIN new : m[i] = new[i]
  BY <1>2
<1>5. IsFiniteSet(DOMAIN m)
  <2>1. IsFiniteSet(DOMAIN n \cup DOMAIN new)
    BY <1>1, FS_Union, Zenon
  <2> QED BY <1>2, <2>1, Zenon
<1>6. m \in [DOMAIN m -> Node]
  <2>1. \A i \in DOMAIN n : n[i] \in Node
    BY <1>1
  <2>2. \A i \in DOMAIN new : new[i] \in Node
    BY <1>1
  <2>3. \A i \in DOMAIN m : m[i] \in Node
    BY <1>2, <1>4, <2>1, <2>2, Zenon
  <2> QED BY <1>3, <2>3
<1>7. Typed(m)
  BY <1>1, <1>2, <1>5, <1>6 DEF Typed
<1> QED BY <1>2, <1>4, <1>7 DEF m

\* A document with another selection.
LEMMA SelectRaw ==
  ASSUME NEW d, NEW uids, Raw(d, uids), NEW s \in Int, NEW S \in SUBSET Int, s # None
  PROVE  Raw([d EXCEPT !.selected = s, !.selection = S], uids)
<1> DEFINE w == [d EXCEPT !.selected = s, !.selection = S]
<1>1. IsDocument(d)
  BY DEF Raw
<1>2. /\ w.nodes = d.nodes /\ w.connections = d.connections /\ w.layout = d.layout
      /\ w.manual = d.manual /\ w.look = d.look /\ w.nextId = d.nextId
      /\ w.selected = s /\ w.selection = S /\ IsDocument(w)
  BY <1>1 DEF IsDocument
<1> HIDE DEF w
<1>3. Joins(w)
  BY <1>2 DEF Joins, Raw
<1>4. Raw(w, uids)
  BY <1>2, <1>3 DEF Raw
<1> QED BY <1>4 DEF w

\* New nodes under a node of a document.
LEMMA GrownRaw ==
  ASSUME NEW d, NEW uids, Sound(d, uids), NEW parent \in DOMAIN d.nodes, NEW sibling,
         NEW new, NEW lev, NEW tops, Sprout(new, lev, parent, tops),
         ValidNodes(new), Distinct(new), IdentitiesOf(new) \cap IdentitiesOf(d.nodes) = {},
         IdentitiesOf(new) \subseteq uids,
         DOMAIN new \subseteq d.nextId .. d.nextId + Cardinality(DOMAIN new) - 1,
         Cardinality(DOMAIN d.nodes) + Cardinality(DOMAIN new) <= MaxNodes,
         \A i \in DOMAIN new : Depth(d.nodes, parent) + lev[i] <= MaxDepth
  PROVE  Raw([d EXCEPT !.nodes = Over([d.nodes EXCEPT
                         ![parent].children = After(d.nodes[parent].children, sibling, tops),
                         ![parent].folded = FALSE], new),
                       !.nextId = @ + Cardinality(DOMAIN new)], uids)
<1> DEFINE n == d.nodes
           ch == After(n[parent].children, sibling, tops)
           f == [n EXCEPT ![parent].children = ch, ![parent].folded = FALSE]
           m == Over(f, new)
           next == d.nextId + Cardinality(DOMAIN new)
           w == [d EXCEPT !.nodes = m, !.nextId = next]
<1>1. PICK dep : Tree(n, dep)
  BY DEF Sound, Raw, IsTree
<1>2. IsDocument(d) /\ ValidNodes(n) /\ Distinct(n) /\ IdentitiesOf(n) \subseteq uids
      /\ Cardinality(DOMAIN n) <= MaxNodes /\ Joins(d) /\ ~(d.layout = "Compact" /\ d.manual)
      /\ DOMAIN n \subseteq 1 .. d.nextId - 1 /\ (d.selected = None => d.selection = {})
  BY DEF Sound, Raw
<1>3. Typed(n) /\ Typed(new) /\ n \in [DOMAIN n -> Node] /\ parent \in DOMAIN n
      /\ IsFiniteSet(DOMAIN n) /\ IsFiniteSet(DOMAIN new) /\ tops \in Seq(DOMAIN new) /\ IsInjective(tops)
      /\ DOMAIN new \subseteq Int
  BY <1>1 DEF Tree, Typed, Sprout
<1>4. Cardinality(DOMAIN new) \in Nat /\ Cardinality(DOMAIN n) \in Nat /\ d.nextId \in Nat
  BY <1>2, <1>3, FS_CardinalityType DEF IsDocument
<1>a. next = d.nextId + Cardinality(DOMAIN new) /\ next \in Nat
      /\ DOMAIN new \subseteq d.nextId .. next - 1
  BY <1>4
<1>5. DOMAIN new \cap DOMAIN n = {}
  BY <1>2, <1>4
<1>6. n[parent] \in Node /\ n[parent].children \in Seq(Int) /\ ValidNode(n[parent])
  BY <1>2, <1>3 DEF Node, ValidNodes
<1>7. tops \in Seq(Int) /\ ToSet(tops) \subseteq DOMAIN new
  <2>1. ToSet(tops) \subseteq DOMAIN new
    BY <1>3, MembersOf
  <2>2. tops \in Seq(Int)
    BY <1>3
  <2> QED BY <2>1, <2>2
<1>8. ch \in Seq(Int) /\ ToSet(ch) = Kids(n, parent) \cup ToSet(tops) /\ IsInjective(ch)
  <2>1. IsInjective(n[parent].children)
    BY <1>6 DEF ValidNode, IsInjective
  <2>2. ToSet(n[parent].children) \cap ToSet(tops) = {}
    <3>1. Kids(n, parent) \subseteq DOMAIN n
      BY <1>1, <1>3 DEF Tree, Linked
    <3> QED BY <1>5, <1>7, <3>1 DEF Kids
  <2>3. n[parent].children \in Seq(Int)
    BY <1>6
  <2> DEFINE kids == n[parent].children
  <2> HIDE DEF kids
  <2>4. After(kids, sibling, tops) \in Seq(Int) /\ ToSet(After(kids, sibling, tops)) = ToSet(kids) \cup ToSet(tops)
        /\ IsInjective(After(kids, sibling, tops))
    BY <1>3, <1>7, <2>1, <2>2, <2>3, Inserted DEF kids
  <2> QED BY <2>4 DEF kids, Kids
<1> HIDE DEF n, ch
<1>b. /\ Typed(f) /\ DOMAIN f = DOMAIN n
      /\ \A i \in DOMAIN n : i # parent => f[i] = n[i]
      /\ f[parent].children = ch /\ f[parent].parent = n[parent].parent
      /\ f[parent].syncId = n[parent].syncId /\ f[parent].kind = n[parent].kind
      /\ f[parent].meeting = n[parent].meeting /\ f[parent].task = n[parent].task
      /\ f[parent].checked = n[parent].checked
  <2>1. /\ DOMAIN f = DOMAIN n /\ f[parent] = [n[parent] EXCEPT !.children = ch, !.folded = FALSE]
        /\ \A i \in DOMAIN n : i # parent => f[i] = n[i]
    BY <1>3, <1>6 DEF Node
  <2>3. f = [i \in DOMAIN f |-> f[i]]
    BY <1>3
  <2> HIDE DEF f
  <2>2. /\ f[parent].children = ch /\ f[parent].parent = n[parent].parent
        /\ f[parent].syncId = n[parent].syncId /\ f[parent].kind = n[parent].kind
        /\ f[parent].meeting = n[parent].meeting /\ f[parent].task = n[parent].task
        /\ f[parent].checked = n[parent].checked /\ f[parent] \in Node
    <3> DEFINE x == n[parent]
               y == f[parent]
    <3>1. x \in Node /\ y = [x EXCEPT !.children = ch, !.folded = FALSE]
      BY <1>6, <2>1
    <3> HIDE DEF x, y
    <3>2. /\ y.children = ch /\ y.parent = x.parent /\ y.syncId = x.syncId /\ y.kind = x.kind
          /\ y.meeting = x.meeting /\ y.task = x.task /\ y.checked = x.checked /\ y \in Node
      BY <1>8, <3>1 DEF Node
    <3> QED BY <3>2 DEF x, y
  <2>4. f \in [DOMAIN f -> Node]
    BY <1>3, <2>1, <2>2, <2>3
  <2>5. Typed(f)
    BY <1>3, <2>1, <2>4 DEF Typed
  <2> QED BY <2>1, <2>2, <2>5
<1> HIDE DEF f
<1>9. /\ Typed(m) /\ DOMAIN m = DOMAIN n \cup DOMAIN new
      /\ \A i \in DOMAIN new : m[i] = new[i]
      /\ \A i \in DOMAIN n : i # parent => m[i] = n[i]
      /\ m[parent].children = ch /\ m[parent].parent = n[parent].parent
      /\ m[parent].syncId = n[parent].syncId /\ m[parent].kind = n[parent].kind
      /\ m[parent].meeting = n[parent].meeting /\ m[parent].task = n[parent].task
      /\ m[parent].checked = n[parent].checked
  <2>1. /\ Typed(m) /\ DOMAIN m = DOMAIN f \cup DOMAIN new
        /\ \A i \in DOMAIN f : m[i] = f[i]
        /\ \A i \in DOMAIN new : m[i] = new[i]
    <3>1. DOMAIN new \cap DOMAIN f = {} /\ Typed(f) /\ Typed(new)
      BY <1>3, <1>5, <1>b
    <3>2. /\ Typed(Over(f, new)) /\ DOMAIN Over(f, new) = DOMAIN f \cup DOMAIN new
          /\ \A i \in DOMAIN f : Over(f, new)[i] = f[i]
          /\ \A i \in DOMAIN new : Over(f, new)[i] = new[i]
      <4> HIDE DEF f
      <4> QED BY <3>1, OverTyped, ZenonT(40)
    <3> QED BY <3>2
  <2> HIDE DEF m
  <2> QED BY <1>3, <1>b, <2>1
<1> HIDE DEF m, next
<1>10. \A i \in DOMAIN n : /\ m[i].parent = n[i].parent /\ m[i].syncId = n[i].syncId
                           /\ Kids(m, i) = Kids(n, i) \cup (IF i = parent THEN ToSet(tops) ELSE {})
  BY <1>8, <1>9 DEF Kids
<1>11. IsTree(m)
  <2>1. Depth(n, parent) = dep[parent]
    BY <1>1, <1>3, AncestorsOf
  <2>2. \A i \in DOMAIN new : dep[parent] + lev[i] <= MaxDepth
    BY <2>1 DEF n
  <2>3. Sprout(new, lev, parent, tops)
    OBVIOUS
  <2>4. Grafted(m, n, new, parent, tops)
    BY <1>9, <1>10 DEF Grafted
  <2>5. Tree(n, dep) /\ parent \in DOMAIN n
    BY <1>1, <1>3
  <2>6. DOMAIN new \cap DOMAIN n = {}
    BY <1>5
  <2> HIDE DEF w
  <2> QED BY <2>2, <2>3, <2>4, <2>5, <2>6, GraftTree
<1>12. ValidNodes(m)
  <2>1. ValidNode(m[parent])
    BY <1>6, <1>8, <1>9 DEF ValidNode, IsInjective
  <2> QED BY <1>2, <1>9, <2>1 DEF ValidNodes
<1>13. IdentitiesOf(m) \subseteq uids /\ Distinct(m)
  <2>1. \A i \in DOMAIN new : m[i].syncId = new[i].syncId /\ new[i].syncId \in IdentitiesOf(new)
    BY <1>9 DEF IdentitiesOf
  <2>2. \A i \in DOMAIN n : m[i].syncId = n[i].syncId /\ n[i].syncId \in IdentitiesOf(n)
    BY <1>10 DEF IdentitiesOf
  <2>3. IdentitiesOf(new) \cap IdentitiesOf(n) = {} /\ IdentitiesOf(new) \subseteq uids
    BY DEF n
  <2>4. Distinct(m)
    <3> SUFFICES ASSUME NEW i \in DOMAIN m, NEW j \in DOMAIN m, m[i].syncId = m[j].syncId
                 PROVE  i = j
      BY DEF Distinct
    <3>1. CASE i \in DOMAIN n /\ j \in DOMAIN n
      BY <1>2, <2>2, <3>1 DEF Distinct
    <3>2. CASE i \in DOMAIN new /\ j \in DOMAIN new
      BY <2>1, <3>2 DEF Distinct
    <3>3. CASE i \in DOMAIN n /\ j \in DOMAIN new
      BY <2>1, <2>2, <2>3, <3>3
    <3>4. CASE i \in DOMAIN new /\ j \in DOMAIN n
      BY <2>1, <2>2, <2>3, <3>4
    <3> QED BY <1>9, <3>1, <3>2, <3>3, <3>4
  <2>5. IdentitiesOf(m) \subseteq uids
    <3> SUFFICES ASSUME NEW i \in DOMAIN m PROVE m[i].syncId \in uids
      BY DEF IdentitiesOf
    <3> QED BY <1>2, <1>9, <2>1, <2>2, <2>3
  <2> QED BY <2>4, <2>5
<1>14. /\ w.nodes = m /\ w.connections = d.connections /\ w.layout = d.layout /\ w.manual = d.manual
       /\ w.selected = d.selected /\ w.selection = d.selection /\ w.nextId = next /\ IsDocument(w)
  BY <1>2, <1>a DEF IsDocument
<1> HIDE DEF w
<1>15. Cardinality(DOMAIN m) <= MaxNodes
  <2>1. Cardinality(DOMAIN n \cup DOMAIN new)
          = Cardinality(DOMAIN n) + Cardinality(DOMAIN new) - Cardinality(DOMAIN n \cap DOMAIN new)
    BY <1>3, FS_Union
  <2>2. Cardinality(DOMAIN n \cap DOMAIN new) = 0
    BY <1>5, FS_EmptySet
  <2>3. Cardinality(DOMAIN n) + Cardinality(DOMAIN new) <= MaxNodes
    BY DEF n
  <2> QED BY <1>4, <1>9, <2>1, <2>2, <2>3
<1>16. DOMAIN m \subseteq 1 .. w.nextId - 1
  <2>1. DOMAIN n \subseteq 1 .. next - 1
    BY <1>2, <1>4, <1>a
  <2>2. DOMAIN new \subseteq 1 .. next - 1
    <3>2. d.nextId >= 1
      BY <1>2, <1>4, <1>3
    <3> QED BY <1>4, <1>a, <3>2
  <2> QED BY <1>9, <1>14, <2>1, <2>2
<1>17. Joins(w)
  BY <1>2, <1>9, <1>14 DEF Joins, n
<1>18. Raw(w, uids)
  BY <1>2, <1>11, <1>12, <1>13, <1>14, <1>15, <1>16, <1>17 DEF Raw
<1> QED BY <1>18 DEF w, m, f, n, next, ch

-----------------------------------------------------------------------------
(***************************************************************************)
(* Other numbers for the nodes.                                            *)
(***************************************************************************)
Relabelled(m, n, N) ==
  /\ N \in [DOMAIN n -> Nat \ {0}] /\ \A i, j \in DOMAIN n : N[i] = N[j] => i = j
  /\ DOMAIN m = {N[i] : i \in DOMAIN n} /\ m = [k \in DOMAIN m |-> m[k]]
  /\ \A i \in DOMAIN n :
       /\ Same(m[N[i]], n[i]) /\ m[N[i]] \in Node
       /\ m[N[i]].parent = (IF i = Root THEN None ELSE N[n[i].parent])
       /\ m[N[i]].children = [k \in DOMAIN n[i].children |-> N[n[i].children[k]]]

LEMMA RelabelledTree ==
  ASSUME NEW n, NEW dep, Tree(n, dep), NEW m, NEW N, Relabelled(m, n, N), N[Root] = Root
  PROVE  /\ IsTree(m) /\ IdentitiesOf(m) = IdentitiesOf(n)
         /\ ValidNodes(n) => ValidNodes(m)
         /\ Distinct(n) => Distinct(m)
         /\ Settled(n) => Settled(m)
         /\ Cardinality(DOMAIN m) = Cardinality(DOMAIN n)
         /\ \A i \in DOMAIN n : Kids(m, N[i]) = {N[c] : c \in Kids(n, i)}
<1> DEFINE pre(k) == CHOOSE i \in DOMAIN n : N[i] = k
           up == [k \in DOMAIN m |-> dep[pre(k)]]
<1>1. /\ IsFiniteSet(DOMAIN n) /\ DOMAIN n \subseteq Nat \ {0} /\ n \in [DOMAIN n -> Node]
      /\ Root \in DOMAIN n /\ n[Root].parent = None
      /\ \A i \in DOMAIN n \ {Root} : n[i].parent \in DOMAIN n /\ i \in Kids(n, n[i].parent)
      /\ \A i \in DOMAIN n : \A c \in Kids(n, i) : c \in DOMAIN n /\ n[c].parent = i /\ c # Root
      /\ dep \in [DOMAIN n -> 0 .. MaxDepth] /\ dep[Root] = 0
      /\ \A i \in DOMAIN n \ {Root} : dep[i] = dep[n[i].parent] + 1
  BY KidsDeeper DEF Tree, Typed, Linked, Levels
<1>2. /\ N \in [DOMAIN n -> Nat \ {0}] /\ \A i, j \in DOMAIN n : N[i] = N[j] => i = j
      /\ DOMAIN m = {N[i] : i \in DOMAIN n} /\ m = [k \in DOMAIN m |-> m[k]]
      /\ \A i \in DOMAIN n :
           /\ N[i] \in DOMAIN m
           /\ Same(m[N[i]], n[i]) /\ m[N[i]] \in Node
           /\ m[N[i]].parent = (IF i = Root THEN None ELSE N[n[i].parent])
           /\ m[N[i]].children = [k \in DOMAIN n[i].children |-> N[n[i].children[k]]]
  BY DEF Relabelled
<1>3. \A k \in DOMAIN m : \E i \in DOMAIN n : k = N[i]
  BY <1>2
<1>4. \A i \in DOMAIN n : pre(N[i]) = i
  BY <1>2
<1>5. ASSUME NEW i \in DOMAIN n PROVE Kids(m, N[i]) = {N[c] : c \in Kids(n, i)}
  <2>1. m[N[i]].children = [k \in DOMAIN n[i].children |-> N[n[i].children[k]]]
    BY <1>2
  <2> DEFINE ch == n[i].children
  <2>2. ToSet(m[N[i]].children) = {N[ch[k]] : k \in DOMAIN ch}
    BY <2>1 DEF ToSet
  <2>3. {N[c] : c \in Kids(n, i)} = {N[ch[k]] : k \in DOMAIN ch}
    BY DEF Kids, ToSet
  <2> QED BY <2>2, <2>3 DEF Kids
<1>6. Typed(m)
  <2>1. \A k \in DOMAIN m : m[k] \in Node /\ k \in Nat \ {0}
    <3> TAKE k \in DOMAIN m
    <3>1. PICK i \in DOMAIN n : k = N[i]
      BY <1>3
    <3>2. m[N[i]] \in Node /\ N[i] \in Nat \ {0}
      BY <1>2
    <3> QED BY <3>1, <3>2
  <2>2. m \in [DOMAIN m -> Node] /\ DOMAIN m \subseteq Nat \ {0}
    BY <1>2, <2>1
  <2>3. IsFiniteSet(DOMAIN m) /\ Cardinality(DOMAIN m) = Cardinality(DOMAIN n)
    <3>1. N \in Bijection(DOMAIN n, DOMAIN m)
      BY <1>2 DEF Bijection, Injection, Surjection, IsInjective
    <3>2. ExistsBijection(DOMAIN n, DOMAIN m)
      BY <3>1 DEF ExistsBijection
    <3> QED BY <1>1, <3>2, FS_Bijection
  <2> QED BY <2>2, <2>3 DEF Typed
<1>7. Cardinality(DOMAIN m) = Cardinality(DOMAIN n)
  <2>1. N \in Bijection(DOMAIN n, DOMAIN m)
    BY <1>2 DEF Bijection, Injection, Surjection, IsInjective
  <2>2. ExistsBijection(DOMAIN n, DOMAIN m)
    BY <2>1 DEF ExistsBijection
  <2> QED BY <1>1, <2>2, FS_Bijection
<1>8. Linked(m)
  <2>1. Root \in DOMAIN m /\ m[Root].parent = None
    <3>1. N[Root] \in DOMAIN m /\ m[N[Root]].parent = None
      BY <1>1, <1>2
    <3>2. N[Root] = Root
      OBVIOUS
    <3> HIDE DEF Root
    <3> QED BY <3>1, <3>2
  <2>2. ASSUME NEW k \in DOMAIN m \ {Root} PROVE m[k].parent \in DOMAIN m /\ k \in Kids(m, m[k].parent)
    <3>1. PICK i \in DOMAIN n : k = N[i]
      BY <1>3
    <3>2. i # Root /\ n[i].parent \in DOMAIN n /\ i \in Kids(n, n[i].parent)
      BY <1>1, <3>1
    <3>3. m[k].parent = N[n[i].parent]
      BY <1>2, <3>1, <3>2
    <3>4. Kids(m, N[n[i].parent]) = {N[c] : c \in Kids(n, n[i].parent)}
      BY <1>5, <3>2
    <3> QED BY <1>2, <3>1, <3>2, <3>3, <3>4
  <2>3. ASSUME NEW k \in DOMAIN m, NEW c \in Kids(m, k) PROVE c \in DOMAIN m /\ m[c].parent = k
    <3>1. PICK i \in DOMAIN n : k = N[i]
      BY <1>3
    <3>2. PICK j \in Kids(n, i) : c = N[j]
      BY <1>5, <2>3, <3>1
    <3>3. j \in DOMAIN n /\ n[j].parent = i /\ j # Root
      BY <1>1, <3>2
    <3> QED BY <1>2, <3>1, <3>2, <3>3
  <2> QED BY <2>1, <2>2, <2>3 DEF Linked
<1>9. \A i \in DOMAIN n : up[N[i]] = dep[i]
  <2> TAKE i \in DOMAIN n
  <2>1. up[N[i]] = dep[pre(N[i])]
    BY <1>2
  <2> HIDE DEF up, pre
  <2> QED BY <1>4, <2>1
<1>10. up = [k \in DOMAIN m |-> up[k]]
  OBVIOUS
<1> HIDE DEF up, pre
<1>11. Levels(m, up)
  <2>1. up \in [DOMAIN m -> 0 .. MaxDepth]
    <3>1. \A k \in DOMAIN m : up[k] \in 0 .. MaxDepth
      BY <1>1, <1>3, <1>9
    <3> QED BY <1>10, <3>1
  <2>2. up[Root] = 0
    BY <1>1, <1>9
  <2>3. ASSUME NEW k \in DOMAIN m \ {Root} PROVE up[k] = up[m[k].parent] + 1
    <3>1. PICK i \in DOMAIN n : k = N[i]
      BY <1>3
    <3>2. i # Root /\ n[i].parent \in DOMAIN n /\ dep[i] = dep[n[i].parent] + 1
      BY <1>1, <3>1
    <3>3. m[k].parent = N[n[i].parent]
      BY <1>2, <3>1, <3>2
    <3> QED BY <1>9, <3>1, <3>2, <3>3
  <2> QED BY <2>1, <2>2, <2>3 DEF Levels
<1>12. IsTree(m)
  BY <1>6, <1>8, <1>11 DEF Tree, IsTree
<1>13. IdentitiesOf(m) = IdentitiesOf(n)
  <2>1. \A i \in DOMAIN n : m[N[i]].syncId = n[i].syncId
    BY <1>2 DEF Same
  <2>2. \A i \in DOMAIN n : n[i].syncId \in IdentitiesOf(m)
    BY <1>2, <2>1 DEF IdentitiesOf
  <2>3. \A k \in DOMAIN m : m[k].syncId \in IdentitiesOf(n)
    BY <1>3, <2>1 DEF IdentitiesOf
  <2> QED BY <2>2, <2>3 DEF IdentitiesOf
<1>14. ASSUME Distinct(n) PROVE Distinct(m)
  <2> SUFFICES ASSUME NEW k \in DOMAIN m, NEW l \in DOMAIN m, m[k].syncId = m[l].syncId PROVE k = l
    BY DEF Distinct
  <2>1. PICK i \in DOMAIN n, j \in DOMAIN n : k = N[i] /\ l = N[j]
    BY <1>3
  <2>2. n[i].syncId = n[j].syncId
    BY <1>2, <2>1 DEF Same
  <2> QED BY <1>14, <2>1, <2>2 DEF Distinct
<1>15. ASSUME ValidNodes(n) PROVE ValidNodes(m)
  <2> SUFFICES ASSUME NEW k \in DOMAIN m PROVE ValidNode(m[k])
    BY DEF ValidNodes
  <2>1. PICK i \in DOMAIN n : k = N[i]
    BY <1>3
  <2>2. ValidNode(n[i]) /\ Same(m[k], n[i])
    BY <1>2, <1>15, <2>1 DEF ValidNodes
  <2> DEFINE ch == n[i].children
             mh == m[k].children
  <2>3. mh = [p \in DOMAIN ch |-> N[ch[p]]]
    BY <1>2, <2>1
  <2>4. \A p \in DOMAIN ch : ch[p] \in DOMAIN n
    BY <1>1 DEF Kids, ToSet
  <2>5. \A p, q \in DOMAIN ch : ch[p] = ch[q] => p = q
    BY <2>2 DEF ValidNode
  <2> HIDE DEF ch, mh
  <2>6. \A p, q \in DOMAIN mh : mh[p] = mh[q] => p = q
    BY <1>2, <2>3, <2>4, <2>5
  <2> QED BY <2>2, <2>6 DEF ValidNode, Same, mh
<1>16. ASSUME Settled(n) PROVE Settled(m)
  <2> SUFFICES ASSUME NEW k \in DOMAIN m, m[k].kind = "text", ~m[k].meeting, TasksOf(m, k) # {}
               PROVE  m[k].task /\ (m[k].checked <=> \A c \in TasksOf(m, k) : m[c].checked)
    BY DEF Settled
  <2>1. PICK i \in DOMAIN n : k = N[i]
    BY <1>3
  <2>2. \A j \in DOMAIN n : m[N[j]].task = n[j].task /\ m[N[j]].checked = n[j].checked
                            /\ m[N[j]].kind = n[j].kind /\ m[N[j]].meeting = n[j].meeting
    BY <1>2 DEF Same
  <2>3. TasksOf(m, k) = {N[c] : c \in TasksOf(n, i)}
    <3>1. Kids(m, k) = {N[c] : c \in Kids(n, i)}
      BY <1>5, <2>1
    <3>2. \A c \in Kids(n, i) : m[N[c]].task = n[c].task
      BY <1>1, <2>2
    <3> QED BY <3>1, <3>2 DEF TasksOf
  <2>4. TasksOf(n, i) # {} /\ TasksOf(n, i) \subseteq DOMAIN n
    BY <1>1, <2>3 DEF TasksOf
  <2>5. n[i].task /\ (n[i].checked <=> \A c \in TasksOf(n, i) : n[c].checked)
    BY <1>16, <2>1, <2>2, <2>4 DEF Settled
  <2>6. (\A c \in TasksOf(m, k) : m[c].checked) <=> \A c \in TasksOf(n, i) : n[c].checked
    BY <2>2, <2>3, <2>4
  <2> QED BY <2>1, <2>2, <2>5, <2>6
<1> QED BY <1>5, <1>7, <1>12, <1>13, <1>14, <1>15, <1>16

-----------------------------------------------------------------------------
(***************************************************************************)
(* Sequences that are gathered from the leaves upwards.                    *)
(***************************************************************************)
LEMMA UpRecursion ==
  ASSUME NEW n, NEW dep, Tree(n, dep), NEW T, NEW none \in T,
         NEW V \in [[DOMAIN n -> T] -> [DOMAIN n -> T]],
         \A f, g \in [DOMAIN n -> T] : \A i \in DOMAIN n :
           (\A c \in Kids(n, i) : f[c] = g[c]) => V[f][i] = V[g][i]
  PROVE  \E f \in [DOMAIN n -> T] : f = V[f]
<1> DEFINE Upto(f, k) == \A i \in DOMAIN n : MaxDepth <= dep[i] + k => f[i] = V[f][i]
           Solved == {k \in Nat : \E f \in [DOMAIN n -> T] : Upto(f, k)}
<1>a. \A x, y, z \in Nat : x <= y + (z + 1) /\ x # y + (z + 1) => x <= y + z
  OBVIOUS
<1>1. ASSUME NEW i \in DOMAIN n
      PROVE  dep[i] \in 0 .. MaxDepth /\ \A c \in Kids(n, i) : c \in DOMAIN n /\ dep[c] = dep[i] + 1
  BY KidsDeeper
<1>2. ASSUME NEW f \in [DOMAIN n -> T], NEW g \in [DOMAIN n -> T], NEW i \in DOMAIN n,
             \A c \in Kids(n, i) : f[c] = g[c]
      PROVE  V[f][i] = V[g][i]
  BY <1>2
<1>3. 0 \in Solved
  <2> DEFINE e == [i \in DOMAIN n |-> none]
  <2>1. e \in [DOMAIN n -> T] /\ V[e] \in [DOMAIN n -> T] /\ V[V[e]] \in [DOMAIN n -> T]
    OBVIOUS
  <2> HIDE DEF e
  <2>2. ASSUME NEW i \in DOMAIN n, MaxDepth <= dep[i] + 0 PROVE V[e][i] = V[V[e]][i]
    <3>1. Kids(n, i) = {}
      BY <1>1, <2>2, MaxDepthNat
    <3> QED BY <1>2, <2>1, <3>1
  <2> QED BY <2>1, <2>2
<1>4. ASSUME NEW k \in Solved PROVE k + 1 \in Solved
  <2>1. PICK f \in [DOMAIN n -> T] : Upto(f, k)
    OBVIOUS
  <2> DEFINE g == [i \in DOMAIN n |-> IF MaxDepth = dep[i] + (k + 1) THEN V[f][i] ELSE f[i]]
  <2>a. g \in [DOMAIN n -> T]
    OBVIOUS
  <2>2. ASSUME NEW i \in DOMAIN n, MaxDepth <= dep[i] + (k + 1) PROVE g[i] = V[g][i]
    <3>1. \A c \in Kids(n, i) : g[c] = f[c]
      BY <1>1, <2>2, MaxDepthNat
    <3>2. V[g][i] = V[f][i]
      <4> HIDE DEF g
      <4> QED BY <1>2, <2>a, <3>1
    <3>3. g[i] = V[f][i]
      <4>1. CASE MaxDepth = dep[i] + (k + 1)
        BY <4>1
      <4>2. CASE MaxDepth # dep[i] + (k + 1)
        <5>1. MaxDepth <= dep[i] + k
          <6>1. dep[i] \in Nat /\ k \in Nat
            BY <1>1, MaxDepthNat
          <6>2. MaxDepth \in Nat /\ MaxDepth <= dep[i] + (k + 1) /\ MaxDepth # dep[i] + (k + 1)
            BY <2>2, <4>2, MaxDepthNat
          <6> QED BY <1>a, <6>1, <6>2, Zenon
        <5>2. f[i] = V[f][i]
          BY <2>1, <5>1
        <5> QED BY <4>2, <5>2
      <4> QED BY <4>1, <4>2
    <3> HIDE DEF g
    <3> QED BY <3>2, <3>3
  <2>3. Upto(g, k + 1)
    BY <2>2
  <2> HIDE DEF g
  <2> QED BY <2>a, <2>3
<1>5. MaxDepth \in Solved
  <2> HIDE DEF Solved
  <2>1. Solved \in SUBSET Nat
    BY DEF Solved
  <2>2. Solved = Nat
    BY <1>3, <1>4, <2>1, InductiveSet
  <2> QED BY <2>2, MaxDepthNat
<1>6. PICK f \in [DOMAIN n -> T] : Upto(f, MaxDepth)
  BY <1>5
<1>7. \A i \in DOMAIN n : f[i] = V[f][i]
  BY <1>1, <1>6, MaxDepthNat
<1>8. V[f] \in [DOMAIN n -> T]
  OBVIOUS
<1>9. f = V[f]
  BY <1>7, <1>8
<1> QED BY <1>9

\* What the children of a node have gathered, in their order.
Below(n, f, i) == [k \in DOMAIN n[i].children |-> f[n[i].children[k]]]

LEMMA GatheredUnder ==
  ASSUME NEW n, NEW dep, Tree(n, dep), NEW i \in DOMAIN n, NEW T, NEW f,
         \A c \in Kids(n, i) : f[c] \in Seq(T)
  PROVE  /\ Below(n, f, i) \in Seq(Seq(T)) /\ FlattenSeq(Below(n, f, i)) \in Seq(T)
         /\ ToSet(FlattenSeq(Below(n, f, i))) = UNION {ToSet(f[c]) : c \in Kids(n, i)}
         /\ \A g : (\A c \in Kids(n, i) : f[c] = g[c]) => Below(n, f, i) = Below(n, g, i)
<1> DEFINE ch == n[i].children
           u == Below(n, f, i)
<1>1. ch \in Seq(Int) /\ DOMAIN ch = 1 .. Len(ch) /\ Len(ch) \in Nat
  <2>1. n[i] \in Node
    BY DEF Tree, Typed
  <2>2. ch \in Seq(Int)
    BY <2>1 DEF Node
  <2> QED BY <2>2, LenProperties
<1>2. \A k \in 1 .. Len(ch) : ch[k] \in Kids(n, i)
  BY <1>1 DEF Kids, ToSet
<1>3. u = [k \in 1 .. Len(ch) |-> f[ch[k]]]
  BY <1>1 DEF Below
<1>4. u \in [1 .. Len(ch) -> Seq(T)]
  BY <1>2, <1>3
<1>5. u \in Seq(Seq(T)) /\ Len(u) = Len(ch)
  <2> HIDE DEF u, ch
  <2> QED BY <1>1, <1>4, SeqDef, LenProperties
<1>6. FlattenSeq(u) \in Seq(T) /\ ToSet(FlattenSeq(u)) = UNION {ToSet(u[k]) : k \in 1 .. Len(u)}
  <2> HIDE DEF u
  <2> QED BY <1>5, FlatMembers
<1>7. {ToSet(u[k]) : k \in 1 .. Len(u)} = {ToSet(f[c]) : c \in Kids(n, i)}
  <2>1. Kids(n, i) = {ch[k] : k \in 1 .. Len(ch)}
    BY <1>1 DEF Kids, ToSet
  <2>2. \A k \in 1 .. Len(u) : u[k] = f[ch[k]]
    BY <1>3, <1>5
  <2> HIDE DEF u, ch
  <2>3. ASSUME NEW c \in Kids(n, i) PROVE ToSet(f[c]) \in {ToSet(u[k]) : k \in 1 .. Len(u)}
    <3>1. PICK k \in 1 .. Len(ch) : c = ch[k]
      BY <2>1
    <3> QED BY <1>5, <2>2, <3>1
  <2>4. ASSUME NEW k \in 1 .. Len(u) PROVE ToSet(u[k]) \in {ToSet(f[c]) : c \in Kids(n, i)}
    BY <1>5, <2>1, <2>2
  <2> QED BY <2>3, <2>4
<1>8. ASSUME NEW g, \A c \in Kids(n, i) : f[c] = g[c] PROVE Below(n, f, i) = Below(n, g, i)
  <2>1. \A k \in DOMAIN ch : f[ch[k]] = g[ch[k]]
    BY <1>1, <1>2, <1>8
  <2> QED BY <2>1 DEF Below
<1> QED BY <1>5, <1>6, <1>7, <1>8

\* What BranchRoots and Outline compute at each node.
Roots(n, selection, f) ==
  f = [i \in DOMAIN n |-> IF i \in selection THEN <<i>>
                          ELSE FlattenSeq([k \in DOMAIN n[i].children |-> f[n[i].children[k]]])]

LEMMA RootsExist ==
  ASSUME NEW n, NEW dep, Tree(n, dep), NEW selection
  PROVE  \E f \in [DOMAIN n -> Seq(DOMAIN n)] : Roots(n, selection, f)
<1> DEFINE T == Seq(DOMAIN n)
           V == [f \in [DOMAIN n -> T] |->
                  [i \in DOMAIN n |-> IF i \in selection THEN <<i>> ELSE FlattenSeq(Below(n, f, i))]]
<1>1. \A i \in DOMAIN n : Kids(n, i) \subseteq DOMAIN n
  BY DEF Tree, Linked
<1>2. ASSUME NEW f \in [DOMAIN n -> T], NEW i \in DOMAIN n
      PROVE  /\ FlattenSeq(Below(n, f, i)) \in T
             /\ \A g : (\A c \in Kids(n, i) : f[c] = g[c]) => Below(n, f, i) = Below(n, g, i)
  <2>1. \A c \in Kids(n, i) : f[c] \in Seq(DOMAIN n)
    BY <1>1
  <2> QED BY <2>1, GatheredUnder
<1>3. V \in [[DOMAIN n -> T] -> [DOMAIN n -> T]]
  <2>1. ASSUME NEW f \in [DOMAIN n -> T]
        PROVE  [i \in DOMAIN n |-> IF i \in selection THEN <<i>> ELSE FlattenSeq(Below(n, f, i))]
                 \in [DOMAIN n -> T]
    <3>1. \A i \in DOMAIN n : <<i>> \in T /\ FlattenSeq(Below(n, f, i)) \in T
      BY <1>2
    <3> HIDE DEF T
    <3> QED BY <3>1
  <2> QED BY <2>1
<1>4. \A f, g \in [DOMAIN n -> T] : \A i \in DOMAIN n :
        (\A c \in Kids(n, i) : f[c] = g[c]) => V[f][i] = V[g][i]
  <2> SUFFICES ASSUME NEW f \in [DOMAIN n -> T], NEW g \in [DOMAIN n -> T], NEW i \in DOMAIN n,
                      \A c \in Kids(n, i) : f[c] = g[c]
               PROVE  V[f][i] = V[g][i]
    OBVIOUS
  <2>1. Below(n, f, i) = Below(n, g, i)
    BY <1>2
  <2> HIDE DEF T
  <2>2. /\ V[f][i] = IF i \in selection THEN <<i>> ELSE FlattenSeq(Below(n, f, i))
        /\ V[g][i] = IF i \in selection THEN <<i>> ELSE FlattenSeq(Below(n, g, i))
    OBVIOUS
  <2> QED BY <2>1, <2>2
<1>5. <<>> \in T
  OBVIOUS
<1>6. \E f \in [DOMAIN n -> T] : f = V[f]
  <2> HIDE DEF V, T
  <2> QED BY <1>3, <1>4, <1>5, UpRecursion, ZenonT(40)
<1>7. PICK f \in [DOMAIN n -> T] : f = V[f]
  BY <1>6
<1>8. Roots(n, selection, f)
  BY <1>7 DEF Roots, Below
<1> QED BY <1>8

\* The topmost nodes of a selection: each once, and none in the branch of another.
LEMMA BranchRootsOf ==
  ASSUME NEW n, NEW dep, Tree(n, dep), ValidNodes(n), NEW selection
  PROVE  /\ BranchRoots(n, selection) \in Seq(DOMAIN n) /\ IsInjective(BranchRoots(n, selection))
         /\ ToSet(BranchRoots(n, selection)) \subseteq selection
         /\ \A a, b \in ToSet(BranchRoots(n, selection)) : a \in Branch(n, b) => a = b
<1> DEFINE f == CHOOSE g : Roots(n, selection, g)
           Good(i) == /\ f[i] \in Seq(DOMAIN n) /\ IsInjective(f[i])
                      /\ ToSet(f[i]) \subseteq selection \cap Branch(n, i)
                      /\ \A a, b \in ToSet(f[i]) : a \in Branch(n, b) => a = b
           S == {i \in DOMAIN n : Good(i)}
<1>1. BranchRoots(n, selection) = f[Root]
  BY DEF BranchRoots, Roots
<1>2. Roots(n, selection, f)
  BY RootsExist
<1> HIDE DEF f
<1>3. \A i \in DOMAIN n : f[i] = IF i \in selection THEN <<i>> ELSE FlattenSeq(Below(n, f, i))
  BY <1>2 DEF Roots, Below
<1>4. Root \in DOMAIN n /\ \A i \in DOMAIN n : Kids(n, i) \subseteq DOMAIN n
  BY DEF Tree, Linked
<1>5. ASSUME NEW i \in DOMAIN n, Kids(n, i) \subseteq S PROVE i \in S
  <2>a. i \in Branch(n, i) /\ Branch(n, i) \subseteq DOMAIN n
        /\ \A c \in Kids(n, i) : c \in Branch(n, i) /\ Branch(n, c) \subseteq Branch(n, i)
    BY BranchOf
  <2>1. CASE i \in selection
    <3>1. f[i] = <<i>>
      BY <1>3, <2>1
    <3>2. <<i>> \in Seq(DOMAIN n) /\ IsInjective(<<i>>) /\ ToSet(<<i>>) = {i}
      BY DEF IsInjective, ToSet
    <3> DEFINE one == <<i>>
    <3>3. f[i] = one /\ one \in Seq(DOMAIN n) /\ IsInjective(one) /\ ToSet(one) = {i}
      BY <3>1, <3>2
    <3> HIDE DEF one
    <3> QED BY <2>1, <2>a, <3>3
  <2>2. CASE i \notin selection
    <3> DEFINE u == Below(n, f, i)
               ch == n[i].children
    <3>1. f[i] = FlattenSeq(u)
      BY <1>3, <2>2
    <3>2. \A c \in Kids(n, i) : Good(c)
      BY <1>5
    <3>3. \A c \in Kids(n, i) : f[c] \in Seq(DOMAIN n)
      BY <3>2
    <3>4. /\ u \in Seq(Seq(DOMAIN n)) /\ FlattenSeq(u) \in Seq(DOMAIN n)
          /\ ToSet(FlattenSeq(u)) = UNION {ToSet(f[c]) : c \in Kids(n, i)}
      BY <3>3, GatheredUnder
    <3>5. \A c, e \in Kids(n, i) : c # e => Branch(n, c) \cap Branch(n, e) = {}
      BY KidsApart
    <3>6. Apart(u)
      <4>1. u = [k \in DOMAIN ch |-> f[ch[k]]]
        BY DEF Below
      <4>2. \A k \in DOMAIN ch : ch[k] \in Kids(n, i)
        BY DEF Kids, ToSet
      <4>3. \A j, k \in DOMAIN ch : ch[j] = ch[k] => j = k
        BY DEF ValidNodes, ValidNode
      <4> HIDE DEF u, ch, Good, S
      <4>4. \A k \in DOMAIN ch : IsInjective(f[ch[k]]) /\ ToSet(f[ch[k]]) \subseteq Branch(n, ch[k])
        BY <3>2, <4>2 DEF Good
      <4> SUFFICES ASSUME NEW j \in DOMAIN u, NEW k \in DOMAIN u
                   PROVE  IsInjective(u[k]) /\ (j # k => ToSet(u[j]) \cap ToSet(u[k]) = {})
        BY DEF Apart
      <4>5. u[j] = f[ch[j]] /\ u[k] = f[ch[k]] /\ j \in DOMAIN ch /\ k \in DOMAIN ch
        BY <4>1
      <4>6. j # k => Branch(n, ch[j]) \cap Branch(n, ch[k]) = {}
        BY <3>5, <4>2, <4>3, <4>5
      <4> QED BY <4>4, <4>5, <4>6
    <3>7. IsInjective(FlattenSeq(u))
      BY <3>4, <3>6, FlatMembers
    <3> HIDE DEF u
    <3>8. ToSet(f[i]) \subseteq selection \cap Branch(n, i)
      BY <2>a, <3>1, <3>2, <3>4
    <3>9. ASSUME NEW a \in ToSet(f[i]), NEW b \in ToSet(f[i]), a \in Branch(n, b) PROVE a = b
      <4>1. PICK c \in Kids(n, i) : a \in ToSet(f[c])
        BY <3>1, <3>4
      <4>2. PICK e \in Kids(n, i) : b \in ToSet(f[e])
        BY <3>1, <3>4
      <4>3. a \in Branch(n, c) /\ b \in Branch(n, e) /\ e \in DOMAIN n
        BY <1>4, <3>2, <4>1, <4>2
      <4>4. Branch(n, b) \subseteq Branch(n, e)
        BY <4>3, BranchOf
      <4>5. c = e
        BY <3>5, <3>9, <4>3, <4>4
      <4> QED BY <3>2, <3>9, <4>1, <4>2, <4>5
    <3> QED BY <3>1, <3>4, <3>7, <3>8, <3>9
  <2> QED BY <2>1, <2>2
<1>6. DOMAIN n \subseteq S
  <2> HIDE DEF S
  <2> QED BY <1>5, UpInduction
<1>7. Good(Root)
  BY <1>4, <1>6
<1> QED BY <1>1, <1>7

\* The nodes of a branch in the order of the outline.
Lists(n, f) ==
  f = [i \in DOMAIN n |-> <<i>> \o FlattenSeq([k \in DOMAIN n[i].children |-> f[n[i].children[k]]])]

LEMMA ListsOf ==
  ASSUME NEW n, NEW dep, Tree(n, dep), NEW f, f = CHOOSE g : Lists(n, g)
  PROVE  \A i \in DOMAIN n : f[i] \in Seq(DOMAIN n)
<1> DEFINE T == Seq(DOMAIN n)
           V == [g \in [DOMAIN n -> T] |-> [i \in DOMAIN n |-> <<i>> \o FlattenSeq(Below(n, g, i))]]
<1>1. \A i \in DOMAIN n : Kids(n, i) \subseteq DOMAIN n
  BY DEF Tree, Linked
<1>2. ASSUME NEW h, NEW i \in DOMAIN n, \A c \in Kids(n, i) : h[c] \in T
      PROVE  /\ <<i>> \o FlattenSeq(Below(n, h, i)) \in T
             /\ \A g : (\A c \in Kids(n, i) : h[c] = g[c]) => Below(n, h, i) = Below(n, g, i)
  <2>1. \A c \in Kids(n, i) : h[c] \in Seq(DOMAIN n)
    BY <1>2
  <2>2. /\ FlattenSeq(Below(n, h, i)) \in T
        /\ \A g : (\A c \in Kids(n, i) : h[c] = g[c]) => Below(n, h, i) = Below(n, g, i)
    BY <2>1, GatheredUnder
  <2>3. <<i>> \in Seq(DOMAIN n)
    OBVIOUS
  <2>4. <<i>> \o FlattenSeq(Below(n, h, i)) \in Seq(DOMAIN n)
    <3> DEFINE x == FlattenSeq(Below(n, h, i))
               y == <<i>>
    <3>1. x \in Seq(DOMAIN n) /\ y \in Seq(DOMAIN n)
      BY <2>2, <2>3
    <3> HIDE DEF x, y
    <3>2. y \o x \in Seq(DOMAIN n)
      BY <3>1
    <3> QED BY <3>2 DEF x, y
  <2> QED BY <2>2, <2>4
<1>3. V \in [[DOMAIN n -> T] -> [DOMAIN n -> T]]
  <2>1. ASSUME NEW g \in [DOMAIN n -> T]
        PROVE  [i \in DOMAIN n |-> <<i>> \o FlattenSeq(Below(n, g, i))] \in [DOMAIN n -> T]
    <3>1. \A i \in DOMAIN n : \A c \in Kids(n, i) : g[c] \in T
      BY <1>1
    <3>2. \A i \in DOMAIN n : <<i>> \o FlattenSeq(Below(n, g, i)) \in T
      BY <1>2, <3>1
    <3> HIDE DEF T
    <3> QED BY <3>2
  <2> QED BY <2>1
<1>4. \A g, h \in [DOMAIN n -> T] : \A i \in DOMAIN n :
        (\A c \in Kids(n, i) : g[c] = h[c]) => V[g][i] = V[h][i]
  <2> TAKE g, h \in [DOMAIN n -> T]
  <2> TAKE i \in DOMAIN n
  <2> SUFFICES ASSUME \A c \in Kids(n, i) : g[c] = h[c] PROVE V[g][i] = V[h][i]
    OBVIOUS
  <2>1. \A c \in Kids(n, i) : g[c] \in T
    BY <1>1
  <2>2. Below(n, g, i) = Below(n, h, i)
    BY <1>2, <2>1
  <2> QED BY <2>2
<1>5. <<>> \in T
  OBVIOUS
<1>6. \E g \in [DOMAIN n -> T] : g = V[g]
  <2> HIDE DEF V, T
  <2> QED BY <1>3, <1>4, <1>5, UpRecursion
<1>7. PICK g \in [DOMAIN n -> T] : g = V[g]
  BY <1>6
<1>8. Lists(n, g)
  BY <1>7 DEF Lists, Below
<1>9. Lists(n, f)
  BY <1>8
<1> DEFINE S == {i \in DOMAIN n : f[i] \in T}
<1>10. ASSUME NEW i \in DOMAIN n, Kids(n, i) \subseteq S PROVE i \in S
  <2>1. f[i] = <<i>> \o FlattenSeq(Below(n, f, i))
    BY <1>9 DEF Lists, Below
  <2>2. \A c \in Kids(n, i) : f[c] \in T
    BY <1>10
  <2> QED BY <1>2, <2>1, <2>2
<1>11. DOMAIN n \subseteq S
  <2> HIDE DEF S
  <2> QED BY <1>10, UpInduction
<1> QED BY <1>11

-----------------------------------------------------------------------------
(***************************************************************************)
(* Documents in the form that maps share.                                  *)
(***************************************************************************)
\* Whatever fields a record has, these are of their types.
FieldsTyped(v) ==
  /\ "kind" \in DOMAIN v => v.kind \in Kind
  /\ "meeting" \in DOMAIN v => v.meeting \in BOOLEAN
  /\ "task" \in DOMAIN v => v.task \in BOOLEAN
  /\ "checked" \in DOMAIN v => v.checked \in BOOLEAN
  /\ "folded" \in DOMAIN v => v.folded \in BOOLEAN
  /\ "content" \in DOMAIN v => v.content \in Content

LiveNode(v) ==
  /\ FieldsTyped(v)
  /\ {"kind", "meeting", "task", "checked", "folded", "content", "parent"} \subseteq DOMAIN v

PropsTyped(p) ==
  /\ "layout" \in DOMAIN p => p.layout \in Layout
  /\ "manual" \in DOMAIN p => p.manual \in BOOLEAN
  /\ "look" \in DOMAIN p => p.look \in Content

LiveDoc(c, uids) ==
  /\ c \in [props : {c.props}, nodes : {c.nodes}, edges : {c.edges}]
  /\ PropsTyped(c.props) /\ {"layout", "manual", "look"} \subseteq DOMAIN c.props
  /\ c.nodes = [u \in DOMAIN c.nodes |-> c.nodes[u]] /\ DOMAIN c.nodes \subseteq uids
  /\ \A u \in DOMAIN c.nodes : LiveNode(c.nodes[u])

\* A document as the loader and the editor make it, whatever is selected.
Shaped(d, uids) ==
  /\ IsDocument(d) /\ IsTree(d.nodes) /\ Distinct(d.nodes)
  /\ IdentitiesOf(d.nodes) \subseteq uids /\ uids \subseteq Identity

LEMMA RawShaped ==
  ASSUME NEW d, NEW uids \in SUBSET Identity, Raw(d, uids)
  PROVE  Shaped(d, uids)
BY DEF Raw, Shaped

\* Its canonical form: a node for each identity, and one root.
LEMMA NormalizeLive ==
  ASSUME NEW d, NEW uids, Shaped(d, uids)
  PROVE  /\ LiveDoc(Normalize(d), uids)
         /\ DOMAIN Normalize(d).nodes = IdentitiesOf(d.nodes)
         /\ ChildrenOf(Normalize(d), NoParent) = {d.nodes[Root].syncId}
         /\ RootOf(Normalize(d)) = d.nodes[Root].syncId
         /\ d.nodes[Root].syncId \in DOMAIN Normalize(d).nodes
<1> DEFINE n == d.nodes
           uid(i) == IF i = None THEN NoParent ELSE d.nodes[i].syncId
           local(u) == CHOOSE i \in DOMAIN d.nodes : d.nodes[i].syncId = u
           order(i) == LET p == d.nodes[i].parent
                       IN IF p = None THEN 0 ELSE Position(d.nodes[p].children, i) - 1
           m == [u \in IdentitiesOf(d.nodes) |->
                  LET x == d.nodes[local(u)]
                  IN [kind |-> x.kind, meeting |-> x.meeting, task |-> x.task, checked |-> x.checked,
                      folded |-> x.folded, content |-> x.content,
                      parent |-> uid(x.parent), order |-> order(local(u))]]
           c == Normalize(d)
<1>1. PICK dep : Tree(n, dep)
  BY DEF Shaped, IsTree
<1>2. IsDocument(d) /\ Distinct(n) /\ IdentitiesOf(n) \subseteq uids /\ uids \subseteq Identity
  BY DEF Shaped
<1>3. Table(m) = m
  BY TableIs
<1>4. c.nodes = Table(m) /\ c.props = [layout |-> d.layout, manual |-> d.manual, look |-> d.look]
      /\ c \in [props : {c.props}, nodes : {c.nodes}, edges : {c.edges}]
  BY DEF Normalize
<1>5. \A i \in DOMAIN n : n[i] \in Node /\ n[i].syncId \in IdentitiesOf(n) /\ local(n[i].syncId) = i
  <2>1. \A i \in DOMAIN n : n[i] \in Node
    BY <1>1 DEF Tree, Typed
  <2> QED BY <1>2, <2>1 DEF IdentitiesOf, Distinct
<1>6. \A u \in IdentitiesOf(n) : local(u) \in DOMAIN n /\ n[local(u)].syncId = u
  BY DEF IdentitiesOf
<1>7. ASSUME NEW u \in IdentitiesOf(n)
      PROVE  /\ m[u].kind = n[local(u)].kind /\ m[u].meeting = n[local(u)].meeting
             /\ m[u].task = n[local(u)].task /\ m[u].checked = n[local(u)].checked
             /\ m[u].folded = n[local(u)].folded /\ m[u].content = n[local(u)].content
             /\ m[u].parent = uid(n[local(u)].parent)
             /\ DOMAIN m[u] = {"kind", "meeting", "task", "checked", "folded", "content", "parent", "order"}
  <2> HIDE DEF uid, local, order
  <2> QED BY DEF m
<1>8. m = [u \in DOMAIN m |-> m[u]] /\ DOMAIN m = IdentitiesOf(n)
  OBVIOUS
<1> HIDE DEF m, c, local, order
<1>9. \A u \in IdentitiesOf(n) : LiveNode(m[u])
  <2> TAKE u \in IdentitiesOf(n)
  <2>1. n[local(u)] \in Node
    BY <1>5, <1>6
  <2> HIDE DEF n
  <2> QED BY <1>7, <2>1 DEF Node, LiveNode, FieldsTyped
<1>10. LiveDoc(c, uids)
  <2>1. d.layout \in Layout /\ d.manual \in BOOLEAN /\ d.look \in Content
    BY <1>2 DEF IsDocument
  <2>2. PropsTyped(c.props) /\ {"layout", "manual", "look"} \subseteq DOMAIN c.props
    BY <1>4, <2>1 DEF PropsTyped
  <2>3. c.nodes = m
    BY <1>3, <1>4
  <2> HIDE DEF n
  <2> QED BY <1>2, <1>4, <1>8, <1>9, <2>2, <2>3 DEF LiveDoc
<1>11. Root \in DOMAIN n /\ n[Root].parent = None /\ None \notin DOMAIN n
       /\ \A i \in DOMAIN n \ {Root} : n[i].parent \in DOMAIN n
  <2>1. Root \in DOMAIN n /\ n[Root].parent = None /\ \A i \in DOMAIN n \ {Root} : n[i].parent \in DOMAIN n
    BY <1>1 DEF Tree, Linked
  <2>2. None \notin DOMAIN n
    BY <1>1, <2>1, KidsDeeper
  <2> QED BY <2>1, <2>2
<1>12. \A u \in IdentitiesOf(n) : (m[u].parent = NoParent) <=> (u = n[Root].syncId)
  <2> TAKE u \in IdentitiesOf(n)
  <2>1. CASE local(u) = Root
    <3>1. u = n[Root].syncId
      BY <1>6, <2>1
    <3>2. uid(n[Root].parent) = NoParent
      BY <1>11
    <3> QED BY <1>7, <2>1, <3>1, <3>2
  <2>2. CASE local(u) # Root
    <3>1. n[local(u)].parent \in DOMAIN n /\ n[local(u)].parent # None
      BY <1>6, <1>11, <2>2
    <3>2. uid(n[local(u)].parent) = n[n[local(u)].parent].syncId
      BY <3>1
    <3>3. n[n[local(u)].parent].syncId \in Identity
      BY <1>2, <1>5, <3>1
    <3>4. uid(n[local(u)].parent) # NoParent
      BY <3>2, <3>3, MaxDepthNat DEF Identity, NoParent
    <3>5. u # n[Root].syncId
      BY <1>5, <1>11, <2>2
    <3> HIDE DEF uid
    <3> QED BY <1>7, <3>4, <3>5
  <2> QED BY <2>1, <2>2
<1>13. n[Root].syncId \in IdentitiesOf(n)
  BY <1>5, <1>11
<1>14. ChildrenOf(c, NoParent) = {n[Root].syncId}
  BY <1>3, <1>4, <1>8, <1>12, <1>13 DEF ChildrenOf
<1>15. RootOf(c) = n[Root].syncId
  BY <1>3, <1>4, <1>8, <1>12, <1>13 DEF RootOf
<1> QED BY <1>3, <1>4, <1>8, <1>10, <1>13, <1>14, <1>15 DEF c

-----------------------------------------------------------------------------
(***************************************************************************)
(* Operations on such documents.                                           *)
(***************************************************************************)
OpTyped(o, uids) ==
  /\ o.op = "setProps" => PropsTyped(o.value)
  /\ o.op = "setNode" => o.at \in uids /\ LiveNode(o.value)
  /\ o.op = "removeNode" => o.at # NoParent
  /\ o.op = "setFields" => FieldsTyped(o.value)
BatchTyped(ops, uids) ==
  ops \in Seq(ToSet(ops)) /\ \A k \in 1 .. Len(ops) : OpTyped(ops[k], uids)

Falling(c, u, f) ==
  f = [k \in 0 .. Cardinality(DOMAIN c.nodes) |->
        IF k = 0 THEN {u} ELSE UNION {{v} \cup ChildrenOf(c, v) : v \in f[k - 1]}]

LEMMA FallingExists ==
  ASSUME NEW c, NEW u, Cardinality(DOMAIN c.nodes) \in Nat
  PROVE  \E f : Falling(c, u, f)
<1> DEFINE Value(f, k) == IF k = 0 THEN {u} ELSE UNION {{v} \cup ChildrenOf(c, v) : v \in f[k - 1]}
           Solved == {m \in Nat : \E f : f = [k \in 0 .. m |-> Value(f, k)]}
<1>1. 0 \in Solved
  <2> DEFINE first == [k \in 0 .. 0 |-> Value(k, 0)]
  <2>1. first = [k \in 0 .. 0 |-> Value(first, k)]
    OBVIOUS
  <2> QED BY <2>1
<1>2. ASSUME NEW m \in Solved PROVE m + 1 \in Solved
  <2>1. PICK f : f = [k \in 0 .. m |-> Value(f, k)]
    OBVIOUS
  <2> DEFINE g == [k \in 0 .. m + 1 |-> IF k = m + 1 THEN Value(f, k) ELSE f[k]]
  <2>2. ASSUME NEW k \in 0 .. m + 1 PROVE g[k] = Value(g, k)
    <3>1. k # 0 => k - 1 \in 0 .. m + 1 /\ k - 1 # m + 1
      OBVIOUS
    <3>2. k # 0 => g[k - 1] = f[k - 1]
      BY <3>1
    <3>3. Value(g, k) = Value(f, k)
      BY <3>2
    <3>4. CASE k = m + 1
      <4>1. g[k] = Value(f, k)
        BY <3>4
      <4> QED BY <3>3, <4>1
    <3>5. CASE k # m + 1
      <4>1. k \in 0 .. m
        BY <3>5
      <4>2. f[k] = Value(f, k)
        BY <2>1, <4>1
      <4>3. g[k] = f[k]
        BY <3>5
      <4> QED BY <3>3, <4>2, <4>3
    <3> QED BY <3>4, <3>5
  <2>3. g = [k \in 0 .. m + 1 |-> g[k]]
    OBVIOUS
  <2> HIDE DEF g, Value
  <2>4. g = [k \in 0 .. m + 1 |-> Value(g, k)]
    BY <2>2, <2>3
  <2> QED BY <2>4
<1>3. Cardinality(DOMAIN c.nodes) \in Solved
  <2> HIDE DEF Solved
  <2>1. Solved \in SUBSET Nat
    BY DEF Solved
  <2>2. Solved = Nat
    BY <1>1, <1>2, <2>1, InductiveSet
  <2> QED BY <2>2
<1> QED BY <1>3 DEF Falling

\* Under a node is itself, and nodes that have a parent.
LEMMA UnderOf ==
  ASSUME NEW c, NEW uids \in SUBSET Identity, LiveDoc(c, uids), NEW u, u # NoParent
  PROVE  /\ u \in Under(c, u)
         /\ \A v \in Under(c, u) : v # u => v \in DOMAIN c.nodes /\ c.nodes[v].parent # NoParent
<1> DEFINE size == Cardinality(DOMAIN c.nodes)
           f == CHOOSE g : Falling(c, u, g)
           Fine(S) == /\ u \in S
                      /\ \A v \in S :
                           /\ v # NoParent
                           /\ v # u => v \in DOMAIN c.nodes /\ c.nodes[v].parent # NoParent
           Good == {k \in Nat : k <= size => Fine(f[k])}
<1>1. size \in Nat
  <2>1. DOMAIN c.nodes \subseteq 1 .. MaxIdentity
    BY DEF LiveDoc, Identity
  <2>2. IsFiniteSet(1 .. MaxIdentity)
    BY FS_Interval, MaxDepthNat
  <2>3. IsFiniteSet(DOMAIN c.nodes)
    BY <2>1, <2>2, FS_Subset
  <2> QED BY <2>3, FS_CardinalityType
<1>2. Falling(c, u, f)
  BY <1>1, FallingExists
<1>3. Under(c, u) = f[size]
  BY DEF Under, Falling
<1> HIDE DEF f
<1>4. ASSUME NEW v, v \in DOMAIN c.nodes PROVE v # NoParent
  BY <1>4, MaxDepthNat DEF LiveDoc, Identity, NoParent
<1>5. 0 \in Good
  <2>1. f[0] = {u}
    BY <1>1, <1>2 DEF Falling
  <2> QED BY <2>1
<1>6. ASSUME NEW k \in Good PROVE k + 1 \in Good
  <2> SUFFICES ASSUME k + 1 <= size PROVE Fine(f[k + 1])
    OBVIOUS
  <2>1. k + 1 \in 0 .. size /\ k + 1 # 0 /\ (k + 1) - 1 = k /\ k \in Nat /\ k <= size
    BY <1>1
  <2>2. f[k + 1] = UNION {{v} \cup ChildrenOf(c, v) : v \in f[k]}
    BY <1>2, <2>1 DEF Falling
  <2>3. Fine(f[k])
    BY <2>1
  <2>4. ASSUME NEW v \in f[k], NEW w \in ChildrenOf(c, v) PROVE w \in DOMAIN c.nodes /\ c.nodes[w].parent # NoParent
    BY <2>3 DEF ChildrenOf
  <2> QED BY <1>4, <2>2, <2>3, <2>4
<1>7. Good = Nat
  <2> HIDE DEF Good
  <2>1. Good \in SUBSET Nat
    BY DEF Good
  <2> QED BY <1>5, <1>6, <2>1, InductiveSet
<1> QED BY <1>1, <1>3, <1>7

\* An operation leaves a document of the same shape.
LEMMA EffectLive ==
  ASSUME NEW c, NEW uids \in SUBSET Identity, LiveDoc(c, uids), NEW o, OpTyped(o, uids)
  PROVE  LiveDoc(Effect(c, o), uids)
<1> DEFINE e == Effect(c, o)
<1>1. /\ c \in [props : {c.props}, nodes : {c.nodes}, edges : {c.edges}]
      /\ PropsTyped(c.props) /\ {"layout", "manual", "look"} \subseteq DOMAIN c.props
      /\ c.nodes = [u \in DOMAIN c.nodes |-> c.nodes[u]] /\ DOMAIN c.nodes \subseteq uids
      /\ \A u \in DOMAIN c.nodes : LiveNode(c.nodes[u])
  BY DEF LiveDoc
<1>2. CASE o.op = "setProps"
  <2> DEFINE p == Over(o.value, c.props)
  <2>1. e = [c EXCEPT !.props = p]
    BY <1>2 DEF Effect
  <2>2. PropsTyped(p) /\ {"layout", "manual", "look"} \subseteq DOMAIN p
    <3>1. /\ DOMAIN p = DOMAIN o.value \cup DOMAIN c.props
          /\ \A x \in DOMAIN o.value : p[x] = o.value[x]
          /\ \A x \in DOMAIN c.props \ DOMAIN o.value : p[x] = c.props[x]
      BY OverIs
    <3>2. PropsTyped(o.value)
      BY <1>2 DEF OpTyped
    <3> HIDE DEF p
    <3> QED BY <1>1, <3>1, <3>2 DEF PropsTyped
  <2> HIDE DEF p
  <2>3. e \in [props : {p}, nodes : {c.nodes}, edges : {c.edges}]
    BY <1>1, <2>1
  <2> QED BY <1>1, <2>2, <2>3 DEF LiveDoc
<1>3. CASE o.op = "setNode"
  <2> DEFINE one == Single(o.at, o.value)
             m == Over(c.nodes, one)
  <2>1. e = [c EXCEPT !.nodes = m]
    BY <1>3 DEF Effect
  <2>2. o.at \in uids /\ LiveNode(o.value) /\ DOMAIN one = {o.at} /\ one[o.at] = o.value
    BY <1>3, SingleIs DEF OpTyped
  <2> HIDE DEF one
  <2>3. /\ DOMAIN m = DOMAIN c.nodes \cup {o.at} /\ m = [u \in DOMAIN m |-> m[u]]
        /\ \A x \in DOMAIN c.nodes : m[x] = c.nodes[x]
        /\ \A x \in {o.at} \ DOMAIN c.nodes : m[x] = o.value
    <3>1. m = [u \in DOMAIN m |-> m[u]]
      BY OverMaps
    <3>2. /\ DOMAIN m = DOMAIN c.nodes \cup DOMAIN one
          /\ \A x \in DOMAIN c.nodes : m[x] = c.nodes[x]
          /\ \A x \in DOMAIN one \ DOMAIN c.nodes : m[x] = one[x]
      BY OverIs
    <3> HIDE DEF m
    <3> QED BY <2>2, <3>1, <3>2
  <2> HIDE DEF m
  <2>4. \A u \in DOMAIN m : LiveNode(m[u])
    BY <1>1, <2>2, <2>3
  <2>5. e \in [props : {c.props}, nodes : {m}, edges : {c.edges}]
    BY <1>1, <2>1
  <2> QED BY <1>1, <2>2, <2>3, <2>4, <2>5 DEF LiveDoc
<1>4. CASE o.op = "removeNode" /\ o.at \in DOMAIN c.nodes
  <2> DEFINE gone == Under(c, o.at)
             m == [v \in DOMAIN c.nodes \ gone |-> c.nodes[v]]
             edges == {x \in c.edges : x[1] \notin gone /\ x[2] \notin gone}
  <2>1. e = [c EXCEPT !.nodes = Table(m), !.edges = edges]
    BY <1>4 DEF Effect, RemovedNode
  <2>2. Table(m) = m
    BY TableIs
  <2>3. /\ DOMAIN m \subseteq DOMAIN c.nodes /\ m = [u \in DOMAIN m |-> m[u]]
        /\ \A u \in DOMAIN m : m[u] = c.nodes[u]
    OBVIOUS
  <2> HIDE DEF m, edges
  <2>4. e \in [props : {c.props}, nodes : {m}, edges : {edges}]
    BY <1>1, <2>1, <2>2
  <2> QED BY <1>1, <2>3, <2>4 DEF LiveDoc
<1>5. CASE o.op = "setFields" /\ o.at \in DOMAIN c.nodes
  <2> DEFINE n == Over(o.value, c.nodes[o.at])
             m == [c.nodes EXCEPT ![o.at] = n]
  <2>1. e = [c EXCEPT !.nodes = m]
    BY <1>5 DEF Effect
  <2>2. LiveNode(n)
    <3> DEFINE x == c.nodes[o.at]
    <3>1. /\ DOMAIN n = DOMAIN o.value \cup DOMAIN x
          /\ \A f \in DOMAIN o.value : n[f] = o.value[f]
          /\ \A f \in DOMAIN x \ DOMAIN o.value : n[f] = x[f]
      BY OverIs
    <3>2. FieldsTyped(o.value) /\ LiveNode(x)
      BY <1>1, <1>5 DEF OpTyped
    <3> HIDE DEF n, x
    <3>3. FieldsTyped(n)
      BY <3>1, <3>2 DEF FieldsTyped, LiveNode
    <3> QED BY <3>1, <3>2, <3>3 DEF LiveNode
  <2> HIDE DEF n
  <2>3. /\ DOMAIN m = DOMAIN c.nodes /\ m = [u \in DOMAIN m |-> m[u]]
        /\ \A u \in DOMAIN m : m[u] = n \/ m[u] = c.nodes[u]
    OBVIOUS
  <2> HIDE DEF m
  <2>4. e \in [props : {c.props}, nodes : {m}, edges : {c.edges}]
    BY <1>1, <2>1
  <2> QED BY <1>1, <2>2, <2>3, <2>4 DEF LiveDoc
<1>6. CASE /\ o.op \notin {"setProps", "setNode"}
           /\ ~(o.op \in {"removeNode", "setFields"} /\ o.at \in DOMAIN c.nodes)
  <2>1. \E edges : e = [c EXCEPT !.edges = edges] \/ e = c
    <3>1. e = [c EXCEPT !.edges = c.edges \cup {o.at}] \/ e = [c EXCEPT !.edges = c.edges \ {o.at}] \/ e = c
      BY <1>6 DEF Effect
    <3> QED BY <3>1
  <2>2. PICK edges : e = [c EXCEPT !.edges = edges] \/ e = c
    BY <2>1
  <2>3. \E x : e \in [props : {c.props}, nodes : {c.nodes}, edges : {x}]
    BY <1>1, <2>2
  <2>4. e.props = c.props /\ e.nodes = c.nodes /\ e \in [props : {e.props}, nodes : {e.nodes}, edges : {e.edges}]
    BY <2>3
  <2> HIDE DEF e
  <2>5. LiveDoc(e, uids)
    BY <1>1, <2>4 DEF LiveDoc
  <2> QED BY <2>5 DEF e
<1> QED BY <1>2, <1>3, <1>4, <1>5, <1>6

\* The root r of a map, while operations are applied; what leaves it alone, and
\* what takes it away.
Held(c, r) == r \in DOMAIN c.nodes /\ c.nodes[r].parent = NoParent
Keeps(ops, r) ==
  \A k \in 1 .. Len(ops) :
    ops[k].op = "setFields" /\ ops[k].at = r => "parent" \notin DOMAIN ops[k].value
Removes(ops, r) == \E k \in 1 .. Len(ops) : ops[k].op = "removeNode" /\ ops[k].at = r

LEMMA EffectHeld ==
  ASSUME NEW c, NEW uids \in SUBSET Identity, LiveDoc(c, uids), NEW o, OpTyped(o, uids),
         NEW r, Held(c, r), ~Refused(c, o),
         o.op = "setFields" /\ o.at = r => "parent" \notin DOMAIN o.value
  PROVE  Held(Effect(c, o), r)
<1> DEFINE e == Effect(c, o)
<1>1. c \in [props : {c.props}, nodes : {c.nodes}, edges : {c.edges}]
  BY DEF LiveDoc
<1>2. r \in DOMAIN c.nodes /\ c.nodes[r].parent = NoParent
  BY DEF Held
<1>3. CASE o.op = "setProps"
  BY <1>1, <1>2, <1>3 DEF Effect, Held
<1>4. CASE o.op = "setNode"
  <2> DEFINE one == Single(o.at, o.value)
             m == Over(c.nodes, one)
  <2>1. e = [c EXCEPT !.nodes = m]
    BY <1>4 DEF Effect
  <2> HIDE DEF one
  <2>2. r \in DOMAIN m /\ m[r] = c.nodes[r]
    <3>1. DOMAIN m = DOMAIN c.nodes \cup DOMAIN one /\ \A x \in DOMAIN c.nodes : m[x] = c.nodes[x]
      <4>1. /\ DOMAIN Over(c.nodes, one) = DOMAIN c.nodes \cup DOMAIN one
            /\ \A x \in DOMAIN c.nodes : Over(c.nodes, one)[x] = c.nodes[x]
        BY OverIs, ZenonT(40)
      <4> QED BY <4>1
    <3> HIDE DEF m
    <3> QED BY <1>2, <3>1
  <2> HIDE DEF m
  <2> QED BY <1>1, <1>2, <2>1, <2>2 DEF Held
<1>5. CASE o.op = "removeNode" /\ o.at \in DOMAIN c.nodes
  <2> DEFINE gone == Under(c, o.at)
             m == [v \in DOMAIN c.nodes \ gone |-> c.nodes[v]]
             edges == {x \in c.edges : x[1] \notin gone /\ x[2] \notin gone}
  <2>1. e = [c EXCEPT !.nodes = Table(m), !.edges = edges]
    BY <1>5 DEF Effect, RemovedNode
  <2>2. Table(m) = m
    BY TableIs
  <2>3. o.at # r
    BY <1>2, <1>5 DEF Refused
  <2>4. o.at # NoParent
    BY <1>5 DEF OpTyped
  <2>5. r \notin gone
    BY <1>2, <2>3, <2>4, UnderOf
  <2>6. r \in DOMAIN m /\ m[r] = c.nodes[r]
    BY <1>2, <2>5
  <2> HIDE DEF m, edges
  <2>7. e.nodes = m
    BY <1>1, <2>1, <2>2
  <2> QED BY <1>2, <2>6, <2>7 DEF Held
<1>6. CASE o.op = "setFields" /\ o.at \in DOMAIN c.nodes
  <2> DEFINE n == Over(o.value, c.nodes[o.at])
             m == [c.nodes EXCEPT ![o.at] = n]
  <2>1. e = [c EXCEPT !.nodes = m]
    BY <1>6 DEF Effect
  <2>2. o.at = r => n.parent = c.nodes[r].parent
    <3> DEFINE x == c.nodes[o.at]
    <3>1. o.at = r => "parent" \notin DOMAIN o.value /\ x = c.nodes[r]
      BY <1>6
    <3>2. "parent" \in DOMAIN x
      BY <1>6 DEF LiveDoc, LiveNode
    <3>3. /\ DOMAIN n = DOMAIN o.value \cup DOMAIN x
          /\ \A f \in DOMAIN o.value : n[f] = o.value[f]
          /\ \A f \in DOMAIN x \ DOMAIN o.value : n[f] = x[f]
      BY OverIs
    <3> HIDE DEF n, x
    <3> QED BY <3>1, <3>2, <3>3
  <2> HIDE DEF n
  <2>3. r \in DOMAIN m /\ m[r].parent = NoParent
    BY <1>2, <2>2
  <2> HIDE DEF m
  <2> QED BY <1>1, <2>1, <2>3 DEF Held
<1>7. CASE /\ o.op \notin {"setProps", "setNode"}
           /\ ~(o.op \in {"removeNode", "setFields"} /\ o.at \in DOMAIN c.nodes)
  <2>1. e = [c EXCEPT !.edges = c.edges \cup {o.at}] \/ e = [c EXCEPT !.edges = c.edges \ {o.at}] \/ e = c
    BY <1>7 DEF Effect
  <2>2. e.nodes = c.nodes
    BY <1>1, <2>1
  <2> HIDE DEF e
  <2>3. Held(e, r)
    BY <1>2, <2>2 DEF Held
  <2> QED BY <2>3 DEF e
<1> QED BY <1>3, <1>4, <1>5, <1>6, <1>7

Applying(c, ops, f) ==
  f = [k \in 0 .. Len(ops) |->
        IF k = 0 THEN {c} ELSE {Effect(x, ops[k]) : x \in {x \in f[k - 1] : ~Refused(x, ops[k])}}]

LEMMA ApplyingExists ==
  ASSUME NEW c, NEW ops, Len(ops) \in Nat
  PROVE  \E f : Applying(c, ops, f)
<1> DEFINE Value(f, k) == IF k = 0 THEN {c} ELSE {Effect(x, ops[k]) : x \in {x \in f[k - 1] : ~Refused(x, ops[k])}}
           Solved == {m \in Nat : \E f : f = [k \in 0 .. m |-> Value(f, k)]}
<1>1. 0 \in Solved
  <2> DEFINE first == [k \in 0 .. 0 |-> Value(k, 0)]
  <2>1. first = [k \in 0 .. 0 |-> Value(first, k)]
    OBVIOUS
  <2> QED BY <2>1
<1>2. ASSUME NEW m \in Solved PROVE m + 1 \in Solved
  <2>1. PICK f : f = [k \in 0 .. m |-> Value(f, k)]
    OBVIOUS
  <2> DEFINE g == [k \in 0 .. m + 1 |-> IF k = m + 1 THEN Value(f, k) ELSE f[k]]
  <2>2. ASSUME NEW k \in 0 .. m + 1 PROVE g[k] = Value(g, k)
    <3>1. k # 0 => k - 1 \in 0 .. m + 1 /\ k - 1 # m + 1
      OBVIOUS
    <3>2. k # 0 => g[k - 1] = f[k - 1]
      BY <3>1
    <3>3. Value(g, k) = Value(f, k)
      BY <3>2
    <3>4. CASE k = m + 1
      <4>1. g[k] = Value(f, k)
        BY <3>4
      <4> QED BY <3>3, <4>1
    <3>5. CASE k # m + 1
      <4>1. k \in 0 .. m
        BY <3>5
      <4>2. f[k] = Value(f, k)
        BY <2>1, <4>1
      <4>3. g[k] = f[k]
        BY <3>5
      <4> QED BY <3>3, <4>2, <4>3
    <3> QED BY <3>4, <3>5
  <2>3. g = [k \in 0 .. m + 1 |-> g[k]]
    OBVIOUS
  <2> HIDE DEF g, Value
  <2>4. g = [k \in 0 .. m + 1 |-> Value(g, k)]
    BY <2>2, <2>3
  <2> QED BY <2>4
<1>3. Len(ops) \in Solved
  <2> HIDE DEF Solved
  <2>1. Solved \in SUBSET Nat
    BY DEF Solved
  <2>2. Solved = Nat
    BY <1>1, <1>2, <2>1, InductiveSet
  <2> QED BY <2>2
<1> QED BY <1>3 DEF Applying

\* A batch leaves documents with one root, which is the one that it found when it
\* leaves it alone; no document takes a batch that removes its root.
LEMMA ResultsOf ==
  ASSUME NEW c, NEW uids \in SUBSET Identity, LiveDoc(c, uids), NEW ops, BatchTyped(ops, uids)
  PROVE  /\ \A x \in Results(c, ops) : LiveDoc(x, uids) /\ Cardinality(ChildrenOf(x, NoParent)) = 1
         /\ \A r : Held(c, r) /\ Keeps(ops, r) =>
              /\ \A x \in Results(c, ops) : Held(x, r)
              /\ Removes(ops, r) => Results(c, ops) = {}
<1> DEFINE f == CHOOSE g : Applying(c, ops, g)
           Good == {k \in Nat : k <= Len(ops) => \A x \in f[k] : LiveDoc(x, uids)}
<1>1. Len(ops) \in Nat
  BY LenProperties DEF BatchTyped
<1>2. Applying(c, ops, f)
  BY <1>1, ApplyingExists
<1>3. Results(c, ops) = {x \in f[Len(ops)] : ValidResult(c, x)}
  BY DEF Results, Applying
<1> HIDE DEF f
<1>4. f[0] = {c}
  BY <1>1, <1>2 DEF Applying
<1>5. ASSUME NEW k \in Nat, k + 1 <= Len(ops)
      PROVE  /\ f[k + 1] = {Effect(x, ops[k + 1]) : x \in {x \in f[k] : ~Refused(x, ops[k + 1])}}
             /\ OpTyped(ops[k + 1], uids) /\ k + 1 \in 1 .. Len(ops) /\ k <= Len(ops)
  <2>1. k + 1 \in 0 .. Len(ops) /\ k + 1 # 0 /\ (k + 1) - 1 = k /\ k + 1 \in 1 .. Len(ops) /\ k <= Len(ops)
    BY <1>1, <1>5
  <2>2. f[k + 1] = {Effect(x, ops[k + 1]) : x \in {x \in f[k] : ~Refused(x, ops[k + 1])}}
    BY <1>2, <2>1 DEF Applying
  <2> QED BY <2>1, <2>2 DEF BatchTyped
<1>6. Good = Nat
  <2>1. 0 \in Good
    BY <1>4
  <2>2. ASSUME NEW k \in Good PROVE k + 1 \in Good
    <3> SUFFICES ASSUME k + 1 <= Len(ops) PROVE \A x \in f[k + 1] : LiveDoc(x, uids)
      OBVIOUS
    <3>1. \A x \in f[k] : LiveDoc(x, uids)
      BY <1>5
    <3> QED BY <1>5, <3>1, EffectLive
  <2> HIDE DEF Good
  <2>3. Good \in SUBSET Nat
    BY DEF Good
  <2> QED BY <2>1, <2>2, <2>3, InductiveSet
<1>7. \A k \in Nat : k <= Len(ops) => \A x \in f[k] : LiveDoc(x, uids)
  BY <1>6
<1> HIDE DEF Good
<1>8. ASSUME NEW r, Held(c, r), Keeps(ops, r)
      PROVE  \A k \in Nat : k <= Len(ops) => \A x \in f[k] : Held(x, r)
  <2> DEFINE Fine == {k \in Nat : k <= Len(ops) => \A x \in f[k] : Held(x, r)}
  <2>1. 0 \in Fine
    BY <1>4, <1>8
  <2>2. ASSUME NEW k \in Fine PROVE k + 1 \in Fine
    <3> SUFFICES ASSUME k + 1 <= Len(ops) PROVE \A x \in f[k + 1] : Held(x, r)
      OBVIOUS
    <3>1. \A x \in f[k] : Held(x, r) /\ LiveDoc(x, uids)
      BY <1>5, <1>7
    <3>2. ops[k + 1].op = "setFields" /\ ops[k + 1].at = r => "parent" \notin DOMAIN ops[k + 1].value
      BY <1>5, <1>8 DEF Keeps
    <3> QED BY <1>5, <3>1, <3>2, EffectHeld
  <2> HIDE DEF Fine
  <2>3. Fine \in SUBSET Nat
    BY DEF Fine
  <2>4. Fine = Nat
    BY <2>1, <2>2, <2>3, InductiveSet
  <2> QED BY <2>4 DEF Fine
<1>9. ASSUME NEW r, Held(c, r), Keeps(ops, r), Removes(ops, r)
      PROVE  f[Len(ops)] = {}
  <2>1. PICK k \in 1 .. Len(ops) : ops[k].op = "removeNode" /\ ops[k].at = r
    BY <1>9 DEF Removes
  <2> DEFINE Fine == {j \in Nat : k + j <= Len(ops) => f[k + j] = {}}
  <2>2. k - 1 \in Nat /\ (k - 1) + 1 = k /\ k <= Len(ops) /\ k - 1 <= Len(ops) /\ k \in Nat
    BY <1>1
  <2>3. \A x \in f[k - 1] : Refused(x, ops[k])
    <3>1. \A x \in f[k - 1] : Held(x, r)
      BY <1>8, <1>9, <2>2
    <3> QED BY <2>1, <3>1 DEF Refused, Held
  <2>4. f[k] = {}
    BY <1>5, <2>2, <2>3
  <2>5. 0 \in Fine
    BY <2>2, <2>4
  <2>6. ASSUME NEW j \in Fine PROVE j + 1 \in Fine
    <3> SUFFICES ASSUME k + (j + 1) <= Len(ops) PROVE f[k + (j + 1)] = {}
      OBVIOUS
    <3>1. k + j \in Nat /\ (k + j) + 1 = k + (j + 1) /\ k + j <= Len(ops)
      BY <1>1, <2>2
    <3>2. f[k + j] = {}
      BY <3>1
    <3> HIDE DEF Fine
    <3> QED BY <1>5, <3>1, <3>2
  <2> HIDE DEF Fine
  <2>7. Fine \in SUBSET Nat
    BY DEF Fine
  <2>8. Fine = Nat
    BY <2>5, <2>6, <2>7, InductiveSet
  <2>9. Len(ops) - k \in Nat /\ k + (Len(ops) - k) = Len(ops)
    BY <1>1
  <2> QED BY <2>8, <2>9 DEF Fine
<1> QED BY <1>1, <1>3, <1>7, <1>8, <1>9 DEF ValidResult

\* What the difference of two documents is made of.
NodeChange(a, b, u) ==
  IF u \notin DOMAIN b.nodes THEN [op |-> "removeNode", at |-> u]
  ELSE IF u \notin DOMAIN a.nodes THEN [op |-> "setNode", at |-> u, value |-> b.nodes[u]]
  ELSE [op |-> "setFields", at |-> u, value |-> Changes(a.nodes[u], b.nodes[u])]
PropsChange(a, b) == [op |-> "setProps", value |-> Changes(a.props, b.props)]
EdgeChange(op, u, v) == [op |-> op, at |-> <<u, v>>]
Differing(a, b) ==
  {u \in DOMAIN a.nodes \cup DOMAIN b.nodes :
     u \in DOMAIN a.nodes \cap DOMAIN b.nodes => a.nodes[u] # b.nodes[u]}
DiffOps(a, b) ==
  {PropsChange(a, b)} \cup {NodeChange(a, b, u) : u \in DOMAIN a.nodes \cup DOMAIN b.nodes}
    \cup {EdgeChange(o, u, v) : o \in {"setEdge", "removeEdge"}, u \in Identity, v \in Identity}

LEMMA DiffMembers ==
  ASSUME NEW a, NEW b, DOMAIN a.nodes \cup DOMAIN b.nodes \subseteq Identity
  PROVE  /\ Diff(a, b) \in Seq(DiffOps(a, b))
         /\ \A u \in Differing(a, b) : NodeChange(a, b, u) \in ToSet(Diff(a, b))
<1> DEFINE T == DiffOps(a, b)
           props == IF a.props = b.props THEN <<>> ELSE <<PropsChange(a, b)>>
           each == [u \in Identity |-> IF u \in DOMAIN a.nodes \cup DOMAIN b.nodes
                                         THEN NodeOps(a, b, u) ELSE <<>>]
           row(u) == [v \in Identity |-> EdgeOps(a, b, u, v)]
           edges == [u \in Identity |-> FlattenSeq(row(u))]
<1>1. Diff(a, b) = props \o FlattenSeq(each) \o FlattenSeq(edges)
  BY DEF Diff, PropsChange
<1>2. <<>> \in Seq(T) /\ \A x \in T : <<x>> \in Seq(T)
  OBVIOUS
<1>3. props \in Seq(T)
  <2>1. PropsChange(a, b) \in T
    BY DEF DiffOps
  <2> HIDE DEF T
  <2> QED BY <1>2, <2>1
<1>4. \A u \in DOMAIN a.nodes \cup DOMAIN b.nodes :
        NodeOps(a, b, u) \in {<<>>, <<NodeChange(a, b, u)>>} /\ NodeChange(a, b, u) \in T
  <2> TAKE u \in DOMAIN a.nodes \cup DOMAIN b.nodes
  <2>1. NodeOps(a, b, u) \in {<<>>, <<NodeChange(a, b, u)>>}
    BY DEF NodeOps, NodeChange
  <2>2. NodeChange(a, b, u) \in T
    BY DEF DiffOps
  <2> QED BY <2>1, <2>2
<1>5. \A u \in Differing(a, b) : NodeOps(a, b, u) = <<NodeChange(a, b, u)>>
  BY DEF NodeOps, NodeChange, Differing
<1>6. MaxIdentity \in Nat /\ Identity = 1 .. MaxIdentity
  BY MaxDepthNat DEF Identity
<1>7. each \in Seq(Seq(T))
  <2> HIDE DEF T
  <2>1. \A u \in Identity : each[u] \in Seq(T)
    BY <1>2, <1>4
  <2>2. each = [u \in Identity |-> each[u]]
    OBVIOUS
  <2> HIDE DEF each
  <2>3. each \in [1 .. MaxIdentity -> Seq(T)]
    BY <1>6, <2>1, <2>2
  <2> QED BY <1>6, <2>3, SeqDef
<1>8. edges \in Seq(Seq(T))
  <2>1. \A u, v \in Identity : EdgeOps(a, b, u, v) \in Seq(T)
    <3> TAKE u, v \in Identity
    <3>1. EdgeChange("setEdge", u, v) \in T /\ EdgeChange("removeEdge", u, v) \in T
      BY DEF DiffOps
    <3>2. EdgeOps(a, b, u, v) \in {<<>>, <<EdgeChange("setEdge", u, v)>>, <<EdgeChange("removeEdge", u, v)>>}
      BY DEF EdgeOps, EdgeChange
    <3> HIDE DEF T
    <3> QED BY <1>2, <3>1, <3>2
  <2> HIDE DEF T
  <2>2. \A u \in Identity : FlattenSeq(row(u)) \in Seq(T)
    <3> TAKE u \in Identity
    <3>1. row(u) \in [1 .. MaxIdentity -> Seq(T)]
      BY <1>6, <2>1
    <3>2. row(u) \in Seq(Seq(T))
      BY <1>6, <3>1, SeqDef
    <3> HIDE DEF row
    <3> QED BY <3>2, FlatMembers
  <2> HIDE DEF row
  <2>3. edges \in [1 .. MaxIdentity -> Seq(T)]
    BY <1>6, <2>2
  <2> QED BY <1>6, <2>3, SeqDef
<1> HIDE DEF T, props, each, edges
<1>9. FlattenSeq(each) \in Seq(T) /\ FlattenSeq(edges) \in Seq(T)
  BY <1>7, <1>8, FlatMembers
<1>10. props \o FlattenSeq(each) \in Seq(T)
       /\ ToSet(props \o FlattenSeq(each)) = ToSet(props) \cup ToSet(FlattenSeq(each))
  BY <1>3, <1>9, ConcatMembers
<1>11. Diff(a, b) \in Seq(T) /\ ToSet(FlattenSeq(each)) \subseteq ToSet(Diff(a, b))
  <2> DEFINE front == props \o FlattenSeq(each)
             back == FlattenSeq(edges)
  <2>1. front \in Seq(T) /\ back \in Seq(T) /\ Diff(a, b) = front \o back
        /\ ToSet(FlattenSeq(each)) \subseteq ToSet(front)
    BY <1>1, <1>9, <1>10
  <2> HIDE DEF front, back
  <2>2. front \o back \in Seq(T) /\ ToSet(front \o back) = ToSet(front) \cup ToSet(back)
    BY <2>1, ConcatMembers
  <2> QED BY <2>1, <2>2
<1>12. \A u \in Differing(a, b) : NodeChange(a, b, u) \in ToSet(FlattenSeq(each))
  <2> TAKE u \in Differing(a, b)
  <2>1. u \in Identity /\ each[u] = <<NodeChange(a, b, u)>> /\ DOMAIN each = Identity
    BY <1>5 DEF each, Differing
  <2>2. ToSet(FlattenSeq(each)) = UNION {ToSet(each[k]) : k \in 1 .. Len(each)} /\ Len(each) = MaxIdentity
    <3>1. ToSet(FlattenSeq(each)) = UNION {ToSet(each[k]) : k \in 1 .. Len(each)}
      BY <1>7, FlatMembers
    <3>2. Len(each) = MaxIdentity
      BY <1>6, <1>7, <2>1, LenProperties
    <3> QED BY <3>1, <3>2
  <2>3. ToSet(<<NodeChange(a, b, u)>>) = {NodeChange(a, b, u)}
    BY DEF ToSet
  <2> QED BY <1>6, <2>1, <2>2, <2>3
<1> QED BY <1>11, <1>12 DEF T

\* ... which types the operations, leaves a root alone that both documents have,
\* and takes one away that the second has not.
LEMMA DiffOf ==
  ASSUME NEW uids \in SUBSET Identity, NEW a, LiveDoc(a, uids), NEW b, LiveDoc(b, uids)
  PROVE  /\ BatchTyped(Diff(a, b), uids)
         /\ \A r : Held(a, r) /\ Held(b, r) => Keeps(Diff(a, b), r)
         /\ \A r : Held(a, r) /\ r \notin DOMAIN b.nodes => Keeps(Diff(a, b), r) /\ Removes(Diff(a, b), r)
<1> DEFINE T == DiffOps(a, b)
           ops == Diff(a, b)
<1>1. /\ DOMAIN a.nodes \subseteq Identity /\ DOMAIN b.nodes \subseteq uids
      /\ \A u \in DOMAIN a.nodes : LiveNode(a.nodes[u])
      /\ \A u \in DOMAIN b.nodes : LiveNode(b.nodes[u])
      /\ PropsTyped(b.props) /\ {"layout", "manual", "look"} \subseteq DOMAIN b.props
  BY DEF LiveDoc
<1>2. /\ ops \in Seq(T)
      /\ \A u \in DOMAIN a.nodes \ DOMAIN b.nodes : NodeChange(a, b, u) \in ToSet(ops)
  BY <1>1, DiffMembers DEF Differing
<1> HIDE DEF ops
<1>3. /\ Len(ops) \in Nat /\ ToSet(ops) = {ops[k] : k \in 1 .. Len(ops)} /\ ops \in Seq(ToSet(ops))
      /\ \A k \in 1 .. Len(ops) : ops[k] \in T
  <2>1. /\ Len(ops) \in Nat /\ ToSet(ops) = {ops[k] : k \in 1 .. Len(ops)} /\ ops \in Seq(ToSet(ops))
        /\ ToSet(ops) \subseteq T
    <3> HIDE DEF T
    <3> QED BY <1>2, MembersOf
  <2> QED BY <2>1
<1>4. \A o \in T : \/ o = PropsChange(a, b)
                   \/ \E u \in DOMAIN a.nodes \cup DOMAIN b.nodes : o = NodeChange(a, b, u)
                   \/ o.op \in {"setEdge", "removeEdge"}
  BY DEF DiffOps, EdgeChange
<1> HIDE DEF T
<1>5. OpTyped(PropsChange(a, b), uids) /\ PropsChange(a, b).op = "setProps"
  <2> DEFINE v == Changes(a.props, b.props)
  <2>1. \A f \in DOMAIN v : v[f] = b.props[f]
    BY DEF Changes
  <2> HIDE DEF v
  <2>2. PropsTyped(v)
    BY <1>1, <2>1 DEF PropsTyped
  <2>3. PropsChange(a, b) = [op |-> "setProps", value |-> v]
    BY DEF PropsChange, v
  <2> QED BY <2>2, <2>3 DEF OpTyped
<1>6. ASSUME NEW u \in DOMAIN a.nodes \cup DOMAIN b.nodes
      PROVE  /\ OpTyped(NodeChange(a, b, u), uids) /\ NodeChange(a, b, u).at = u
             /\ NodeChange(a, b, u).op = "setFields" =>
                  /\ u \in DOMAIN a.nodes \cap DOMAIN b.nodes
                  /\ NodeChange(a, b, u).value = Changes(a.nodes[u], b.nodes[u])
             /\ u \notin DOMAIN b.nodes => NodeChange(a, b, u).op = "removeNode"
  <2>1. CASE u \notin DOMAIN b.nodes
    <3>1. NodeChange(a, b, u) = [op |-> "removeNode", at |-> u]
      BY <2>1 DEF NodeChange
    <3>2. u # NoParent
      BY <1>1, <2>1, MaxDepthNat DEF Identity, NoParent
    <3> QED BY <2>1, <3>1, <3>2 DEF OpTyped
  <2>2. CASE u \in DOMAIN b.nodes /\ u \notin DOMAIN a.nodes
    <3>1. NodeChange(a, b, u) = [op |-> "setNode", at |-> u, value |-> b.nodes[u]]
      BY <2>2 DEF NodeChange
    <3> QED BY <1>1, <2>2, <3>1 DEF OpTyped
  <2>3. CASE u \in DOMAIN b.nodes /\ u \in DOMAIN a.nodes
    <3> DEFINE x == a.nodes[u]
               y == b.nodes[u]
               v == Changes(x, y)
    <3>1. NodeChange(a, b, u) = [op |-> "setFields", at |-> u, value |-> v]
      BY <2>3 DEF NodeChange
    <3>2. \A f \in DOMAIN v : v[f] = y[f]
      BY DEF Changes
    <3>3. LiveNode(y)
      BY <1>1, <2>3
    <3>4. FieldsTyped(v)
      <4> HIDE DEF v, x, y
      <4> QED BY <3>2, <3>3 DEF FieldsTyped, LiveNode
    <3> HIDE DEF v
    <3>5. OpTyped(NodeChange(a, b, u), uids)
      BY <3>1, <3>4 DEF OpTyped
    <3> QED BY <2>3, <3>1, <3>5 DEF v
  <2> QED BY <2>1, <2>2, <2>3
<1>7. BatchTyped(ops, uids)
  <2>0. SUFFICES \A k \in 1 .. Len(ops) : OpTyped(ops[k], uids)
    BY <1>3 DEF BatchTyped
  <2> TAKE k \in 1 .. Len(ops)
  <2>1. CASE ops[k].op \in {"setEdge", "removeEdge"}
    BY <2>1 DEF OpTyped
  <2>2. CASE ops[k] = PropsChange(a, b)
    BY <1>5, <2>2
  <2>3. CASE \E u \in DOMAIN a.nodes \cup DOMAIN b.nodes : ops[k] = NodeChange(a, b, u)
    BY <1>6, <2>3
  <2> QED BY <1>3, <1>4, <2>1, <2>2, <2>3
<1>8. ASSUME NEW r, Held(a, r), Held(b, r) \/ r \notin DOMAIN b.nodes PROVE Keeps(ops, r)
  <2> SUFFICES ASSUME NEW k \in 1 .. Len(ops), ops[k].op = "setFields", ops[k].at = r
               PROVE  "parent" \notin DOMAIN ops[k].value
    BY DEF Keeps
  <2>1. PICK u \in DOMAIN a.nodes \cup DOMAIN b.nodes : ops[k] = NodeChange(a, b, u)
    BY <1>3, <1>4, <1>5
  <2>2. u = r /\ r \in DOMAIN a.nodes \cap DOMAIN b.nodes /\ ops[k].value = Changes(a.nodes[r], b.nodes[r])
    BY <1>6, <2>1
  <2>3. a.nodes[r].parent = b.nodes[r].parent
    BY <1>8, <2>2 DEF Held
  <2> DEFINE x == a.nodes[r]
             y == b.nodes[r]
  <2>4. x.parent = y.parent /\ ops[k].value = Changes(x, y)
    BY <2>2, <2>3
  <2> HIDE DEF x, y
  <2> QED BY <2>4 DEF Changes
<1>9. ASSUME NEW r, Held(a, r), r \notin DOMAIN b.nodes PROVE Removes(ops, r)
  <2>1. r \in DOMAIN a.nodes \ DOMAIN b.nodes
    BY <1>9 DEF Held
  <2>2. PICK k \in 1 .. Len(ops) : ops[k] = NodeChange(a, b, r)
    BY <1>2, <1>3, <2>1
  <2> QED BY <1>6, <2>1, <2>2 DEF Removes
<1> QED BY <1>7, <1>8, <1>9 DEF ops

\* As many members as places, when each is there once.
LEMMA InjectiveCounts ==
  ASSUME NEW T, NEW s \in Seq(T), IsInjective(s)
  PROVE  IsFiniteSet(ToSet(s)) /\ Cardinality(ToSet(s)) = Len(s)
<1>1. ToSet(s) = {s[k] : k \in 1 .. Len(s)} /\ Len(s) \in Nat
  BY MembersOf
<1>2. \A j, k \in 1 .. Len(s) : s[j] = s[k] => j = k
  BY LenProperties DEF IsInjective
<1> DEFINE f == [k \in 1 .. Len(s) |-> s[k]]
<1>3. f \in Bijection(1 .. Len(s), ToSet(s))
  BY <1>1, <1>2 DEF Bijection, Injection, Surjection, IsInjective
<1>4. IsFiniteSet(1 .. Len(s)) /\ Cardinality(1 .. Len(s)) = Len(s)
  BY <1>1, FS_Interval
<1>5. ExistsBijection(1 .. Len(s), ToSet(s))
  BY <1>3 DEF ExistsBijection
<1> QED BY <1>4, <1>5, FS_Bijection

\* Identities in their order.
LEMMA InOrderOf ==
  ASSUME NEW S \in SUBSET Identity
  PROVE  /\ InOrder(S) \in Seq(Identity) /\ ToSet(InOrder(S)) = S /\ IsInjective(InOrder(S))
         /\ IsFiniteSet(S) /\ Len(InOrder(S)) = Cardinality(S)
<1> DEFINE all == [u \in Identity |-> u]
<1>1. MaxIdentity \in Nat /\ Identity = 1 .. MaxIdentity
  BY MaxDepthNat DEF Identity
<1>2. all \in Seq(Identity) /\ ToSet(all) = Identity /\ IsInjective(all)
  <2>1. all \in [1 .. MaxIdentity -> Identity]
    BY <1>1
  <2>2. all \in Seq(Identity)
    BY <1>1, <2>1, SeqDef
  <2> QED BY <2>2 DEF ToSet, IsInjective
<1> HIDE DEF all
<1>3. /\ Only(all, S) \in Seq(Identity) /\ ToSet(Only(all, S)) = Identity \cap S
      /\ IsInjective(Only(all, S))
  BY <1>2, OnlyMembers
<1>4. InOrder(S) = Only(all, S)
  BY DEF InOrder, all
<1>5. InOrder(S) \in Seq(Identity) /\ ToSet(InOrder(S)) = S /\ IsInjective(InOrder(S))
  BY <1>3, <1>4
<1> QED BY <1>5, InjectiveCounts

\* The form of a file that a document of maps takes.
LEMMA ProjectFile ==
  ASSUME NEW c, NEW uids \in SUBSET Identity, LiveDoc(c, uids), ChildrenOf(c, NoParent) # {}
  PROVE  /\ IsFile(Project(c)) /\ IdentitiesOf(Project(c).nodes) = DOMAIN c.nodes
         /\ Root \in DOMAIN Project(c).nodes /\ Project(c).nodes[Root].syncId = RootOf(c)
         /\ Project(c).nodes[Root].parent = None
<1> DEFINE r == RootOf(c)
           rest == InOrder(DOMAIN c.nodes \ {r})
           keys == <<r>> \o rest
           number(u) == Position(keys, u)
           kids(i) == InSequence(c, ChildrenOf(c, keys[i]))
           m == [i \in DOMAIN keys |->
                  [syncId |-> keys[i],
                   parent |-> IF c.nodes[keys[i]].parent = NoParent THEN None ELSE number(c.nodes[keys[i]].parent),
                   children |-> [k \in DOMAIN kids(i) |-> number(kids(i)[k])],
                   kind |-> c.nodes[keys[i]].kind, meeting |-> c.nodes[keys[i]].meeting,
                   task |-> c.nodes[keys[i]].task, checked |-> c.nodes[keys[i]].checked,
                   folded |-> c.nodes[keys[i]].folded, content |-> c.nodes[keys[i]].content]]
           ends(a) == InOrder({b \in Identity : <<a, b>> \in c.edges})
           pair(a, b) == <<number(a), number(b)>>
           row(a) == [k \in DOMAIN ends(a) |-> pair(a, ends(a)[k])]
           rows == [a \in Identity |-> row(a)]
           pairs == {pair(a, b) : a \in Identity, b \in Identity}
<1>1. Project(c) = [nodes |-> Table(m), connections |-> FlattenSeq(rows),
                    layout |-> c.props.layout, manual |-> c.props.manual, look |-> c.props.look]
  BY DEF Project
<1>2. Table(m) = m
  BY TableIs
<1>3. /\ c.nodes = [u \in DOMAIN c.nodes |-> c.nodes[u]] /\ DOMAIN c.nodes \subseteq Identity
      /\ \A u \in DOMAIN c.nodes : LiveNode(c.nodes[u])
      /\ PropsTyped(c.props) /\ {"layout", "manual", "look"} \subseteq DOMAIN c.props
  BY DEF LiveDoc
<1>4. MaxIdentity \in Nat /\ Identity = 1 .. MaxIdentity
  BY MaxDepthNat DEF Identity
<1>5. r \in DOMAIN c.nodes /\ c.nodes[r].parent = NoParent
  BY DEF ChildrenOf, RootOf
<1>6. /\ rest \in Seq(Identity) /\ ToSet(rest) = DOMAIN c.nodes \ {r}
      /\ IsFiniteSet(DOMAIN c.nodes)
  BY <1>3, InOrderOf
<1> HIDE DEF rest
<1>7. keys \in Seq(Identity) /\ ToSet(keys) = DOMAIN c.nodes /\ keys[1] = r /\ Len(keys) >= 1
  <2>1. r \in Identity
    BY <1>3, <1>5
  <2>2. <<r>> \in Seq(Identity) /\ ToSet(<<r>>) = {r} /\ Len(<<r>>) = 1 /\ <<r>>[1] = r
    BY <2>1 DEF ToSet
  <2> HIDE DEF r
  <2>3. keys \in Seq(Identity) /\ ToSet(keys) = ToSet(<<r>>) \cup ToSet(rest)
    <3> DEFINE one == <<r>>
    <3>1. one \in Seq(Identity) /\ keys = one \o rest
      BY <2>2
    <3> HIDE DEF one, keys
    <3>2. keys \in Seq(Identity) /\ ToSet(keys) = ToSet(one) \cup ToSet(rest)
      BY <1>6, <3>1, ConcatMembers
    <3> QED BY <3>2 DEF one
  <2>4. Len(keys) = 1 + Len(rest) /\ keys[1] = r /\ Len(rest) \in Nat
    BY <1>6, <2>2, ConcatProperties, LenProperties
  <2>5. Len(keys) >= 1
    BY <2>4
  <2>6. {r} \cup (DOMAIN c.nodes \ {r}) = DOMAIN c.nodes
    BY <1>5
  <2> HIDE DEF keys
  <2> QED BY <1>6, <2>2, <2>3, <2>4, <2>5, <2>6
<1> HIDE DEF keys, r
<1>8. DOMAIN keys = 1 .. Len(keys) /\ Len(keys) \in Nat
      /\ \A i \in DOMAIN keys : keys[i] \in DOMAIN c.nodes
  <2>1. keys \in Seq(Identity) /\ ToSet(keys) = DOMAIN c.nodes
    BY <1>7
  <2>2. DOMAIN keys = 1 .. Len(keys) /\ Len(keys) \in Nat
    BY <2>1, LenProperties
  <2>3. \A i \in DOMAIN keys : keys[i] \in ToSet(keys)
    BY DEF ToSet
  <2> QED BY <2>1, <2>2, <2>3
<1>9. \A i \in DOMAIN keys : kids(i) = [k \in 1 .. Len(kids(i)) |-> kids(i)[k]] /\ Len(kids(i)) \in Nat
                              /\ DOMAIN kids(i) = 1 .. Len(kids(i))
  <2> TAKE i \in DOMAIN keys
  <2> DEFINE S == ChildrenOf(c, keys[i])
             n == Cardinality(S)
  <2>1. S \subseteq DOMAIN c.nodes
    BY DEF ChildrenOf
  <2>2. IsFiniteSet(S)
    BY <1>6, <2>1, FS_Subset
  <2>3. n \in Nat
    BY <2>2, FS_CardinalityType
  <2>4. \E g : kids(i) = [k \in 1 .. n |-> g[k]]
    <3> DEFINE before(u) == {v \in S : \/ c.nodes[v].order < c.nodes[u].order
                                       \/ c.nodes[v].order = c.nodes[u].order /\ v < u}
               g == [k \in 1 .. n |-> CHOOSE u \in S : Cardinality(before(u)) = k - 1]
    <3>1. kids(i) = g
      BY DEF InSequence
    <3> DEFINE chosen(k) == CHOOSE u \in S : Cardinality(before(u)) = k - 1
    <3>2. g = [k \in 1 .. n |-> chosen(k)]
      OBVIOUS
    <3> HIDE DEF chosen, n
    <3>3. g = [k \in 1 .. n |-> g[k]]
      BY <3>2
    <3> QED BY <3>1, <3>3
  <2>5. PICK g : kids(i) = [k \in 1 .. n |-> g[k]]
    BY <2>4
  <2> HIDE DEF kids, n
  <2>6. Len(kids(i)) = n /\ DOMAIN kids(i) = 1 .. n /\ kids(i) = [k \in 1 .. n |-> kids(i)[k]]
    BY <2>3, <2>5
  <2> QED BY <2>3, <2>6
<1>10. ASSUME NEW i \in DOMAIN keys
       PROVE  /\ Record(m[i]) /\ m[i].syncId = keys[i]
              /\ m[i].parent = IF c.nodes[keys[i]].parent = NoParent THEN None ELSE number(c.nodes[keys[i]].parent)
  <2> DEFINE x == c.nodes[keys[i]]
             n == m[i]
             list == [k \in DOMAIN kids(i) |-> number(kids(i)[k])]
             up == IF x.parent = NoParent THEN None ELSE number(x.parent)
  <2>1. LiveNode(x) /\ keys[i] \in Int
    BY <1>3, <1>4, <1>8
  <2>2. n = [syncId |-> keys[i], parent |-> up, children |-> list,
             kind |-> x.kind, meeting |-> x.meeting, task |-> x.task, checked |-> x.checked,
             folded |-> x.folded, content |-> x.content]
    OBVIOUS
  <2>3. list \in Seq(ToSet(list))
    <3>1. list \in [1 .. Len(kids(i)) -> ToSet(list)] /\ Len(kids(i)) \in Nat
      <4> HIDE DEF kids, number
      <4> QED BY <1>9 DEF ToSet
    <3> HIDE DEF list, kids
    <3> QED BY <3>1, SeqDef
  <2> HIDE DEF list, n, x, up
  <2>4. Record(n)
    BY <2>1, <2>2, <2>3 DEF Record, LiveNode, FieldsTyped
  <2>5. n.syncId = keys[i] /\ n.parent = up
    BY <2>2
  <2> QED BY <2>4, <2>5 DEF n, x, up
<1>11. DOMAIN m = 1 .. Len(keys) /\ m = [i \in DOMAIN m |-> m[i]]
  BY <1>8
<1>12. rows \in Seq(Seq(pairs))
  <2>1. \A a \in Identity : row(a) \in Seq(pairs)
    <3> TAKE a \in Identity
    <3>1. ends(a) \in Seq(Identity)
      BY InOrderOf
    <3> HIDE DEF ends
    <3>2. Len(ends(a)) \in Nat /\ DOMAIN ends(a) = 1 .. Len(ends(a)) /\ \A k \in 1 .. Len(ends(a)) : ends(a)[k] \in Identity
      BY <3>1, LenProperties
    <3>3. \A b \in Identity : pair(a, b) \in pairs
      OBVIOUS
    <3> HIDE DEF pair, pairs
    <3>4. row(a) \in [1 .. Len(ends(a)) -> pairs]
      BY <3>2, <3>3
    <3> HIDE DEF row
    <3> QED BY <3>2, <3>4, SeqDef
  <2> HIDE DEF row, pairs
  <2>2. rows \in [1 .. MaxIdentity -> Seq(pairs)]
    BY <1>4, <2>1
  <2> QED BY <1>4, <2>2, SeqDef
<1>13. \A e \in pairs : e = <<e[1], e[2]>>
  OBVIOUS
<1> DEFINE p == Project(c)
<1> HIDE DEF m, rows, pairs, number
<1>14. FlattenSeq(rows) \in Seq(pairs)
  BY <1>12, FlatMembers
<1>15. p.nodes = m /\ p.connections = FlattenSeq(rows) /\ p.layout = c.props.layout /\ p.manual = c.props.manual
       /\ p.look = c.props.look
       /\ p = [nodes |-> p.nodes, connections |-> p.connections, layout |-> p.layout, manual |-> p.manual, look |-> p.look]
  BY <1>1, <1>2
<1> HIDE DEF p
<1>16. Records(p.nodes)
  <2>a. IsFiniteSet(1 .. Len(keys))
    BY <1>8, FS_Interval
  <2>1. IsFiniteSet(1 .. Len(keys)) /\ 1 .. Len(keys) \subseteq Nat \ {0}
    BY <2>a
  <2> QED BY <1>8, <1>10, <1>11, <1>15, <2>1 DEF Records
<1>17. p.connections \in Seq(ToSet(p.connections))
       /\ \A k \in DOMAIN p.connections : p.connections[k] = <<p.connections[k][1], p.connections[k][2]>>
  <2>1. p.connections \in Seq(pairs)
    BY <1>14, <1>15
  <2>2. p.connections \in Seq(ToSet(p.connections)) /\ DOMAIN p.connections = 1 .. Len(p.connections)
    BY <2>1, MembersOf, LenProperties
  <2>3. \A k \in DOMAIN p.connections : p.connections[k] \in pairs
    BY <2>1, <2>2
  <2> QED BY <1>13, <2>2, <2>3
<1>18. p.layout \in Layout /\ p.manual \in BOOLEAN /\ p.look \in Content
  BY <1>3, <1>15 DEF PropsTyped
<1>19. IsFile(p)
  BY <1>15, <1>16, <1>17, <1>18 DEF IsFile
<1>20. IdentitiesOf(p.nodes) = DOMAIN c.nodes
  <2>1. IdentitiesOf(m) = {keys[i] : i \in DOMAIN keys}
    BY <1>8, <1>10, <1>11 DEF IdentitiesOf
  <2>2. ToSet(keys) = {keys[i] : i \in DOMAIN keys}
    BY DEF ToSet
  <2> QED BY <1>7, <1>15, <2>1, <2>2
<1>21. Root \in DOMAIN m /\ m[Root].syncId = r /\ m[Root].parent = None
  <2>1. 1 \in DOMAIN keys
    BY <1>7, <1>8
  <2> QED BY <1>5, <1>7, <1>8, <1>10, <1>11, <2>1 DEF Root
<1> QED BY <1>15, <1>19, <1>20, <1>21 DEF p, r

-----------------------------------------------------------------------------
(***************************************************************************)
(* What the nodes of a document say, whatever they are linked to.          *)
(***************************************************************************)
Words(n) == {<<n[i].syncId, n[i].content>> : i \in DOMAIN n}
SharedWords(c) == {<<u, c.nodes[u].content>> : u \in DOMAIN c.nodes}

\* An operation says what the node u holds.
Says(o, u) == o.op \in {"setNode", "setFields"} /\ o.at = u /\ "content" \in DOMAIN o.value

LEMMA EffectWords ==
  ASSUME NEW c, NEW uids \in SUBSET Identity, LiveDoc(c, uids), NEW o, OpTyped(o, uids),
         ~Refused(c, o)
  PROVE  /\ \A u \in DOMAIN Effect(c, o).nodes : u \in DOMAIN c.nodes \/ (o.op = "setNode" /\ o.at = u)
         /\ o.op = "removeNode" => o.at \notin DOMAIN Effect(c, o).nodes
         /\ o.op = "setNode" => o.at \in DOMAIN Effect(c, o).nodes
         /\ o.op # "removeNode" => DOMAIN c.nodes \subseteq DOMAIN Effect(c, o).nodes
         /\ \A u \in DOMAIN Effect(c, o).nodes :
              /\ Says(o, u) => Effect(c, o).nodes[u].content = o.value.content
              /\ ~Says(o, u) => u \in DOMAIN c.nodes /\ Effect(c, o).nodes[u].content = c.nodes[u].content
<1> DEFINE e == Effect(c, o)
           Goal(m) ==
             /\ \A u \in DOMAIN m : u \in DOMAIN c.nodes \/ (o.op = "setNode" /\ o.at = u)
             /\ o.op = "removeNode" => o.at \notin DOMAIN m
             /\ o.op = "setNode" => o.at \in DOMAIN m
             /\ o.op # "removeNode" => DOMAIN c.nodes \subseteq DOMAIN m
             /\ \A u \in DOMAIN m :
                  /\ Says(o, u) => m[u].content = o.value.content
                  /\ ~Says(o, u) => u \in DOMAIN c.nodes /\ m[u].content = c.nodes[u].content
<1>1. /\ c \in [props : {c.props}, nodes : {c.nodes}, edges : {c.edges}]
      /\ \A u \in DOMAIN c.nodes : LiveNode(c.nodes[u])
  BY DEF LiveDoc
<1>2. CASE o.op = "setNode"
  <2> DEFINE one == Single(o.at, o.value)
             m == Over(c.nodes, one)
  <2>1. e = [c EXCEPT !.nodes = m]
    BY <1>2 DEF Effect
  <2>2. DOMAIN one = {o.at} /\ one[o.at] = o.value
    BY SingleIs
  <2>3. "content" \in DOMAIN o.value
    BY <1>2 DEF OpTyped, LiveNode
  <2> HIDE DEF one
  <2>4. /\ DOMAIN m = DOMAIN c.nodes \cup {o.at}
        /\ \A x \in DOMAIN c.nodes : m[x] = c.nodes[x]
        /\ o.at \notin DOMAIN c.nodes => m[o.at] = o.value
    <3>1. /\ DOMAIN m = DOMAIN c.nodes \cup DOMAIN one
          /\ \A x \in DOMAIN c.nodes : m[x] = c.nodes[x]
          /\ \A x \in DOMAIN one \ DOMAIN c.nodes : m[x] = one[x]
      BY OverIs
    <3> HIDE DEF m
    <3> QED BY <2>2, <3>1
  <2> HIDE DEF m
  <2>5. m[o.at] = o.value
    BY <1>2, <2>4 DEF Refused
  <2>6. Goal(m)
    <3>1. \A u : Says(o, u) <=> u = o.at
      BY <1>2, <2>3 DEF Says
    <3> QED BY <1>2, <2>4, <2>5, <3>1
  <2>7. e.nodes = m
    BY <1>1, <2>1
  <2> HIDE DEF e, Goal
  <2>8. Goal(e.nodes)
    BY <2>6, <2>7
  <2> QED BY <2>8 DEF e, Goal
<1>3. CASE o.op = "removeNode" /\ o.at \in DOMAIN c.nodes
  <2> DEFINE gone == Under(c, o.at)
             m == [v \in DOMAIN c.nodes \ gone |-> c.nodes[v]]
             edges == {x \in c.edges : x[1] \notin gone /\ x[2] \notin gone}
  <2>1. e = [c EXCEPT !.nodes = Table(m), !.edges = edges]
    BY <1>3 DEF Effect, RemovedNode
  <2>2. Table(m) = m
    BY TableIs
  <2>3. o.at \in gone
    <3>1. o.at # NoParent
      BY <1>3 DEF OpTyped
    <3> QED BY <3>1, UnderOf
  <2> HIDE DEF gone
  <2>4. Goal(m)
    <3>1. \A u : ~Says(o, u)
      BY <1>3 DEF Says
    <3>2. DOMAIN m \subseteq DOMAIN c.nodes /\ o.at \notin DOMAIN m /\ \A u \in DOMAIN m : m[u] = c.nodes[u]
      BY <2>3
    <3> HIDE DEF m
    <3> QED BY <1>3, <3>1, <3>2
  <2> HIDE DEF m, edges
  <2>5. e.nodes = m
    BY <1>1, <2>1, <2>2
  <2> HIDE DEF e, Goal
  <2>6. Goal(e.nodes)
    BY <2>4, <2>5
  <2> QED BY <2>6 DEF e, Goal
<1>4. CASE o.op = "setFields" /\ o.at \in DOMAIN c.nodes
  <2> DEFINE n == Over(o.value, c.nodes[o.at])
             m == [c.nodes EXCEPT ![o.at] = n]
  <2>1. e = [c EXCEPT !.nodes = m]
    BY <1>4 DEF Effect
  <2>2. n.content = IF "content" \in DOMAIN o.value THEN o.value.content ELSE c.nodes[o.at].content
    <3> DEFINE x == c.nodes[o.at]
    <3>1. "content" \in DOMAIN x
      BY <1>1, <1>4 DEF LiveNode
    <3>2. /\ DOMAIN n = DOMAIN o.value \cup DOMAIN x
          /\ \A f \in DOMAIN o.value : n[f] = o.value[f]
          /\ \A f \in DOMAIN x \ DOMAIN o.value : n[f] = x[f]
      BY OverIs
    <3> HIDE DEF n, x
    <3>3. n.content = IF "content" \in DOMAIN o.value THEN o.value.content ELSE x.content
      BY <3>1, <3>2
    <3> QED BY <3>3 DEF x
  <2> HIDE DEF n
  <2>3. DOMAIN m = DOMAIN c.nodes /\ m[o.at] = n /\ \A u \in DOMAIN m \ {o.at} : m[u] = c.nodes[u]
    BY <1>4
  <2> HIDE DEF m
  <2>4. Goal(m)
    <3>1. \A u : Says(o, u) <=> u = o.at /\ "content" \in DOMAIN o.value
      BY <1>4 DEF Says
    <3>2. o.op # "setNode" /\ o.op # "removeNode"
      BY <1>4
    <3>3. \A u \in DOMAIN m : /\ Says(o, u) => m[u].content = o.value.content
                              /\ ~Says(o, u) => u \in DOMAIN c.nodes /\ m[u].content = c.nodes[u].content
      <4> TAKE u \in DOMAIN m
      <4>1. CASE u = o.at
        BY <1>4, <2>2, <2>3, <3>1, <4>1
      <4>2. CASE u # o.at
        BY <2>3, <3>1, <4>2
      <4> QED BY <4>1, <4>2
    <3>4. /\ \A u \in DOMAIN m : u \in DOMAIN c.nodes
          /\ DOMAIN c.nodes \subseteq DOMAIN m
      BY <2>3
    <3> QED BY <3>2, <3>3, <3>4
  <2>5. e.nodes = m
    BY <1>1, <2>1
  <2> HIDE DEF e, Goal
  <2>6. Goal(e.nodes)
    BY <2>4, <2>5
  <2> QED BY <2>6 DEF e, Goal
<1>5. CASE o.op # "setNode" /\ ~(o.op \in {"removeNode", "setFields"} /\ o.at \in DOMAIN c.nodes)
  <2>1. e.nodes = c.nodes
    <3>1. \E p : e = [c EXCEPT !.props = p] \/ e = [c EXCEPT !.edges = c.edges \cup {o.at}]
                 \/ e = [c EXCEPT !.edges = c.edges \ {o.at}] \/ e = c
      BY <1>5 DEF Effect
    <3> HIDE DEF e
    <3> QED BY <1>1, <3>1
  <2>2. Goal(c.nodes)
    <3>1. \A u \in DOMAIN c.nodes : ~Says(o, u)
      BY <1>5 DEF Says
    <3>2. o.op = "removeNode" => o.at \notin DOMAIN c.nodes
      BY <1>5
    <3> QED BY <1>5, <3>1, <3>2
  <2> HIDE DEF e, Goal
  <2>3. Goal(e.nodes)
    BY <2>1, <2>2
  <2> QED BY <2>3 DEF e, Goal
<1> QED BY <1>2, <1>3, <1>4, <1>5

\* After a batch a node holds what was said of it, or what it held before.  Nodes
\* come by what sets them, and what is removed and never set is gone.
LEMMA BatchWords ==
  ASSUME NEW c, NEW uids \in SUBSET Identity, LiveDoc(c, uids), NEW ops, BatchTyped(ops, uids),
         NEW w, \A k \in 1 .. Len(ops) : \A u : Says(ops[k], u) => ops[k].value.content = w[u],
         \A j, k \in 1 .. Len(ops) :
           ops[j].op = "removeNode" /\ ops[k].op = "setNode" => ops[j].at # ops[k].at,
         NEW x \in Results(c, ops)
  PROVE  /\ \A u \in DOMAIN x.nodes :
              u \in DOMAIN c.nodes \/ (\E k \in 1 .. Len(ops) : ops[k].op = "setNode" /\ ops[k].at = u)
         /\ \A k \in 1 .. Len(ops) : ops[k].op = "removeNode" => ops[k].at \notin DOMAIN x.nodes
         /\ \A u \in DOMAIN x.nodes :
              /\ (\E k \in 1 .. Len(ops) : Says(ops[k], u)) => x.nodes[u].content = w[u]
              /\ (\A k \in 1 .. Len(ops) : ~Says(ops[k], u)) =>
                   u \in DOMAIN c.nodes /\ x.nodes[u].content = c.nodes[u].content
         /\ (\A k \in 1 .. Len(ops) : ops[k].op # "removeNode") =>
              /\ DOMAIN c.nodes \subseteq DOMAIN x.nodes
              /\ \A k \in 1 .. Len(ops) : ops[k].op = "setNode" => ops[k].at \in DOMAIN x.nodes
<1> DEFINE f == CHOOSE g : Applying(c, ops, g)
           Came(n, y) == \A u \in DOMAIN y.nodes :
             u \in DOMAIN c.nodes \/ (\E k \in 1 .. n : ops[k].op = "setNode" /\ ops[k].at = u)
           Went(n, y) == \A k \in 1 .. n : ops[k].op = "removeNode" => ops[k].at \notin DOMAIN y.nodes
           Told(n, y) == \A u \in DOMAIN y.nodes :
             /\ (\E k \in 1 .. n : Says(ops[k], u)) => y.nodes[u].content = w[u]
             /\ (\A k \in 1 .. n : ~Says(ops[k], u)) =>
                  u \in DOMAIN c.nodes /\ y.nodes[u].content = c.nodes[u].content
           Stayed(n, y) == (\A k \in 1 .. n : ops[k].op # "removeNode") =>
             /\ DOMAIN c.nodes \subseteq DOMAIN y.nodes
             /\ \A k \in 1 .. n : ops[k].op = "setNode" => ops[k].at \in DOMAIN y.nodes
           Fine(n, y) == LiveDoc(y, uids) /\ Came(n, y) /\ Went(n, y) /\ Told(n, y) /\ Stayed(n, y)
           Good == {n \in Nat : n <= Len(ops) => \A y \in f[n] : Fine(n, y)}
<1>1. Len(ops) \in Nat
  BY LenProperties DEF BatchTyped
<1>2. Applying(c, ops, f)
  BY <1>1, ApplyingExists
<1>3. x \in f[Len(ops)]
  BY DEF Results, Applying
<1> HIDE DEF f
<1>4. f[0] = {c}
  BY <1>1, <1>2 DEF Applying
<1>5. 0 \in Good
  <2>1. Fine(0, c)
    OBVIOUS
  <2> HIDE DEF Fine
  <2> QED BY <1>4, <2>1
<1>6. ASSUME NEW n \in Good PROVE n + 1 \in Good
  <2> SUFFICES ASSUME n + 1 <= Len(ops), NEW z \in f[n + 1] PROVE Fine(n + 1, z)
    OBVIOUS
  <2>1. n \in Nat /\ n <= Len(ops) /\ n + 1 \in 1 .. Len(ops) /\ n + 1 \in 0 .. Len(ops)
        /\ (n + 1) - 1 = n /\ n + 1 # 0 /\ 1 .. n + 1 = (1 .. n) \cup {n + 1} /\ 1 .. n \subseteq 1 .. Len(ops)
    BY <1>1
  <2> DEFINE o == ops[n + 1]
  <2>2. f[n + 1] = {Effect(y, o) : y \in {y \in f[n] : ~Refused(y, o)}}
    BY <1>2, <2>1 DEF Applying
  <2>3. PICK y \in f[n] : ~Refused(y, o) /\ z = Effect(y, o)
    BY <2>2
  <2>4. Fine(n, y) /\ OpTyped(o, uids)
    BY <2>1 DEF BatchTyped
  <2>5. LiveDoc(z, uids)
    BY <2>3, <2>4, EffectLive
  <2>6. /\ \A u \in DOMAIN z.nodes : u \in DOMAIN y.nodes \/ (o.op = "setNode" /\ o.at = u)
        /\ o.op = "removeNode" => o.at \notin DOMAIN z.nodes
        /\ o.op = "setNode" => o.at \in DOMAIN z.nodes
        /\ o.op # "removeNode" => DOMAIN y.nodes \subseteq DOMAIN z.nodes
        /\ \A u \in DOMAIN z.nodes :
             /\ Says(o, u) => z.nodes[u].content = o.value.content
             /\ ~Says(o, u) => u \in DOMAIN y.nodes /\ z.nodes[u].content = y.nodes[u].content
    BY <2>3, <2>4, EffectWords
  <2>7. \A u : Says(o, u) => o.value.content = w[u]
    BY <2>1
  <2>8. \A k \in 1 .. n : ops[k].op = "removeNode" /\ o.op = "setNode" => ops[k].at # o.at
    BY <2>1
  <2> HIDE DEF o
  <2>9. Came(n + 1, z)
    <3> SUFFICES ASSUME NEW u \in DOMAIN z.nodes
                 PROVE  u \in DOMAIN c.nodes \/ (\E k \in 1 .. n + 1 : ops[k].op = "setNode" /\ ops[k].at = u)
      OBVIOUS
    <3>1. CASE u \in DOMAIN y.nodes
      BY <2>1, <2>4, <3>1
    <3>2. CASE o.op = "setNode" /\ o.at = u
      BY <2>1, <3>2 DEF o
    <3> QED BY <2>6, <3>1, <3>2
  <2>10. Went(n + 1, z)
    <3> SUFFICES ASSUME NEW k \in 1 .. n + 1, ops[k].op = "removeNode" PROVE ops[k].at \notin DOMAIN z.nodes
      OBVIOUS
    <3>1. CASE k \in 1 .. n
      <4>1. ops[k].at \notin DOMAIN y.nodes
        BY <2>4, <3>1
      <4>2. ~(o.op = "setNode" /\ o.at = ops[k].at)
        BY <2>8, <3>1
      <4> QED BY <2>6, <4>1, <4>2
    <3>2. CASE k = n + 1
      BY <2>6, <3>2 DEF o
    <3> QED BY <2>1, <3>1, <3>2
  <2>11. Told(n + 1, z)
    <3> SUFFICES ASSUME NEW u \in DOMAIN z.nodes
                 PROVE  /\ (\E k \in 1 .. n + 1 : Says(ops[k], u)) => z.nodes[u].content = w[u]
                        /\ (\A k \in 1 .. n + 1 : ~Says(ops[k], u)) =>
                             u \in DOMAIN c.nodes /\ z.nodes[u].content = c.nodes[u].content
      OBVIOUS
    <3>1. CASE Says(o, u)
      <4>1. z.nodes[u].content = w[u]
        BY <2>6, <2>7, <3>1
      <4> QED BY <2>1, <3>1, <4>1 DEF o
    <3>2. CASE ~Says(o, u)
      <4>1. u \in DOMAIN y.nodes /\ z.nodes[u].content = y.nodes[u].content
        BY <2>6, <3>2
      <4>2. (\E k \in 1 .. n + 1 : Says(ops[k], u)) => \E k \in 1 .. n : Says(ops[k], u)
        BY <2>1, <3>2 DEF o
      <4>3. (\A k \in 1 .. n + 1 : ~Says(ops[k], u)) => \A k \in 1 .. n : ~Says(ops[k], u)
        BY <2>1
      <4> QED BY <2>4, <4>1, <4>2, <4>3
    <3> QED BY <3>1, <3>2
  <2>12. Stayed(n + 1, z)
    <3> SUFFICES ASSUME \A k \in 1 .. n + 1 : ops[k].op # "removeNode"
                 PROVE  /\ DOMAIN c.nodes \subseteq DOMAIN z.nodes
                        /\ \A k \in 1 .. n + 1 : ops[k].op = "setNode" => ops[k].at \in DOMAIN z.nodes
      OBVIOUS
    <3>1. (\A k \in 1 .. n : ops[k].op # "removeNode") /\ o.op # "removeNode"
      BY <2>1 DEF o
    <3>2. /\ DOMAIN c.nodes \subseteq DOMAIN y.nodes /\ DOMAIN y.nodes \subseteq DOMAIN z.nodes
          /\ \A k \in 1 .. n : ops[k].op = "setNode" => ops[k].at \in DOMAIN y.nodes
      BY <2>4, <2>6, <3>1
    <3>3. ASSUME NEW k \in 1 .. n + 1, ops[k].op = "setNode" PROVE ops[k].at \in DOMAIN z.nodes
      <4>1. CASE k \in 1 .. n
        BY <3>2, <3>3, <4>1
      <4>2. CASE k = n + 1
        BY <2>6, <3>3, <4>2 DEF o
      <4> QED BY <2>1, <4>1, <4>2
    <3> QED BY <3>2, <3>3
  <2> QED BY <2>5, <2>9, <2>10, <2>11, <2>12
<1> HIDE DEF Fine
<1>7. Good = Nat
  <2> HIDE DEF Good
  <2>1. Good \in SUBSET Nat
    BY DEF Good
  <2> QED BY <1>5, <1>6, <2>1, InductiveSet
<1>8. Fine(Len(ops), x)
  BY <1>1, <1>3, <1>7
<1> QED BY <1>8 DEF Fine

\* The second of two documents says what the node u holds.
Rewritten(a, b, u) ==
  u \in DOMAIN b.nodes /\ (u \in DOMAIN a.nodes => a.nodes[u].content # b.nodes[u].content)

LEMMA NodeChangeSays ==
  ASSUME NEW uids \in SUBSET Identity, NEW a, LiveDoc(a, uids), NEW b, LiveDoc(b, uids),
         NEW v \in DOMAIN a.nodes \cup DOMAIN b.nodes
  PROVE  LET o == NodeChange(a, b, v)
         IN /\ \A u : Says(o, u) <=> u = v /\ Rewritten(a, b, v)
            /\ Rewritten(a, b, v) => o.value.content = b.nodes[v].content
            /\ o.at = v
            /\ o.op = "removeNode" <=> v \in DOMAIN a.nodes \ DOMAIN b.nodes
            /\ o.op = "setNode" <=> v \in DOMAIN b.nodes \ DOMAIN a.nodes
<1> DEFINE o == NodeChange(a, b, v)
<1>1. /\ \A u \in DOMAIN a.nodes : "content" \in DOMAIN a.nodes[u]
      /\ \A u \in DOMAIN b.nodes : "content" \in DOMAIN b.nodes[u]
  BY DEF LiveDoc, LiveNode
<1>2. CASE v \notin DOMAIN b.nodes
  <2>1. o = [op |-> "removeNode", at |-> v]
    BY <1>2 DEF NodeChange
  <2> HIDE DEF o
  <2>2. /\ \A u : Says(o, u) <=> u = v /\ Rewritten(a, b, v)
        /\ Rewritten(a, b, v) => o.value.content = b.nodes[v].content
        /\ o.at = v
        /\ o.op = "removeNode" <=> v \in DOMAIN a.nodes \ DOMAIN b.nodes
        /\ o.op = "setNode" <=> v \in DOMAIN b.nodes \ DOMAIN a.nodes
    BY <1>2, <2>1 DEF Says, Rewritten
  <2> QED BY <2>2 DEF o
<1>3. CASE v \in DOMAIN b.nodes /\ v \notin DOMAIN a.nodes
  <2>1. o = [op |-> "setNode", at |-> v, value |-> b.nodes[v]]
    BY <1>3 DEF NodeChange
  <2> HIDE DEF o
  <2>2. /\ \A u : Says(o, u) <=> u = v /\ Rewritten(a, b, v)
        /\ Rewritten(a, b, v) => o.value.content = b.nodes[v].content
        /\ o.at = v
        /\ o.op = "removeNode" <=> v \in DOMAIN a.nodes \ DOMAIN b.nodes
        /\ o.op = "setNode" <=> v \in DOMAIN b.nodes \ DOMAIN a.nodes
    BY <1>1, <1>3, <2>1 DEF Says, Rewritten
  <2> QED BY <2>2 DEF o
<1>4. CASE v \in DOMAIN b.nodes /\ v \in DOMAIN a.nodes
  <2> DEFINE p == a.nodes[v]
             q == b.nodes[v]
             d == Changes(p, q)
  <2>1. o = [op |-> "setFields", at |-> v, value |-> d]
    BY <1>4 DEF NodeChange
  <2>2. "content" \in DOMAIN p
    BY <1>1, <1>4
  <2>3. "content" \in DOMAIN d <=> p.content # q.content
    BY <2>2 DEF Changes
  <2>4. "content" \in DOMAIN d => d.content = q.content
    BY DEF Changes
  <2>5. Rewritten(a, b, v) <=> p.content # q.content
    BY <1>4 DEF Rewritten
  <2>6. b.nodes[v].content = q.content
    OBVIOUS
  <2> HIDE DEF d, o, p, q
  <2>7. /\ \A u : Says(o, u) <=> u = v /\ Rewritten(a, b, v)
        /\ Rewritten(a, b, v) => o.value.content = b.nodes[v].content
        /\ o.at = v
        /\ o.op = "removeNode" <=> v \in DOMAIN a.nodes \ DOMAIN b.nodes
        /\ o.op = "setNode" <=> v \in DOMAIN b.nodes \ DOMAIN a.nodes
    BY <1>4, <2>1, <2>3, <2>4, <2>5, <2>6 DEF Says
  <2> QED BY <2>7 DEF o
<1> QED BY <1>2, <1>3, <1>4

\* The difference of two documents, laid over a third one: x takes from b what is
\* new against a, and the rest from c.
LiesOver(x, c, a, b) ==
  /\ DOMAIN x.nodes \subseteq DOMAIN c.nodes \cup (DOMAIN b.nodes \ DOMAIN a.nodes)
  /\ DOMAIN x.nodes \cap (DOMAIN a.nodes \ DOMAIN b.nodes) = {}
  /\ \A u \in DOMAIN x.nodes :
       /\ Rewritten(a, b, u) => x.nodes[u].content = b.nodes[u].content
       /\ ~Rewritten(a, b, u) => u \in DOMAIN c.nodes /\ x.nodes[u].content = c.nodes[u].content
  /\ DOMAIN a.nodes \subseteq DOMAIN b.nodes =>
       DOMAIN c.nodes \cup (DOMAIN b.nodes \ DOMAIN a.nodes) \subseteq DOMAIN x.nodes

LEMMA LaidOver ==
  ASSUME NEW uids \in SUBSET Identity, NEW a, LiveDoc(a, uids), NEW b, LiveDoc(b, uids),
         NEW c, LiveDoc(c, uids), NEW x \in Results(c, Diff(a, b))
  PROVE  LiesOver(x, c, a, b)
<1> DEFINE ops == Diff(a, b)
           w == [u \in DOMAIN b.nodes |-> b.nodes[u].content]
           both == DOMAIN a.nodes \cup DOMAIN b.nodes
<1>1. both \subseteq Identity /\ BatchTyped(ops, uids)
  BY DiffOf DEF LiveDoc
<1>2. /\ ops \in Seq(DiffOps(a, b)) /\ \A u \in Differing(a, b) : NodeChange(a, b, u) \in ToSet(ops)
  BY <1>1, DiffMembers
<1> HIDE DEF ops
<1>3. /\ Len(ops) \in Nat /\ ToSet(ops) = {ops[k] : k \in 1 .. Len(ops)}
      /\ \A k \in 1 .. Len(ops) : ops[k] \in DiffOps(a, b)
  <2>1. ToSet(ops) = {ops[k] : k \in 1 .. Len(ops)} /\ Len(ops) \in Nat /\ ToSet(ops) \subseteq DiffOps(a, b)
    BY <1>2, MembersOf
  <2> QED BY <2>1
<1>4. \A k \in 1 .. Len(ops) :
        \/ ops[k].op \in {"setProps", "setEdge", "removeEdge"}
        \/ \E v \in both : ops[k] = NodeChange(a, b, v)
  BY <1>3 DEF DiffOps, PropsChange, EdgeChange
<1> HIDE DEF w
<1>5. \A v \in both :
        /\ \A u : Says(NodeChange(a, b, v), u) <=> u = v /\ Rewritten(a, b, v)
        /\ Rewritten(a, b, v) => NodeChange(a, b, v).value.content = b.nodes[v].content
        /\ NodeChange(a, b, v).at = v
        /\ NodeChange(a, b, v).op = "removeNode" <=> v \in DOMAIN a.nodes \ DOMAIN b.nodes
        /\ NodeChange(a, b, v).op = "setNode" <=> v \in DOMAIN b.nodes \ DOMAIN a.nodes
  BY NodeChangeSays
<1>6. ASSUME NEW k \in 1 .. Len(ops), NEW u, Says(ops[k], u)
      PROVE  Rewritten(a, b, u) /\ ops[k].value.content = w[u]
  <2>1. PICK v \in both : ops[k] = NodeChange(a, b, v)
    BY <1>4, <1>6 DEF Says
  <2>2. u = v /\ Rewritten(a, b, v) /\ ops[k].value.content = b.nodes[v].content
    BY <1>5, <1>6, <2>1
  <2>3. v \in DOMAIN b.nodes
    BY <2>2 DEF Rewritten
  <2> QED BY <2>2, <2>3 DEF w
<1>7. ASSUME NEW k \in 1 .. Len(ops)
      PROVE  /\ ops[k].op = "removeNode" => ops[k].at \in DOMAIN a.nodes \ DOMAIN b.nodes
             /\ ops[k].op = "setNode" => ops[k].at \in DOMAIN b.nodes \ DOMAIN a.nodes
  BY <1>4, <1>5
<1>8. ASSUME NEW u \in both, Rewritten(a, b, u) \/ u \notin DOMAIN a.nodes \cap DOMAIN b.nodes
      PROVE  \E k \in 1 .. Len(ops) : ops[k] = NodeChange(a, b, u)
  <2>1. u \in Differing(a, b)
    BY <1>8 DEF Differing, Rewritten
  <2> QED BY <1>2, <1>3, <2>1
<1>9. \A j, k \in 1 .. Len(ops) :
        ops[j].op = "removeNode" /\ ops[k].op = "setNode" => ops[j].at # ops[k].at
  BY <1>7
<1>10. x \in Results(c, ops)
  BY DEF ops
<1>11. /\ \A u \in DOMAIN x.nodes :
            u \in DOMAIN c.nodes \/ (\E k \in 1 .. Len(ops) : ops[k].op = "setNode" /\ ops[k].at = u)
       /\ \A k \in 1 .. Len(ops) : ops[k].op = "removeNode" => ops[k].at \notin DOMAIN x.nodes
       /\ \A u \in DOMAIN x.nodes :
            /\ (\E k \in 1 .. Len(ops) : Says(ops[k], u)) => x.nodes[u].content = w[u]
            /\ (\A k \in 1 .. Len(ops) : ~Says(ops[k], u)) =>
                 u \in DOMAIN c.nodes /\ x.nodes[u].content = c.nodes[u].content
       /\ (\A k \in 1 .. Len(ops) : ops[k].op # "removeNode") =>
            /\ DOMAIN c.nodes \subseteq DOMAIN x.nodes
            /\ \A k \in 1 .. Len(ops) : ops[k].op = "setNode" => ops[k].at \in DOMAIN x.nodes
  <2>1. \A k \in 1 .. Len(ops) : \A u : Says(ops[k], u) => ops[k].value.content = w[u]
    BY <1>6
  <2> QED BY <1>1, <1>9, <1>10, <2>1, BatchWords
<1>12. DOMAIN x.nodes \subseteq DOMAIN c.nodes \cup (DOMAIN b.nodes \ DOMAIN a.nodes)
  BY <1>7, <1>11
<1>13. ASSUME NEW u \in DOMAIN a.nodes \ DOMAIN b.nodes PROVE u \notin DOMAIN x.nodes
  <2>1. PICK k \in 1 .. Len(ops) : ops[k] = NodeChange(a, b, u)
    BY <1>8
  <2> QED BY <1>5, <1>11, <2>1
<1>14. ASSUME NEW u \in DOMAIN x.nodes
       PROVE  /\ Rewritten(a, b, u) => x.nodes[u].content = b.nodes[u].content
              /\ ~Rewritten(a, b, u) => u \in DOMAIN c.nodes /\ x.nodes[u].content = c.nodes[u].content
  <2>1. CASE Rewritten(a, b, u)
    <3>1. u \in both /\ u \in DOMAIN b.nodes
      BY <2>1 DEF Rewritten
    <3>2. PICK k \in 1 .. Len(ops) : ops[k] = NodeChange(a, b, u)
      BY <1>8, <2>1, <3>1
    <3>3. Says(ops[k], u)
      BY <1>5, <2>1, <3>1, <3>2
    <3>4. w[u] = b.nodes[u].content
      BY <3>1 DEF w
    <3> QED BY <1>11, <2>1, <3>3, <3>4
  <2>2. CASE ~Rewritten(a, b, u)
    BY <1>6, <1>11, <2>2
  <2> QED BY <2>1, <2>2
<1>15. ASSUME DOMAIN a.nodes \subseteq DOMAIN b.nodes
       PROVE  DOMAIN c.nodes \cup (DOMAIN b.nodes \ DOMAIN a.nodes) \subseteq DOMAIN x.nodes
  <2>1. \A k \in 1 .. Len(ops) : ops[k].op # "removeNode"
    BY <1>7, <1>15
  <2>2. ASSUME NEW u \in DOMAIN b.nodes \ DOMAIN a.nodes PROVE u \in DOMAIN x.nodes
    <3>1. PICK k \in 1 .. Len(ops) : ops[k] = NodeChange(a, b, u)
      BY <1>8
    <3> QED BY <1>5, <1>11, <2>1, <3>1
  <2> QED BY <1>11, <2>1, <2>2
<1> QED BY <1>12, <1>13, <1>14, <1>15 DEF LiesOver

\* None of the conversions changes what a node holds.
LEMMA NormalizeWords ==
  ASSUME NEW d, NEW uids, Shaped(d, uids)
  PROVE  SharedWords(Normalize(d)) = Words(d.nodes)
<1> DEFINE n == d.nodes
           uid(i) == IF i = None THEN NoParent ELSE d.nodes[i].syncId
           local(u) == CHOOSE i \in DOMAIN d.nodes : d.nodes[i].syncId = u
           order(i) == LET p == d.nodes[i].parent
                       IN IF p = None THEN 0 ELSE Position(d.nodes[p].children, i) - 1
           m == [u \in IdentitiesOf(d.nodes) |->
                  LET x == d.nodes[local(u)]
                  IN [kind |-> x.kind, meeting |-> x.meeting, task |-> x.task, checked |-> x.checked,
                      folded |-> x.folded, content |-> x.content,
                      parent |-> uid(x.parent), order |-> order(local(u))]]
           c == Normalize(d)
<1>1. c.nodes = Table(m) /\ Table(m) = m
  BY TableIs DEF Normalize
<1>2. \A i, j \in DOMAIN n : n[i].syncId = n[j].syncId => i = j
  BY DEF Shaped, Distinct
<1>3. \A u \in IdentitiesOf(n) : local(u) \in DOMAIN n /\ n[local(u)].syncId = u
  BY DEF IdentitiesOf
<1>4. \A i \in DOMAIN n : n[i].syncId \in IdentitiesOf(n) /\ local(n[i].syncId) = i
  BY <1>2 DEF IdentitiesOf
<1>5. DOMAIN m = IdentitiesOf(n) /\ \A u \in IdentitiesOf(n) : m[u].content = n[local(u)].content
  <2> HIDE DEF uid, local, order
  <2> QED BY DEF m
<1> HIDE DEF m, local, c
<1>6. {<<u, m[u].content>> : u \in DOMAIN m} = {<<n[i].syncId, n[i].content>> : i \in DOMAIN n}
  <2> HIDE DEF n
  <2>1. ASSUME NEW u \in DOMAIN m PROVE \E i \in DOMAIN n : <<u, m[u].content>> = <<n[i].syncId, n[i].content>>
    BY <1>3, <1>5
  <2>2. ASSUME NEW i \in DOMAIN n PROVE \E u \in DOMAIN m : <<u, m[u].content>> = <<n[i].syncId, n[i].content>>
    BY <1>4, <1>5
  <2> QED BY <2>1, <2>2
<1> QED BY <1>1, <1>6 DEF SharedWords, Words, c

LEMMA ProjectWords ==
  ASSUME NEW c, NEW uids \in SUBSET Identity, LiveDoc(c, uids), ChildrenOf(c, NoParent) # {}
  PROVE  Words(Project(c).nodes) = SharedWords(c)
<1> DEFINE r == RootOf(c)
           rest == InOrder(DOMAIN c.nodes \ {r})
           keys == <<r>> \o rest
           number(u) == Position(keys, u)
           kids(i) == InSequence(c, ChildrenOf(c, keys[i]))
           up(i) == IF c.nodes[keys[i]].parent = NoParent THEN None ELSE number(c.nodes[keys[i]].parent)
           down(i) == [k \in DOMAIN kids(i) |-> number(kids(i)[k])]
           m == [i \in DOMAIN keys |->
                  [syncId |-> keys[i], parent |-> up(i), children |-> down(i),
                   kind |-> c.nodes[keys[i]].kind, meeting |-> c.nodes[keys[i]].meeting,
                   task |-> c.nodes[keys[i]].task, checked |-> c.nodes[keys[i]].checked,
                   folded |-> c.nodes[keys[i]].folded, content |-> c.nodes[keys[i]].content]]
<1>1. Project(c).nodes = Table(m) /\ Table(m) = m
  BY TableIs DEF Project
<1>2. DOMAIN c.nodes \subseteq Identity
  BY DEF LiveDoc
<1>3. r \in DOMAIN c.nodes
  BY DEF ChildrenOf, RootOf
<1>4. rest \in Seq(Identity) /\ ToSet(rest) = DOMAIN c.nodes \ {r}
  BY <1>2, InOrderOf
<1> HIDE DEF rest
<1>5. keys \in Seq(Identity) /\ ToSet(keys) = DOMAIN c.nodes
  <2>1. <<r>> \in Seq(Identity) /\ ToSet(<<r>>) = {r}
    BY <1>2, <1>3 DEF ToSet
  <2> HIDE DEF r
  <2>2. keys \in Seq(Identity) /\ ToSet(keys) = ToSet(<<r>>) \cup ToSet(rest)
    <3> DEFINE one == <<r>>
    <3> HIDE DEF one, rest
    <3> QED BY <1>4, <2>1, ConcatMembers DEF one
  <2> QED BY <1>3, <1>4, <2>1, <2>2
<1> HIDE DEF keys
<1>6. DOMAIN c.nodes = {keys[i] : i \in DOMAIN keys}
  BY <1>5 DEF ToSet
<1>7. DOMAIN m = DOMAIN keys
      /\ \A i \in DOMAIN keys : m[i].syncId = keys[i] /\ m[i].content = c.nodes[keys[i]].content
  <2> HIDE DEF up, down
  <2> QED OBVIOUS
<1> HIDE DEF m
<1>8. {<<m[i].syncId, m[i].content>> : i \in DOMAIN m} = {<<u, c.nodes[u].content>> : u \in DOMAIN c.nodes}
  BY <1>6, <1>7
<1> QED BY <1>1, <1>8 DEF Words, SharedWords

LEMMA AggregatedWords ==
  ASSUME NEW n, IsTree(n)
  PROVE  Words(Aggregated(n)) = Words(n)
<1>1. PICK dep : Tree(n, dep)
  BY DEF IsTree
<1> DEFINE m == Aggregated(n)
<1>2. DOMAIN m = DOMAIN n /\ \A i \in DOMAIN n : m[i].syncId = n[i].syncId /\ m[i].content = n[i].content
  BY <1>1, AggregatedIs DEF Alike
<1> HIDE DEF m
<1>3. Words(m) = Words(n)
  BY <1>2 DEF Words
<1> QED BY <1>3 DEF m

LEMMA RebuiltWords ==
  ASSUME NEW d, IsDocument(d), IsTree(d.nodes)
  PROVE  Words(Rebuild(d).nodes) = Words(d.nodes)
BY RebuildIs, AggregatedWords

LEMMA LoadedWords ==
  ASSUME NEW b, IsFile(b), Loadable(b)
  PROVE  Words(Loaded(b).nodes) = Words(b.nodes)
<1>1. Loaded(b).nodes = Aggregated(b.nodes) /\ IsTree(b.nodes)
  BY LoadedSound
<1> QED BY <1>1, AggregatedWords

\* What a document says of a map.
LEMMA WordsIn ==
  ASSUME NEW c
  PROVE  /\ {w[1] : w \in SharedWords(c)} = DOMAIN c.nodes
         /\ \A w \in SharedWords(c) : w[1] \in DOMAIN c.nodes /\ w[2] = c.nodes[w[1]].content
<1> DEFINE pair(u) == <<u, c.nodes[u].content>>
           W == {pair(u) : u \in DOMAIN c.nodes}
<1>1. \A u \in DOMAIN c.nodes : pair(u) \in W /\ pair(u)[1] = u /\ pair(u)[2] = c.nodes[u].content
  OBVIOUS
<1>2. \A w \in W : \E u \in DOMAIN c.nodes : w = pair(u)
  OBVIOUS
<1>3. SharedWords(c) = W
  BY DEF SharedWords
<1> HIDE DEF pair, W
<1>4. \A w \in W : w[1] \in DOMAIN c.nodes /\ w[2] = c.nodes[w[1]].content
  BY <1>1, <1>2
<1>5. {w[1] : w \in W} = DOMAIN c.nodes
  BY <1>1, <1>4
<1> QED BY <1>3, <1>4, <1>5

=============================================================================
