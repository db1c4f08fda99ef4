---------------------------- MODULE DesktopProofs ----------------------------
(***************************************************************************)
(* Proofs about Desktop for any number of windows, files, commands, quits, *)
(* crashes and faults.  The idea: the windows are in order whatever is     *)
(* done to their tabs; and what a window agrees to, its snapshot and its   *)
(* entry in the registry go together in every step.                        *)
(***************************************************************************)
EXTENDS Desktop, DataLemmas, TLAPS

-----------------------------------------------------------------------------
(***************************************************************************)
(* Sequences and what is in them.                                          *)
(***************************************************************************)
\* Sorted: a finite set of numbers is enumerated from its least element up.
Increasing(s, set, n) == s \in [1 .. n -> set] /\ \A j, k \in 1 .. n : j < k => s[j] < s[k]

LEMMA SortedExists ==
  ASSUME NEW S \in SUBSET Nat, IsFiniteSet(S)
  PROVE  \E s : Increasing(s, S, Cardinality(S))
<1> DEFINE Done == {n \in Nat : \A R \in SUBSET Nat :
                      IsFiniteSet(R) /\ Cardinality(R) = n => \E s : Increasing(s, R, n)}
<1>1. 0 \in Done
  <2> SUFFICES ASSUME NEW R \in SUBSET Nat PROVE \E s : Increasing(s, R, 0)
    OBVIOUS
  <2>1. Increasing([k \in 1 .. 0 |-> k], R, 0)
    BY DEF Increasing
  <2> QED BY <2>1
<1>2. ASSUME NEW n \in Done PROVE n + 1 \in Done
  <2>1. SUFFICES ASSUME NEW R \in SUBSET Nat, IsFiniteSet(R), Cardinality(R) = n + 1
                 PROVE  \E s : Increasing(s, R, n + 1)
    OBVIOUS
  <2>2. n \in Nat /\ \A Q \in SUBSET Nat :
          IsFiniteSet(Q) /\ Cardinality(Q) = n => \E s : Increasing(s, Q, n)
    OBVIOUS
  <2> HIDE DEF Done
  <2>3. R # {}
    BY <2>1, <2>2, FS_EmptySet
  <2> DEFINE m == Min(R)
  <2>4. m \in R /\ \A y \in R : m <= y
    BY <2>3, LeastExists
  <2> HIDE DEF m
  <2>5. IsFiniteSet(R \ {m}) /\ Cardinality(R \ {m}) = n
    <3>1. IsFiniteSet(R \ {m}) /\ Cardinality(R \ {m}) = Cardinality(R) - 1
      BY <2>1, <2>4, FS_RemoveElement
    <3> QED BY <2>1, <2>2, <3>1
  <2>6. PICK t : Increasing(t, R \ {m}, n)
    <3>1. R \ {m} \in SUBSET Nat
      OBVIOUS
    <3> QED BY <2>2, <2>5, <3>1
  <2>7. /\ \A k \in 1 .. n : t[k] \in R /\ t[k] \in Nat /\ m < t[k]
        /\ \A j, k \in 1 .. n : j < k => t[j] < t[k]
    <3>1. \A k \in 1 .. n : t[k] \in R \ {m}
      BY <2>6 DEF Increasing
    <3>2. \A y \in R \ {m} : y \in Nat /\ m < y
      BY <2>4
    <3> QED BY <2>6, <3>1, <3>2 DEF Increasing
  <2> DEFINE s == [k \in 1 .. n + 1 |-> IF k = 1 THEN m ELSE t[k - 1]]
  <2>8. \A k \in 1 .. n + 1 : k # 1 => k - 1 \in 1 .. n
    BY <2>2
  <2>9. s \in [1 .. n + 1 -> R]
    BY <2>4, <2>7, <2>8
  <2>10. ASSUME NEW j \in 1 .. n + 1, NEW k \in 1 .. n + 1, j < k PROVE s[j] < s[k]
    <3>1. k # 1 /\ k - 1 \in 1 .. n /\ s[k] = t[k - 1]
      BY <2>2, <2>8, <2>10
    <3>2. CASE j = 1
      BY <2>7, <3>1, <3>2
    <3>3. CASE j # 1
      <4>1. j - 1 \in 1 .. n /\ s[j] = t[j - 1] /\ j - 1 < k - 1
        BY <2>2, <2>8, <2>10, <3>3
      <4> QED BY <2>7, <3>1, <4>1
    <3> QED BY <3>2, <3>3
  <2> HIDE DEF s
  <2> QED BY <2>9, <2>10 DEF Increasing
<1> HIDE DEF Done
<1>3. Done = Nat
  <2>1. Done \in SUBSET Nat
    BY DEF Done
  <2> QED BY <1>1, <1>2, <2>1, InductiveSet
<1>4. Cardinality(S) \in Done
  BY <1>3, FS_CardinalityType
<1> QED BY <1>4 DEF Done

LEMMA SortedMembers ==
  ASSUME NEW S \in SUBSET Nat, IsFiniteSet(S)
  PROVE  /\ Sorted(S) \in Seq(S) /\ ToSet(Sorted(S)) = S /\ IsInjective(Sorted(S))
         /\ Len(Sorted(S)) = Cardinality(S)
<1> DEFINE n == Cardinality(S)
           s == Sorted(S)
<1>1. n \in Nat
  BY FS_CardinalityType
<1>2. s \in [1 .. n -> S] /\ \A j, k \in 1 .. n : j < k => s[j] < s[k]
  <2>1. \E t \in [1 .. n -> S] : \A j, k \in DOMAIN t : j < k => t[j] < t[k]
    <3>1. PICK t : Increasing(t, S, n)
      BY SortedExists
    <3> QED BY <3>1 DEF Increasing
  <2> QED BY <2>1 DEF Sorted
<1> HIDE DEF s, n
<1>3. s \in Seq(S) /\ DOMAIN s = 1 .. n /\ Len(s) = n
  BY <1>1, <1>2
<1>4. IsInjective(s)
  <2> SUFFICES ASSUME NEW j \in 1 .. n, NEW k \in 1 .. n, s[j] = s[k] PROVE j = k
    BY <1>3 DEF IsInjective
  <2>1. s[j] \in Nat /\ s[k] \in Nat
    BY <1>2
  <2>2. ~(j < k) /\ ~(k < j)
    BY <1>2, <2>1
  <2> QED BY <1>1, <2>2
<1>5. ToSet(s) = S
  <2>1. s \in Injection(1 .. n, S)
    BY <1>2, <1>4 DEF Injection
  <2>2. IsFiniteSet(1 .. n) /\ Cardinality(1 .. n) = n
    <3>1. 1 \in Int /\ n \in Int
      BY <1>1
    <3> QED BY <1>1, <3>1, FS_Interval
  <2>3. s \in Surjection(1 .. n, S)
    BY <2>1, <2>2, FS_Injection DEF n
  <2> QED BY <1>3, <2>3 DEF Surjection, ToSet
<1> QED BY <1>3, <1>4, <1>5 DEF s, n

LEMMA InsertMembers ==
  ASSUME NEW T, NEW s \in Seq(T), NEW i \in 1 .. Len(s) + 1, NEW e \in T
  PROVE  /\ InsertAt(s, i, e) \in Seq(T) /\ ToSet(InsertAt(s, i, e)) = ToSet(s) \cup {e}
         /\ IsInjective(s) /\ e \notin ToSet(s) => IsInjective(InsertAt(s, i, e))
<1> DEFINE a == SubSeq(s, 1, i - 1)
           b == SubSeq(s, i, Len(s))
<1>1. Len(s) \in Nat /\ DOMAIN s = 1 .. Len(s) /\ \A k \in 1 .. Len(s) : s[k] \in T
  BY LenProperties
<1>2. i \in Nat /\ i >= 1 /\ i <= Len(s) + 1
  BY <1>1
<1>3. /\ a \in Seq(T) /\ Len(a) = i - 1 /\ DOMAIN a = 1 .. i - 1
      /\ \A k \in 1 .. i - 1 : a[k] = s[k]
  <2>1. \A k \in 1 .. i - 1 : s[k] \in T
    BY <1>1, <1>2
  <2>2. 1 \in Int /\ i - 1 \in Int
    BY <1>2
  <2>3. /\ a \in Seq(T) /\ Len(a) = IF 1 <= i - 1 THEN i - 1 - 1 + 1 ELSE 0
        /\ \A k \in 1 .. i - 1 - 1 + 1 : a[k] = s[1 + k - 1]
    BY <2>1, <2>2, SubSeqProperties
  <2> HIDE DEF a
  <2>4. Len(a) = i - 1
    BY <1>2, <2>3
  <2>5. ASSUME NEW k \in 1 .. i - 1 PROVE a[k] = s[k]
    <3>1. 1 + k - 1 = k /\ k \in 1 .. i - 1 - 1 + 1
      BY <1>2
    <3> QED BY <2>3, <3>1
  <2> QED BY <2>3, <2>4, <2>5, LenProperties
<1>4. /\ b \in Seq(T) /\ Len(b) = Len(s) - i + 1 /\ DOMAIN b = 1 .. Len(s) - i + 1
      /\ \A k \in 1 .. Len(s) - i + 1 : b[k] = s[i + k - 1]
  <2>1. \A k \in i .. Len(s) : s[k] \in T
    BY <1>1, <1>2
  <2>2. i \in Int /\ Len(s) \in Int
    BY <1>1, <1>2
  <2>3. /\ b \in Seq(T) /\ Len(b) = IF i <= Len(s) THEN Len(s) - i + 1 ELSE 0
        /\ \A k \in 1 .. Len(s) - i + 1 : b[k] = s[i + k - 1]
    BY <2>1, <2>2, SubSeqProperties
  <2> HIDE DEF b
  <2>4. Len(b) = Len(s) - i + 1
    BY <1>1, <1>2, <2>3
  <2> QED BY <2>3, <2>4, LenProperties
<1> HIDE DEF a, b
<1>5. /\ ToSet(s) = {s[k] : k \in 1 .. Len(s)} /\ ToSet(a) = {a[k] : k \in 1 .. i - 1}
      /\ ToSet(b) = {b[k] : k \in 1 .. Len(s) - i + 1}
  BY <1>1, <1>3, <1>4 DEF ToSet
<1>6. \A k \in 1 .. i - 1 : k \in 1 .. Len(s)
  BY <1>1, <1>2
<1>7. \A k \in 1 .. Len(s) - i + 1 : i + k - 1 \in 1 .. Len(s) /\ ~(i + k - 1 \in 1 .. i - 1)
  BY <1>1, <1>2
<1>8. ToSet(a) \cup ToSet(b) = ToSet(s)
  <2>1. ToSet(a) \subseteq ToSet(s) /\ ToSet(b) \subseteq ToSet(s)
    BY <1>3, <1>4, <1>5, <1>6, <1>7
  <2>2. ASSUME NEW k \in 1 .. Len(s) PROVE s[k] \in ToSet(a) \cup ToSet(b)
    <3>1. CASE k < i
      <4>1. k \in 1 .. i - 1
        BY <1>1, <1>2, <3>1
      <4> QED BY <1>3, <1>5, <4>1
    <3>2. CASE ~(k < i)
      <4>1. k - i + 1 \in 1 .. Len(s) - i + 1 /\ i + (k - i + 1) - 1 = k
        BY <1>1, <1>2, <3>2
      <4> QED BY <1>4, <1>5, <4>1
    <3> QED BY <3>1, <3>2
  <2> QED BY <1>5, <2>1, <2>2
<1>9. IsInjective(s) => IsInjective(a) /\ IsInjective(b) /\ ToSet(a) \cap ToSet(b) = {}
  <2>1. SUFFICES ASSUME IsInjective(s)
                 PROVE  IsInjective(a) /\ IsInjective(b) /\ ToSet(a) \cap ToSet(b) = {}
    OBVIOUS
  <2>2. \A j, k \in 1 .. Len(s) : s[j] = s[k] => j = k
    BY <1>1, <2>1 DEF IsInjective
  <2>3. IsInjective(a)
    BY <1>3, <1>6, <2>2 DEF IsInjective
  <2>4. IsInjective(b)
    <3> SUFFICES ASSUME NEW j \in 1 .. Len(s) - i + 1, NEW k \in 1 .. Len(s) - i + 1, b[j] = b[k]
                 PROVE  j = k
      BY <1>4 DEF IsInjective
    <3>1. i + j - 1 = i + k - 1
      BY <1>4, <1>7, <2>2
    <3> QED BY <1>1, <1>2, <3>1
  <2>5. ASSUME NEW j \in 1 .. i - 1, NEW k \in 1 .. Len(s) - i + 1 PROVE a[j] # b[k]
    <3>1. i + k - 1 # j
      BY <1>7
    <3> QED BY <1>3, <1>4, <1>6, <1>7, <2>2, <3>1, SMTT(20)
  <2> QED BY <1>5, <2>3, <2>4, <2>5
<1> DEFINE one == <<e>>
<1>10. one \in Seq(T) /\ ToSet(one) = {e} /\ IsInjective(one)
  BY DEF ToSet, IsInjective
<1> HIDE DEF one
<1> DEFINE c == a \o one
<1>11. /\ c \in Seq(T) /\ ToSet(c) = ToSet(a) \cup {e}
       /\ IsInjective(a) /\ e \notin ToSet(a) => IsInjective(c)
  BY <1>3, <1>10, ConcatMembers
<1> HIDE DEF c
<1>12. /\ c \o b \in Seq(T) /\ ToSet(c \o b) = ToSet(c) \cup ToSet(b)
       /\ IsInjective(c) /\ IsInjective(b) /\ ToSet(c) \cap ToSet(b) = {} => IsInjective(c \o b)
  BY <1>4, <1>11, ConcatMembers DEF c
<1>13. InsertAt(s, i, e) = c \o b
  BY DEF InsertAt, a, b, c, one
<1> QED BY <1>8, <1>9, <1>11, <1>12, <1>13

-----------------------------------------------------------------------------
(***************************************************************************)
(* The windows stay in order, and what a host shows is its own.            *)
(***************************************************************************)
Windows(d) == ToSet(d.documents)
\* From d to e no host goes blank: it shows its own if it did, or is new.
Keeps(d, e) == \A g \in Hosts(e) : (g \in Hosts(d) => Shows(d, g)) => Shows(e, g)

LEMMA HostIsNumber == Host = Window /\ Window \subseteq Nat \ {0} /\ IsFiniteSet(Window)
<1>1. Cardinality(Window) \in Nat
  BY DesktopAssumption, FS_CardinalityType
<1> QED BY <1>1, DesktopAssumption

LEMMA DeskParts ==
  ASSUME NEW d
  PROVE  IsDesk(d) <=>
           /\ d = [documents |-> d.documents, host |-> d.host, shown |-> d.shown,
                   front |-> d.front, welcome |-> d.welcome]
           /\ d.documents \in Seq(Window) /\ IsInjective(d.documents)
           /\ d.host \in [Windows(d) -> Host] /\ d.shown \in [Host -> Windows(d) \cup {None}]
           /\ \A h \in Host \ Hosts(d) : d.shown[h] = None
           /\ d.front \in Hosts(d) \cup {None} /\ d.welcome \in Hosts(d) \cup {None}
           /\ d.welcome # None => \E w \in Windows(d) : Windows(d) = {w}
  BY DEF IsDesk, Hosts, Windows

LEMMA DeskMembers ==
  ASSUME NEW d, IsDesk(d)
  PROVE  /\ Windows(d) \subseteq Window /\ None \notin Windows(d)
         /\ Hosts(d) = {d.host[w] : w \in Windows(d)} /\ Hosts(d) \subseteq Host /\ None \notin Hosts(d)
<1>1. Windows(d) \subseteq Window
  BY DeskParts, MembersOf DEF Windows
<1>2. Hosts(d) = {d.host[w] : w \in Windows(d)}
  BY DEF Hosts, Windows
<1>3. \A w \in Windows(d) : d.host[w] \in Host
  BY DeskParts
<1> QED BY <1>1, <1>2, <1>3, HostIsNumber DEF None

LEMMA TabsOfAny ==
  ASSUME NEW d, NEW h, d.documents \in Seq(Window), IsInjective(d.documents),
         DOMAIN d.host = Windows(d)
  PROVE  /\ TabsOf(d, h) \in Seq(Window) /\ IsInjective(TabsOf(d, h))
         /\ ToSet(TabsOf(d, h)) = {w \in Windows(d) : d.host[w] = h}
         /\ h \in Hosts(d) =>
              /\ TabsOf(d, h) # <<>>
              /\ Head(TabsOf(d, h)) \in Windows(d) /\ d.host[Head(TabsOf(d, h))] = h
<1> DEFINE set == {w \in DOMAIN d.host : d.host[w] = h}
           t   == TabsOf(d, h)
<1>1. d.documents \in Seq(Window) /\ IsInjective(d.documents) /\ DOMAIN d.host = Windows(d)
  OBVIOUS
<1>2. set = {w \in Windows(d) : d.host[w] = h} /\ t = Only(d.documents, set)
  BY <1>1 DEF TabsOf
<1> HIDE DEF set, t
<1>3. t \in Seq(Window) /\ ToSet(t) = ToSet(d.documents) \cap set /\ IsInjective(t)
  BY <1>1, <1>2, OnlyMembers
<1>4. ToSet(t) = {w \in Windows(d) : d.host[w] = h}
  BY <1>2, <1>3 DEF Windows
<1>5. ASSUME h \in Hosts(d)
      PROVE  t # <<>> /\ Head(t) \in Windows(d) /\ d.host[Head(t)] = h
  <2>1. ToSet(t) # {}
    BY <1>4, <1>5 DEF Hosts, Windows
  <2>2. t # <<>> /\ Head(t) \in ToSet(t)
    BY <1>3, <2>1, MembersOf
  <2> QED BY <1>4, <2>2
<1> QED BY <1>3, <1>4, <1>5 DEF t

LEMMA TabsMembers ==
  ASSUME NEW d, IsDesk(d), NEW h
  PROVE  /\ TabsOf(d, h) \in Seq(Window) /\ IsInjective(TabsOf(d, h))
         /\ ToSet(TabsOf(d, h)) = {w \in Windows(d) : d.host[w] = h}
         /\ h \in Hosts(d) =>
              /\ TabsOf(d, h) # <<>>
              /\ Head(TabsOf(d, h)) \in Windows(d) /\ d.host[Head(TabsOf(d, h))] = h
<1>1. d.documents \in Seq(Window) /\ IsInjective(d.documents) /\ DOMAIN d.host = Windows(d)
  BY DeskParts
<1> QED BY <1>1, TabsOfAny

LEMMA FirstsMembers ==
  ASSUME NEW d, IsDesk(d)
  PROVE  /\ Firsts(d) \in Seq(Window) /\ IsInjective(Firsts(d)) /\ ToSet(Firsts(d)) \subseteq Windows(d)
         /\ ToSet(Firsts(d)) = {Head(TabsOf(d, h)) : h \in Hosts(d)}
         /\ \A w \in ToSet(Firsts(d)) : Head(TabsOf(d, d.host[w])) = w
<1> DEFINE heads == {Head(TabsOf(d, h)) : h \in Hosts(d)}
<1>1. d.documents \in Seq(Window) /\ IsInjective(d.documents)
  BY DeskParts
<1>2. \A h \in Hosts(d) : Head(TabsOf(d, h)) \in Windows(d) /\ d.host[Head(TabsOf(d, h))] = h
  BY TabsMembers
<1>3. heads \subseteq Windows(d) /\ \A w \in heads : Head(TabsOf(d, d.host[w])) = w
  BY <1>2
<1>4. Firsts(d) = Only(d.documents, heads)
  BY DEF Firsts
<1> HIDE DEF heads
<1>5. Firsts(d) \in Seq(Window) /\ ToSet(Firsts(d)) = ToSet(d.documents) \cap heads /\ IsInjective(Firsts(d))
  BY <1>1, <1>4, OnlyMembers
<1>6. ToSet(Firsts(d)) = heads
  BY <1>3, <1>5 DEF Windows
<1> QED BY <1>3, <1>5, <1>6 DEF heads

\* To show another tab.
LEMMA ActivatingDesk ==
  ASSUME NEW d, IsDesk(d), NEW w \in Windows(d), NEW blocked
  PROVE  LET e == Activating(d, w, blocked)
         IN /\ IsDesk(e) /\ e.documents = d.documents /\ e.host = d.host /\ e.welcome = d.welcome
            /\ \A h \in Host : e.shown[h] = d.shown[h] \/ (h = d.host[w] /\ e.shown[h] = w)
            /\ quitting \/ d.shown[d.host[w]] \notin blocked \ {w} => e.shown[d.host[w]] = w
            /\ e.front \in {d.front, d.host[w]}
<1> DEFINE e == Activating(d, w, blocked)
           h == d.host[w]
           o == [documents |-> d.documents, host |-> d.host, shown |-> [d.shown EXCEPT ![h] = w],
                 front |-> h, welcome |-> d.welcome]
<1>1. /\ d = [documents |-> d.documents, host |-> d.host, shown |-> d.shown,
              front |-> d.front, welcome |-> d.welcome]
      /\ h \in Host /\ d.shown \in [Host -> Windows(d) \cup {None}] /\ h \in Hosts(d)
  BY DeskParts DEF Hosts, Windows
<1>2. e = IF ~quitting /\ d.shown[h] \in blocked \ {w} THEN d ELSE o
  <2>1. [d EXCEPT !.shown[h] = w, !.front = h] = o
    <3> DEFINE u == [d EXCEPT !.shown[h] = w, !.front = h]
    <3>1. /\ DOMAIN u = {"documents", "host", "shown", "front", "welcome"}
          /\ u = [x \in DOMAIN u |-> u[x]]
      BY <1>1
    <3>2. /\ u.documents = d.documents /\ u.host = d.host /\ u.front = h /\ u.welcome = d.welcome
          /\ u.shown = [d.shown EXCEPT ![h] = w]
      <4> HIDE DEF h
      <4> QED BY <1>1
    <3> HIDE DEF u
    <3>3. u = o
      BY <3>1, <3>2
    <3> QED BY <3>3 DEF u
  <2> HIDE DEF o
  <2> QED BY <2>1 DEF Activating
<1> HIDE DEF h
<1>3. o.shown \in [Host -> Windows(d) \cup {None}] /\ o.shown[h] = w
      /\ \A g \in Host \ {h} : o.shown[g] = d.shown[g]
  BY <1>1
<1>4. IsDesk(o)
  <2>1. /\ o.documents = d.documents /\ o.host = d.host /\ o.front = h /\ o.welcome = d.welcome
        /\ o = [documents |-> o.documents, host |-> o.host, shown |-> o.shown,
                front |-> o.front, welcome |-> o.welcome]
    OBVIOUS
  <2> HIDE DEF o
  <2>2. Windows(o) = Windows(d) /\ Hosts(o) = Hosts(d)
    BY <2>1 DEF Windows, Hosts
  <2>3. \A g \in Host \ Hosts(o) : o.shown[g] = None
    BY <1>1, <1>3, <2>2, DeskParts
  <2> QED BY <1>1, <1>3, <2>1, <2>2, <2>3, DeskParts
<1>5. o.documents = d.documents /\ o.host = d.host /\ o.welcome = d.welcome /\ o.front = h
  OBVIOUS
<1> HIDE DEF o
<1> SUFFICES /\ IsDesk(e) /\ e.documents = d.documents /\ e.host = d.host /\ e.welcome = d.welcome
             /\ \A g \in Host : e.shown[g] = d.shown[g] \/ (g = h /\ e.shown[g] = w)
             /\ quitting \/ d.shown[h] \notin blocked \ {w} => e.shown[h] = w
             /\ e.front \in {d.front, h}
  BY DEF h
<1> HIDE DEF e
<1> QED BY <1>2, <1>3, <1>4, <1>5

LEMMA ActivatingOwn ==
  ASSUME NEW d, IsDesk(d), NEW w \in Windows(d), NEW blocked
  PROVE  Keeps(d, Activating(d, w, blocked))
<1> DEFINE e == Activating(d, w, blocked)
<1>1. /\ e.documents = d.documents /\ e.host = d.host
      /\ \A h \in Host : e.shown[h] = d.shown[h] \/ (h = d.host[w] /\ e.shown[h] = w)
  BY ActivatingDesk
<1>2. Hosts(d) \subseteq Host
  BY DeskMembers
<1> HIDE DEF e
<1>3. Windows(e) = Windows(d) /\ Hosts(e) = Hosts(d)
  BY <1>1 DEF Windows, Hosts
<1>4. Keeps(d, e)
  BY <1>1, <1>2, <1>3 DEF Keeps, Shows, Windows
<1> QED BY <1>4 DEF e

\* A host is free while there is a name for a window, or a host has two tabs.
LEMMA FreeHostExists ==
  ASSUME NEW d, IsDesk(d), NEW w \in Window,
         Hosts(d) = {d.host[v] : v \in Windows(d) \ {w}}
  PROVE  FreeHost(d) \in Host \ Hosts(d)
<1> DEFINE S == Windows(d) \ {w}
           f == [v \in S |-> d.host[v]]
<1>1. /\ Host = Window /\ Window \subseteq Nat \ {0} /\ IsFiniteSet(Window)
      /\ S \subseteq Window /\ Hosts(d) \subseteq Host
      /\ Hosts(d) = {d.host[v] : v \in S} /\ S # Window
  BY HostIsNumber, DeskMembers
<1>2. IsFiniteSet(S) /\ Cardinality(S) < Cardinality(Window)
  <2> HIDE DEF S
  <2>1. IsFiniteSet(S) /\ Cardinality(S) <= Cardinality(Window)
        /\ (Cardinality(Window) = Cardinality(S) => Window = S)
    BY <1>1, FS_Subset
  <2>2. Cardinality(S) \in Nat /\ Cardinality(Window) \in Nat
    BY <1>1, <2>1, FS_CardinalityType
  <2> QED BY <1>1, <2>1, <2>2
<1>3. Cardinality(Hosts(d)) <= Cardinality(S) /\ IsFiniteSet(Hosts(d))
  <2> HIDE DEF S
  <2>1. f \in Surjection(S, Hosts(d))
    BY <1>1 DEF Surjection
  <2> QED BY <1>2, <2>1, FS_Surjection
<1> HIDE DEF S
<1>4. Hosts(d) # Host
  <2>1. /\ Cardinality(Hosts(d)) \in Nat /\ Cardinality(S) \in Nat
        /\ Cardinality(Host) \in Nat
    BY <1>1, <1>2, <1>3, FS_CardinalityType
  <2>2. Cardinality(Hosts(d)) < Cardinality(Host)
    BY <1>1, <1>2, <1>3, <2>1
  <2> QED BY <2>1, <2>2
<1>5. PICK free : free \in Host \ Hosts(d)
  BY <1>1, <1>4
<1> DEFINE m == Min(Host \ Hosts(d))
<1>6. m \in Host \ Hosts(d) /\ \A g \in Host \ Hosts(d) : m <= g
  <2>1. Host \ Hosts(d) \in SUBSET Nat
    BY <1>1
  <2> QED BY <1>5, <2>1, LeastExists
<1> HIDE DEF m
<1> QED BY <1>6 DEF FreeHost

\* A tab moves to a host that is free.
LEMMA RehostedDesk ==
  ASSUME NEW d, IsDesk(d), NEW w \in Windows(d), NEW h \in Host \ Hosts(d), d.welcome = None
  PROVE  LET e == Rehosted(d, w, h)
         IN /\ IsDesk(e) /\ e.documents = d.documents /\ e.host = [d.host EXCEPT ![w] = h]
            /\ e.welcome = None /\ e.shown[h] = None
            /\ \A g \in Hosts(e) \ {h} :
                 /\ g \in Hosts(d)
                 /\ Shows(d, g) /\ (g = d.host[w] => quitting \/ w \notin AllBlocked) => Shows(e, g)
<1> DEFINE e     == Rehosted(d, w, h)
           old   == d.host[w]
           there == [d EXCEPT !.host[w] = h]
           peers == TabsOf(there, old)
<1>1. /\ d = [documents |-> d.documents, host |-> d.host, shown |-> d.shown,
              front |-> d.front, welcome |-> d.welcome]
      /\ d.documents \in Seq(Window) /\ IsInjective(d.documents)
      /\ d.host \in [Windows(d) -> Host] /\ d.shown \in [Host -> Windows(d) \cup {None}]
      /\ \A g \in Host \ Hosts(d) : d.shown[g] = None
      /\ d.front \in Hosts(d) \cup {None}
      /\ Hosts(d) = {d.host[v] : v \in Windows(d)} /\ old \in Hosts(d) /\ Hosts(d) \subseteq Host
      /\ None \notin Windows(d) /\ None \notin Hosts(d)
  BY DeskParts, DeskMembers
<1>2. /\ DOMAIN there = {"documents", "host", "shown", "front", "welcome"}
      /\ there = [x \in DOMAIN there |-> there[x]]
  BY <1>1
<1>3. /\ there.documents = d.documents /\ there.host = [d.host EXCEPT ![w] = h]
      /\ there.shown = d.shown /\ there.front = d.front /\ there.welcome = None
  BY <1>1
<1>4. e = IF peers = <<>> THEN Vacated(there, old)
          ELSE IF d.shown[old] = w THEN Activated(there, Head(peers))
          ELSE there
  BY DEF Rehosted
<1> HIDE DEF there, old
<1>5. /\ there = [documents |-> there.documents, host |-> there.host, shown |-> there.shown,
                  front |-> there.front, welcome |-> there.welcome]
      /\ Windows(there) = Windows(d)
      /\ there.host \in [Windows(d) -> Host] /\ there.host[w] = h
      /\ \A v \in Windows(d) \ {w} : there.host[v] = d.host[v]
  BY <1>1, <1>2, <1>3 DEF Windows
<1>6. old # h /\ old = d.host[w]
  BY <1>1 DEF old
<1>7. Hosts(there) = {there.host[v] : v \in Windows(d)} /\ h \in Hosts(there)
      /\ Hosts(d) \ {old} \subseteq Hosts(there) /\ Hosts(there) \subseteq Hosts(d) \cup {h}
  BY <1>1, <1>3, <1>5, <1>6 DEF Hosts, Windows
<1>8. ToSet(peers) = {v \in Windows(d) : there.host[v] = old} /\ peers \in Seq(Window)
  <2>1. there.documents \in Seq(Window) /\ IsInjective(there.documents)
    BY <1>1, <1>3
  <2>2. DOMAIN there.host = Windows(there)
    BY <1>5
  <2> QED BY <1>5, <2>1, <2>2, TabsOfAny
<1> HIDE DEF peers, e
<1> SUFFICES /\ IsDesk(e) /\ e.documents = d.documents /\ e.host = [d.host EXCEPT ![w] = h]
             /\ e.welcome = None /\ e.shown[h] = None
             /\ \A g \in Hosts(e) \ {h} :
                  /\ g \in Hosts(d)
                  /\ Shows(d, g) /\ (g = old => quitting \/ w \notin AllBlocked) => Shows(e, g)
  BY DEF e, old
<1>9. CASE peers = <<>>
  <2> DEFINE u == Vacated(there, old)
  <2>1. Hosts(there) = (Hosts(d) \ {old}) \cup {h}
    <3>1. \A v \in Windows(d) : there.host[v] # old
      BY <1>8, <1>9, MembersOf
    <3> QED BY <1>7, <3>1
  <2>2. e = u
    BY <1>4, <1>9
  <2>3. /\ DOMAIN u = {"documents", "host", "shown", "front", "welcome"}
        /\ u = [x \in DOMAIN u |-> u[x]]
    BY <1>5 DEF Vacated
  <2>4. /\ u.documents = d.documents /\ u.host = there.host
        /\ u.shown = [d.shown EXCEPT ![old] = None]
        /\ u.front = (IF d.front = old THEN None ELSE d.front) /\ u.welcome = None
    BY <1>3, <1>5 DEF Vacated
  <2> HIDE DEF u
  <2>5. Windows(u) = Windows(d) /\ Hosts(u) = Hosts(there)
    BY <1>3, <2>4 DEF Windows, Hosts
  <2>6. /\ u.shown \in [Host -> Windows(d) \cup {None}] /\ u.shown[old] = None
        /\ \A g \in Host \ {old} : u.shown[g] = d.shown[g]
    BY <1>1, <2>4
  <2>7. IsDesk(u)
    <3>1. u = [documents |-> u.documents, host |-> u.host, shown |-> u.shown,
               front |-> u.front, welcome |-> u.welcome]
      BY <2>3
    <3>2. \A g \in Host \ Hosts(u) : u.shown[g] = None
      BY <1>1, <2>1, <2>5, <2>6
    <3>3. u.front \in Hosts(u) \cup {None}
      BY <1>1, <2>1, <2>4, <2>5
    <3> QED BY <1>1, <1>5, <2>4, <2>5, <2>6, <3>1, <3>2, <3>3, DeskParts
  <2>8. u.shown[h] = None
    BY <1>1, <1>6, <2>6
  <2>9. ASSUME NEW g \in Hosts(u) \ {h}
        PROVE  g \in Hosts(d) /\ (Shows(d, g) => Shows(u, g))
    <3>1. g \in Hosts(d) /\ g # old /\ g \in Host
      BY <1>1, <2>1, <2>5, <2>9
    <3>2. ASSUME Shows(d, g) PROVE Shows(u, g)
      <4>1. u.shown[g] = d.shown[g] /\ d.shown[g] \in Windows(d) /\ d.host[d.shown[g]] = g
        BY <2>6, <3>1, <3>2 DEF Shows, Windows
      <4>2. d.shown[g] # w
        BY <1>6, <3>1, <4>1
      <4> QED BY <1>5, <2>4, <2>5, <4>1, <4>2 DEF Shows, Windows
    <3> QED BY <3>1, <3>2
  <2> QED BY <1>3, <2>2, <2>4, <2>7, <2>8, <2>9
<1>10. CASE peers # <<>>
  <2> DEFINE p == Head(peers)
  <2>1. p \in Windows(d) /\ there.host[p] = old
    BY <1>8, <1>10, MembersOf
  <2> HIDE DEF p
  <2>2. Hosts(there) = Hosts(d) \cup {h} /\ p # w
    BY <1>5, <1>6, <1>7, <2>1
  <2>3. IsDesk(there)
    <3>1. /\ there.documents \in Seq(Window) /\ IsInjective(there.documents)
          /\ there.shown \in [Host -> Windows(there) \cup {None}]
          /\ \A g \in Host \ Hosts(there) : there.shown[g] = None
          /\ there.front \in Hosts(there) \cup {None} /\ there.welcome = None
      BY <1>1, <1>3, <1>5, <2>2
    <3> QED BY <1>5, <3>1, DeskParts
  <2>4. there.shown[h] = None
    BY <1>1, <1>3
  <2>5. ASSUME NEW g \in Hosts(d), Shows(d, g), d.shown[g] # w
        PROVE  there.shown[g] \in Windows(d) /\ there.host[there.shown[g]] = g
    <3>1. d.shown[g] \in Windows(d) /\ d.host[d.shown[g]] = g
      BY <2>5 DEF Shows, Windows
    <3> QED BY <1>3, <1>5, <2>5, <3>1
  <2>6. CASE d.shown[old] # w
    <3>1. e = there
      BY <1>4, <1>10, <2>6
    <3>2. ASSUME NEW g \in Hosts(d), Shows(d, g) PROVE Shows(there, g)
      <4>1. d.host[d.shown[g]] = g
        BY <3>2 DEF Shows
      <4>2. d.shown[g] # w
        BY <1>6, <2>6, <4>1
      <4> QED BY <1>5, <2>5, <3>2, <4>2 DEF Shows, Windows
    <3> QED BY <1>3, <1>5, <2>2, <2>3, <2>4, <3>1, <3>2
  <2>7. CASE d.shown[old] = w
    <3> DEFINE a == Activating(there, p, AllBlocked)
    <3>1. e = a
      BY <1>4, <1>10, <2>7 DEF Activated, p
    <3>2. /\ IsDesk(a) /\ a.documents = there.documents /\ a.host = there.host
          /\ a.welcome = there.welcome
          /\ \A g \in Host : a.shown[g] = there.shown[g] \/ (g = old /\ a.shown[g] = p)
          /\ quitting \/ there.shown[old] \notin AllBlocked \ {p} => a.shown[old] = p
      BY <1>5, <2>1, <2>3, ActivatingDesk
    <3> HIDE DEF a
    <3>3. Windows(a) = Windows(d) /\ Hosts(a) = Hosts(d) \cup {h}
      <4>1. Windows(a) = Windows(there) /\ Hosts(a) = Hosts(there)
        BY <3>2 DEF Windows, Hosts
      <4> QED BY <1>5, <2>2, <4>1
    <3>4. a.shown[h] = None
      BY <1>1, <1>6, <2>4, <3>2
    <3>5. ASSUME NEW g \in Hosts(a) \ {h}, Shows(d, g), g = old => quitting \/ w \notin AllBlocked
          PROVE  a.shown[g] \in Windows(a) /\ a.host[a.shown[g]] = g
      <4>1. CASE g = old
        <5>1. a.shown[old] = p
          BY <1>3, <2>7, <3>2, <3>5, <4>1
        <5> QED BY <2>1, <3>2, <3>3, <4>1, <5>1
      <4>2. CASE g # old
        <5>1. g \in Hosts(d) /\ g \in Host /\ a.shown[g] = there.shown[g]
          BY <1>1, <3>2, <3>3, <3>5, <4>2
        <5>2. d.shown[g] # w
          BY <1>6, <3>5, <4>2, <5>1 DEF Shows
        <5> QED BY <2>5, <3>2, <3>3, <3>5, <5>1, <5>2
      <4> QED BY <4>1, <4>2
    <3>6. \A g \in Hosts(a) \ {h} :
            /\ g \in Hosts(d)
            /\ Shows(d, g) /\ (g = old => quitting \/ w \notin AllBlocked) => Shows(a, g)
      BY <3>3, <3>5 DEF Shows, Windows
    <3> QED BY <1>3, <3>1, <3>2, <3>3, <3>4, <3>6
  <2> QED BY <2>6, <2>7
<1> QED BY <1>9, <1>10

\* All tabs come together in one host.
LEMMA TogetherDesk ==
  ASSUME IsDesk(desk), NEW h \in Hosts(desk), desk.welcome \in {None, h}
  PROVE  LET e == Together(h)
         IN /\ IsDesk(e) /\ Windows(e) = Documents /\ e.welcome = desk.welcome
            /\ \A w \in Documents : e.host[w] = h
            /\ Keeps(desk, e)
<1> DEFINE e == Together(h)
           others == Only(Firsts(desk), {w \in Documents : desk.host[w] # h})
           blocks == [k \in DOMAIN others |-> TabsOf(desk, desk.host[others[k]])]
           order == TabsOf(desk, h) \o FlattenSeq(blocks)
           host == [w \in Documents |-> h]
           shown == [g \in Host |-> IF g = h THEN desk.shown[g] ELSE None]
<1>1. /\ desk = [documents |-> desk.documents, host |-> desk.host, shown |-> desk.shown,
                 front |-> desk.front, welcome |-> desk.welcome]
      /\ desk.shown \in [Host -> Documents \cup {None}]
      /\ desk.host \in [Documents -> Host]
      /\ Hosts(desk) = {desk.host[w] : w \in Documents} /\ Hosts(desk) \subseteq Host
      /\ Windows(desk) = Documents
      /\ desk.welcome # None => \E w \in Documents : Documents = {w}
  BY DeskParts, DeskMembers DEF Windows, Documents
<1>2. /\ Firsts(desk) \in Seq(Window) /\ IsInjective(Firsts(desk))
      /\ ToSet(Firsts(desk)) = {Head(TabsOf(desk, g)) : g \in Hosts(desk)}
      /\ \A w \in ToSet(Firsts(desk)) : Head(TabsOf(desk, desk.host[w])) = w
  BY FirstsMembers
<1>3. /\ others \in Seq(Window) /\ IsInjective(others)
      /\ ToSet(others) = ToSet(Firsts(desk)) \cap {w \in Documents : desk.host[w] # h}
  BY <1>2, OnlyMembers
<1> HIDE DEF others
<1>4. Len(others) \in Nat /\ DOMAIN others = 1 .. Len(others)
      /\ ToSet(others) = {others[k] : k \in 1 .. Len(others)}
  BY <1>3, LenProperties, MembersOf
<1>5. ASSUME NEW k \in 1 .. Len(others)
      PROVE  /\ blocks[k] \in Seq(Window) /\ IsInjective(blocks[k])
             /\ ToSet(blocks[k]) = {w \in Documents : desk.host[w] = desk.host[others[k]]}
             /\ others[k] \in Documents /\ desk.host[others[k]] # h
             /\ Head(TabsOf(desk, desk.host[others[k]])) = others[k]
  <2>1. blocks[k] = TabsOf(desk, desk.host[others[k]])
    BY <1>4
  <2>2. others[k] \in ToSet(others)
    BY <1>4
  <2>3. /\ others[k] \in ToSet(Firsts(desk)) /\ others[k] \in Documents
        /\ desk.host[others[k]] # h
    BY <1>3, <2>2
  <2>4. Head(TabsOf(desk, desk.host[others[k]])) = others[k]
    BY <1>2, <2>3
  <2> DEFINE b == TabsOf(desk, desk.host[others[k]])
  <2>5. /\ b \in Seq(Window) /\ IsInjective(b)
        /\ ToSet(b) = {w \in Documents : desk.host[w] = desk.host[others[k]]}
    BY <1>1, TabsMembers
  <2> HIDE DEF blocks, b
  <2>6. blocks[k] = b
    BY <2>1 DEF b
  <2> QED BY <2>3, <2>4, <2>5, <2>6
<1>6. blocks \in Seq(Seq(Window)) /\ Len(blocks) = Len(others) /\ DOMAIN blocks = 1 .. Len(others)
  <2>1. blocks \in [1 .. Len(others) -> Seq(Window)]
    BY <1>4, <1>5
  <2> HIDE DEF blocks
  <2> QED BY <1>4, <2>1, LenProperties
<1>7. Apart(blocks)
  <2> SUFFICES ASSUME NEW j \in 1 .. Len(others), NEW k \in 1 .. Len(others), j # k
               PROVE  ToSet(blocks[j]) \cap ToSet(blocks[k]) = {}
    BY <1>5, <1>6 DEF Apart
  <2>1. others[j] # others[k]
    BY <1>3, <1>4 DEF IsInjective
  <2>2. desk.host[others[j]] # desk.host[others[k]]
    BY <1>5, <2>1
  <2> HIDE DEF blocks
  <2> QED BY <1>5, <2>2
<1> HIDE DEF blocks
<1>8. /\ FlattenSeq(blocks) \in Seq(Window) /\ IsInjective(FlattenSeq(blocks))
      /\ ToSet(FlattenSeq(blocks)) = {w \in Documents : desk.host[w] # h}
  <2>1. /\ FlattenSeq(blocks) \in Seq(Window) /\ IsInjective(FlattenSeq(blocks))
        /\ ToSet(FlattenSeq(blocks)) = UNION {ToSet(blocks[k]) : k \in 1 .. Len(others)}
    BY <1>6, <1>7, FlatMembers
  <2>2. ASSUME NEW w \in Documents, desk.host[w] # h
        PROVE  \E k \in 1 .. Len(others) : w \in ToSet(blocks[k])
    <3> DEFINE first == Head(TabsOf(desk, desk.host[w]))
    <3>1. first \in Documents /\ desk.host[first] = desk.host[w] /\ first \in ToSet(Firsts(desk))
      BY <1>1, <1>2, TabsMembers
    <3> HIDE DEF first
    <3>2. PICK k \in 1 .. Len(others) : others[k] = first
      BY <1>3, <1>4, <2>2, <3>1
    <3> QED BY <1>5, <3>1, <3>2
  <2>3. \A k \in 1 .. Len(others) : ToSet(blocks[k]) \subseteq {w \in Documents : desk.host[w] # h}
    BY <1>5
  <2> QED BY <2>1, <2>2, <2>3
<1>9. /\ order \in Seq(Window) /\ IsInjective(order) /\ ToSet(order) = Documents
  <2>1. /\ TabsOf(desk, h) \in Seq(Window) /\ IsInjective(TabsOf(desk, h))
        /\ ToSet(TabsOf(desk, h)) = {w \in Documents : desk.host[w] = h}
    BY <1>1, TabsMembers
  <2>2. ToSet(TabsOf(desk, h)) \cap ToSet(FlattenSeq(blocks)) = {}
    BY <1>8, <2>1
  <2>3. /\ order \in Seq(Window) /\ IsInjective(order)
        /\ ToSet(order) = ToSet(TabsOf(desk, h)) \cup ToSet(FlattenSeq(blocks))
    BY <1>8, <2>1, <2>2, ConcatMembers
  <2> QED BY <1>8, <2>1, <2>3
<1>10. /\ DOMAIN e = {"documents", "host", "shown", "front", "welcome"}
       /\ e = [x \in DOMAIN e |-> e[x]]
  BY <1>1 DEF Together
<1>11. /\ e.documents = order /\ e.host = host /\ e.front = h /\ e.welcome = desk.welcome
  BY <1>1 DEF Together, others, blocks
<1>12. e.shown = shown
  BY <1>1 DEF Together, others, blocks
<1> HIDE DEF e, order
<1>13. /\ e = [documents |-> e.documents, host |-> e.host, shown |-> e.shown,
               front |-> e.front, welcome |-> e.welcome]
       /\ Windows(e) = Documents
       /\ e.host \in [Documents -> Host] /\ \A w \in Documents : e.host[w] = h
       /\ e.shown \in [Host -> Documents \cup {None}] /\ e.shown[h] = desk.shown[h]
       /\ \A g \in Host \ {h} : e.shown[g] = None
  BY <1>1, <1>9, <1>10, <1>11, <1>12 DEF Windows
<1>14. Hosts(e) = {h}
  <2>1. Hosts(e) = {e.host[w] : w \in Documents}
    BY <1>9, <1>11 DEF Hosts
  <2>2. Documents # {}
    BY <1>1
  <2> QED BY <1>13, <2>1, <2>2
<1>15. IsDesk(e)
  BY <1>1, <1>9, <1>11, <1>13, <1>14, DeskParts
<1>16. Keeps(desk, e)
  BY <1>1, <1>13, <1>14 DEF Keeps, Shows, Windows
<1> QED BY <1>11, <1>13, <1>15, <1>16 DEF e

\* A window goes.
LEMMA RemovedDesk ==
  ASSUME IsDesk(desk), NEW w \in Documents
  PROVE  LET e == Removed(w)
         IN /\ IsDesk(e) /\ Windows(e) = Documents \ {w}
            /\ \A v \in Documents \ {w} : e.host[v] = desk.host[v]
            /\ e.welcome # None => e.welcome = desk.welcome
            /\ \A g \in Hosts(e) :
                 /\ g \in Hosts(desk)
                 /\ Shows(desk, g) /\ (g = desk.host[w] => quitting \/ ~Blocked(w)) => Shows(e, g)
<1> DEFINE e == Removed(w)
           h == desk.host[w]
           next == Successor(w)
           docs == Only(desk.documents, Documents \ {w})
           host == Without(desk.host, w)
           shown == [g \in Host |-> IF desk.shown[g] = w THEN None ELSE desk.shown[g]]
           rest == [desk EXCEPT !.documents = docs, !.host = host, !.shown = shown]
           peers == Only(desk.documents, {v \in Documents \ {w} : desk.host[v] = desk.host[w]})
<1>1. /\ desk = [documents |-> desk.documents, host |-> desk.host, shown |-> desk.shown,
                 front |-> desk.front, welcome |-> desk.welcome]
      /\ desk.documents \in Seq(Window) /\ IsInjective(desk.documents)
      /\ ToSet(desk.documents) = Documents
      /\ desk.shown \in [Host -> Documents \cup {None}]
      /\ desk.host \in [Documents -> Host] /\ h \in Host
      /\ Hosts(desk) = {desk.host[v] : v \in Documents} /\ Hosts(desk) \subseteq Host
      /\ \A g \in Host \ Hosts(desk) : desk.shown[g] = None
      /\ desk.front \in Hosts(desk) \cup {None} /\ desk.welcome \in Hosts(desk) \cup {None}
      /\ Windows(desk) = Documents /\ None \notin Hosts(desk) /\ None \notin Documents
      /\ desk.welcome # None => \E v \in Documents : Documents = {v}
  BY DeskParts, DeskMembers DEF Windows, Documents
<1>2. /\ docs \in Seq(Window) /\ IsInjective(docs) /\ ToSet(docs) = Documents \ {w}
  BY <1>1, OnlyMembers
<1>3. /\ host \in [Documents \ {w} -> Host] /\ \A v \in Documents \ {w} : host[v] = desk.host[v]
  BY <1>1 DEF Without
<1>4. shown \in [Host -> (Documents \ {w}) \cup {None}]
      /\ \A g \in Host : shown[g] = IF desk.shown[g] = w THEN None ELSE desk.shown[g]
  BY <1>1
<1>5. peers \in Seq(Window) /\ ToSet(peers) = {v \in Documents \ {w} : desk.host[v] = h}
  BY <1>1, OnlyMembers
<1>6. (next = None /\ peers = <<>>) \/ next \in ToSet(peers)
  <2> DEFINE before == Only(peers, {v \in Documents :
                               Position(desk.documents, v) < Position(desk.documents, w)})
  <2>1. before \in Seq(Window) /\ ToSet(before) \subseteq ToSet(peers)
    <3> HIDE DEF peers
    <3> DEFINE those == {v \in Documents :
                          Position(desk.documents, v) < Position(desk.documents, w)}
    <3> HIDE DEF those
    <3>1. Only(peers, those) \in Seq(Window) /\ ToSet(Only(peers, those)) = ToSet(peers) \cap those
      BY <1>5, OnlyMembers
    <3>2. before = Only(peers, those)
      BY DEF those
    <3> HIDE DEF before
    <3> QED BY <3>1, <3>2
  <2>2. next = IF peers = <<>> THEN None
               ELSE IF ui[w].back \in ToSet(peers) THEN ui[w].back
               ELSE IF before # <<>> THEN Last(before) ELSE Head(peers)
    BY DEF Successor
  <2> HIDE DEF before, peers, next
  <2>3. before # <<>> => Last(before) \in ToSet(before)
    BY <2>1, MembersOf
  <2>4. peers # <<>> => Head(peers) \in ToSet(peers)
    BY <1>5, MembersOf
  <2> QED BY <2>1, <2>2, <2>3, <2>4
<1>7. e = IF next = None THEN Vacated(rest, h)
          ELSE IF desk.shown[h] # w \/ (~quitting /\ Blocked(w)) THEN rest
          ELSE [rest EXCEPT !.shown[h] = next, !.front = h]
  BY DEF Removed
<1> HIDE DEF docs, host, shown, peers, next
<1>8. /\ DOMAIN rest = {"documents", "host", "shown", "front", "welcome"}
      /\ rest = [x \in DOMAIN rest |-> rest[x]]
  BY <1>1
<1>9. /\ rest.documents = docs /\ rest.host = host /\ rest.shown = shown
      /\ rest.front = desk.front /\ rest.welcome = desk.welcome
  BY <1>1
<1> HIDE DEF rest, e, h
<1> SUFFICES /\ IsDesk(e) /\ Windows(e) = Documents \ {w}
             /\ \A v \in Documents \ {w} : e.host[v] = desk.host[v]
             /\ e.welcome # None => e.welcome = desk.welcome
             /\ \A g \in Hosts(e) :
                  /\ g \in Hosts(desk)
                  /\ Shows(desk, g) /\ (g = h => quitting \/ ~Blocked(w)) => Shows(e, g)
  BY DEF e, h
<1>10. h \in Host /\ \A v \in Documents : desk.host[v] \in Hosts(desk)
  BY <1>1 DEF h
<1>11. /\ Windows(rest) = Documents \ {w}
       /\ Hosts(rest) = {desk.host[v] : v \in Documents \ {w}}
       /\ Hosts(rest) \subseteq Hosts(desk) /\ Hosts(desk) \subseteq Hosts(rest) \cup {h}
  <2>1. Windows(rest) = Documents \ {w}
    BY <1>2, <1>9 DEF Windows
  <2>2. Hosts(rest) = {desk.host[v] : v \in Documents \ {w}}
    BY <1>3, <1>9, <2>1 DEF Hosts, Windows
  <2> QED BY <1>1, <2>1, <2>2 DEF h
<1>12. next = None => h \notin Hosts(rest)
  <2>1. SUFFICES ASSUME next = None PROVE h \notin Hosts(rest)
    OBVIOUS
  <2>2. ToSet(peers) = {}
    BY <1>1, <1>5, <1>6, <2>1, MembersOf
  <2> QED BY <1>5, <1>11, <2>2 DEF h
<1>13. next # None => next \in Documents \ {w} /\ desk.host[next] = h /\ h \in Hosts(rest)
                      /\ desk.welcome = None
  BY <1>1, <1>5, <1>6, <1>11 DEF None
<1>14. CASE next = None
  <2> DEFINE u == Vacated(rest, h)
  <2>1. e = u
    BY <1>7, <1>14
  <2>2. /\ DOMAIN u = {"documents", "host", "shown", "front", "welcome"}
        /\ u = [x \in DOMAIN u |-> u[x]]
    BY <1>8 DEF Vacated
  <2>3. /\ u.documents = docs /\ u.host = host /\ u.shown = [shown EXCEPT ![h] = None]
        /\ u.front = (IF desk.front = h THEN None ELSE desk.front)
        /\ u.welcome = (IF desk.welcome = h THEN None ELSE desk.welcome)
    BY <1>8, <1>9 DEF Vacated
  <2> HIDE DEF u
  <2>4. Windows(u) = Documents \ {w} /\ Hosts(u) = Hosts(rest) /\ Hosts(u) = Hosts(desk) \ {h}
    <3>1. Windows(u) = Windows(rest) /\ Hosts(u) = Hosts(rest)
      BY <1>9, <2>3 DEF Windows, Hosts
    <3> QED BY <1>11, <1>12, <1>14, <3>1
  <2>5. /\ u.shown \in [Host -> (Documents \ {w}) \cup {None}] /\ u.shown[h] = None
        /\ \A g \in Host \ {h} : u.shown[g] = IF desk.shown[g] = w THEN None ELSE desk.shown[g]
    BY <1>4, <1>10, <2>3
  <2>6. u.welcome = None
    <3>1. CASE desk.welcome = None
      BY <2>3, <3>1
    <3>2. CASE desk.welcome # None
      <4>1. Documents = {w}
        BY <1>1, <3>2
      <4>2. Hosts(desk) = {h}
        BY <1>1, <4>1 DEF h
      <4> QED BY <1>1, <2>3, <3>2, <4>2
    <3> QED BY <3>1, <3>2
  <2>7. IsDesk(u)
    <3>1. u = [documents |-> u.documents, host |-> u.host, shown |-> u.shown,
               front |-> u.front, welcome |-> u.welcome]
      BY <2>2
    <3>2. \A g \in Host \ Hosts(u) : u.shown[g] = None
      BY <1>1, <2>4, <2>5
    <3>3. u.front \in Hosts(u) \cup {None}
      BY <1>1, <2>3, <2>4
    <3> QED BY <1>2, <1>3, <2>3, <2>4, <2>5, <2>6, <3>1, <3>2, <3>3, DeskParts
  <2>8. ASSUME NEW g \in Hosts(u), Shows(desk, g)
        PROVE  u.shown[g] \in Windows(u) /\ u.host[u.shown[g]] = g
    <3>1. g \in Hosts(desk) /\ g # h /\ g \in Host
      BY <1>1, <2>4
    <3>2. desk.shown[g] \in Documents /\ desk.host[desk.shown[g]] = g
      BY <1>1, <2>8, <3>1 DEF Shows, Windows
    <3>3. desk.shown[g] # w
      BY <3>1, <3>2 DEF h
    <3>4. u.shown[g] = desk.shown[g]
      BY <2>5, <3>1, <3>3
    <3> QED BY <1>3, <2>3, <2>4, <3>2, <3>3, <3>4
  <2>9. \A g \in Hosts(u) : g \in Hosts(desk) /\ (Shows(desk, g) => Shows(u, g))
    BY <2>4, <2>8 DEF Shows, Windows
  <2> QED BY <1>3, <2>1, <2>3, <2>4, <2>6, <2>7, <2>9
<1>15. CASE next # None
  <2>1. IsDesk(rest)
    <3>1. /\ rest = [documents |-> rest.documents, host |-> rest.host, shown |-> rest.shown,
                     front |-> rest.front, welcome |-> rest.welcome]
      BY <1>8
    <3>2. Hosts(rest) = Hosts(desk)
      BY <1>11, <1>13, <1>15
    <3>3. \A g \in Host \ Hosts(rest) : rest.shown[g] = None
      BY <1>1, <1>4, <1>9, <3>2
    <3> QED BY <1>1, <1>2, <1>3, <1>4, <1>9, <1>11, <1>13, <1>15, <3>1, <3>2, <3>3, DeskParts
  <2>2. ASSUME NEW g \in Hosts(rest), Shows(desk, g), desk.shown[g] # w
        PROVE  rest.shown[g] \in Windows(rest) /\ rest.host[rest.shown[g]] = g
    <3>1. g \in Hosts(desk) /\ g \in Host
      BY <1>1, <1>11
    <3>2. desk.shown[g] \in Documents /\ desk.host[desk.shown[g]] = g
      BY <1>1, <2>2, <3>1 DEF Shows, Windows
    <3> QED BY <1>3, <1>4, <1>9, <1>11, <2>2, <3>1, <3>2
  <2>3. ASSUME NEW g \in Hosts(rest), Shows(desk, g), desk.shown[g] = w PROVE g = h
    BY <1>1, <1>11, <2>3 DEF Shows, h
  <2>4. CASE desk.shown[h] # w \/ (~quitting /\ Blocked(w))
    <3>1. e = rest
      BY <1>7, <1>15, <2>4
    <3>2. ASSUME NEW g \in Hosts(rest), Shows(desk, g), g = h => quitting \/ ~Blocked(w)
          PROVE  Shows(rest, g)
      <4>1. desk.shown[g] # w
        BY <2>3, <2>4, <3>2
      <4> QED BY <2>2, <3>2, <4>1 DEF Shows, Windows
    <3> QED BY <1>3, <1>9, <1>11, <2>1, <3>1, <3>2
  <2>5. CASE ~(desk.shown[h] # w \/ (~quitting /\ Blocked(w)))
    <3> DEFINE u == [rest EXCEPT !.shown[h] = next, !.front = h]
    <3>1. e = u
      BY <1>7, <1>15, <2>5
    <3>2. /\ DOMAIN u = {"documents", "host", "shown", "front", "welcome"}
          /\ u = [x \in DOMAIN u |-> u[x]]
      BY <1>8
    <3>3. /\ u.documents = docs /\ u.host = host /\ u.shown = [shown EXCEPT ![h] = next]
          /\ u.front = h /\ u.welcome = desk.welcome
      BY <1>8, <1>9
    <3> HIDE DEF u
    <3>4. Windows(u) = Windows(rest) /\ Hosts(u) = Hosts(rest)
      BY <1>9, <3>3 DEF Windows, Hosts
    <3>5. /\ u.shown \in [Host -> (Documents \ {w}) \cup {None}] /\ u.shown[h] = next
          /\ \A g \in Host \ {h} : u.shown[g] = rest.shown[g]
      BY <1>4, <1>9, <1>10, <1>13, <1>15, <3>3
    <3>6. IsDesk(u)
      <4>1. u = [documents |-> u.documents, host |-> u.host, shown |-> u.shown,
                 front |-> u.front, welcome |-> u.welcome]
        BY <3>2
      <4>2. \A g \in Host \ Hosts(u) : u.shown[g] = None
        BY <1>13, <1>15, <2>1, <3>4, <3>5, DeskParts
      <4> QED BY <1>2, <1>3, <1>11, <1>13, <1>15, <3>3, <3>4, <3>5, <4>1, <4>2, DeskParts
    <3>7. ASSUME NEW g \in Hosts(u), Shows(desk, g)
          PROVE  u.shown[g] \in Windows(u) /\ u.host[u.shown[g]] = g
      <4>1. CASE g = h
        BY <1>3, <1>11, <1>13, <1>15, <3>3, <3>4, <3>5, <4>1
      <4>2. CASE g # h
        <5>1. rest.shown[g] \in Windows(rest) /\ rest.host[rest.shown[g]] = g
          BY <2>2, <2>3, <3>4, <3>7, <4>2
        <5>2. g \in Host
          BY <1>1, <1>11, <3>4
        <5> QED BY <1>9, <3>3, <3>4, <3>5, <4>2, <5>1, <5>2
      <4> QED BY <4>1, <4>2
    <3>8. \A g \in Hosts(u) : g \in Hosts(desk) /\ (Shows(desk, g) => Shows(u, g))
      BY <1>11, <3>4, <3>7 DEF Shows, Windows
    <3> QED BY <1>3, <1>11, <3>1, <3>3, <3>4, <3>6, <3>8
  <2> QED BY <2>4, <2>5
<1> QED BY <1>14, <1>15

\* A tab moves to another place.
LEMMA ReorderedDesk ==
  ASSUME IsDesk(desk), NEW s \in Seq(Window), IsInjective(s), ToSet(s) = Documents
  PROVE  LET e == [desk EXCEPT !.documents = s]
         IN /\ IsDesk(e) /\ Windows(e) = Documents /\ e.host = desk.host
            /\ e.welcome = desk.welcome /\ Keeps(desk, e)
<1> DEFINE e == [desk EXCEPT !.documents = s]
<1>1. /\ desk = [documents |-> desk.documents, host |-> desk.host, shown |-> desk.shown,
                 front |-> desk.front, welcome |-> desk.welcome]
      /\ Windows(desk) = Documents
      /\ desk.host \in [Documents -> Host] /\ desk.shown \in [Host -> Documents \cup {None}]
      /\ \A h \in Host \ Hosts(desk) : desk.shown[h] = None
      /\ desk.front \in Hosts(desk) \cup {None} /\ desk.welcome \in Hosts(desk) \cup {None}
      /\ desk.welcome # None => \E v \in Documents : Documents = {v}
  BY DeskParts DEF Windows, Documents
<1>2. /\ e.documents = s /\ e.host = desk.host /\ e.shown = desk.shown
      /\ e.front = desk.front /\ e.welcome = desk.welcome
      /\ e = [documents |-> e.documents, host |-> e.host, shown |-> e.shown,
              front |-> e.front, welcome |-> e.welcome]
  <2>1. DOMAIN e = {"documents", "host", "shown", "front", "welcome"}
        /\ e = [x \in DOMAIN e |-> e[x]]
    BY <1>1
  <2>2. /\ e.documents = s /\ e.host = desk.host /\ e.shown = desk.shown
        /\ e.front = desk.front /\ e.welcome = desk.welcome
    BY <1>1
  <2> HIDE DEF e
  <2> QED BY <2>1, <2>2
<1> HIDE DEF e
<1>3. Windows(e) = Documents /\ Hosts(e) = Hosts(desk)
  BY <1>1, <1>2 DEF Windows, Hosts
<1>4. IsDesk(e)
  BY <1>1, <1>2, <1>3, DeskParts
<1>5. Keeps(desk, e)
  BY <1>1, <1>2, <1>3 DEF Keeps, Shows, Windows
<1> QED BY <1>2, <1>3, <1>4, <1>5 DEF e

LEMMA MovedOrder ==
  ASSUME IsDesk(desk), NEW w \in Documents, NEW before \in Documents \ {w}, NEW later \in {0, 1}
  PROVE  LET rest == Only(desk.documents, Documents \ {w})
             s    == InsertAt(rest, Position(rest, before) + later, w)
         IN s \in Seq(Window) /\ IsInjective(s) /\ ToSet(s) = Documents
<1> DEFINE rest == Only(desk.documents, Documents \ {w})
           at   == Position(rest, before) + later
<1>1. /\ desk.documents \in Seq(Window) /\ IsInjective(desk.documents)
      /\ ToSet(desk.documents) = Documents /\ Documents \subseteq Window
  BY DeskParts, MembersOf DEF Documents
<1>2. rest \in Seq(Window) /\ IsInjective(rest) /\ ToSet(rest) = Documents \ {w}
  BY <1>1, OnlyMembers
<1> HIDE DEF rest
<1>3. at \in 1 .. Len(rest) + 1
  <2>1. Position(rest, before) \in 1 .. Len(rest) /\ Len(rest) \in Nat
    BY <1>2, PositionOf, LenProperties
  <2> QED BY <2>1
<1> HIDE DEF at
<1>4. /\ InsertAt(rest, at, w) \in Seq(Window) /\ ToSet(InsertAt(rest, at, w)) = ToSet(rest) \cup {w}
      /\ IsInjective(InsertAt(rest, at, w))
  BY <1>1, <1>2, <1>3, InsertMembers
<1>5. ToSet(InsertAt(rest, at, w)) = Documents
  BY <1>2, <1>4
<1> QED BY <1>4, <1>5 DEF rest, at

-----------------------------------------------------------------------------
(***************************************************************************)
(* tabs.ini keeps the tabs of every host together, and apart from those of *)
(* the others.                                                             *)
(***************************************************************************)
Groups == Seq([paths : Seq(Window), active : Window \cup {None}])
Disjoint(gs) ==
  \A j, k \in DOMAIN gs :
    /\ IsInjective(gs[k].paths)
    /\ j # k => ToSet(gs[j].paths) \cap ToSet(gs[k].paths) = {}
Kept(gs, home) ==
  /\ \A w \in DOMAIN home : \E k \in DOMAIN gs : w \in ToSet(gs[k].paths)
  /\ \A v, w \in DOMAIN home : \A k \in DOMAIN gs :
       v \in ToSet(gs[k].paths) => (home[v] = home[w] <=> w \in ToSet(gs[k].paths))

LEMMA TabFileKeeps ==
  ASSUME NEW d, IsDesk(d), tabs.active \in Window \cup {None}
  PROVE  /\ TabFile(d) \in [groups : Groups, active : Window \cup {None}]
         /\ Disjoint(TabFile(d).groups) /\ Kept(TabFile(d).groups, d.host)
<1> DEFINE firsts == Firsts(d)
           gs == [k \in DOMAIN firsts |->
                   [paths |-> TabsOf(d, d.host[firsts[k]]), active |-> d.shown[d.host[firsts[k]]]]]
           shown == IF ActiveHost(d) = None THEN None ELSE d.shown[ActiveHost(d)]
           active == IF shown = None THEN tabs.active ELSE shown
<1>1. /\ d.documents \in Seq(Window) /\ Windows(d) = ToSet(d.documents) /\ Windows(d) \subseteq Window
      /\ d.host \in [Windows(d) -> Host] /\ d.shown \in [Host -> Windows(d) \cup {None}]
      /\ d.front \in Hosts(d) \cup {None} /\ Hosts(d) \subseteq Host
      /\ Hosts(d) = {d.host[w] : w \in Windows(d)}
  BY DeskParts, DeskMembers DEF Windows
<1>2. active \in Window \cup {None}
  <2>1. ActiveHost(d) # None => ActiveHost(d) \in Host
    <3>1. d.documents # <<>> => Last(d.documents) \in Windows(d)
      BY <1>1, MembersOf
    <3> QED BY <1>1, <3>1 DEF ActiveHost
  <2>2. shown \in Window \cup {None}
    BY <1>1, <2>1
  <2> HIDE DEF shown
  <2> QED BY <2>2
<1>3. /\ firsts \in Seq(Window) /\ IsInjective(firsts) /\ ToSet(firsts) \subseteq Windows(d)
      /\ ToSet(firsts) = {Head(TabsOf(d, h)) : h \in Hosts(d)}
      /\ \A w \in ToSet(firsts) : Head(TabsOf(d, d.host[w])) = w
  BY FirstsMembers
<1>4. TabFile(d) = [groups |-> gs, active |-> active]
  BY DEF TabFile
<1> HIDE DEF firsts, active
<1>5. /\ Len(firsts) \in Nat /\ DOMAIN firsts = 1 .. Len(firsts)
      /\ ToSet(firsts) = {firsts[k] : k \in 1 .. Len(firsts)}
  BY <1>3, LenProperties, MembersOf
<1> DEFINE paths(k) == gs[k].paths
<1>6. ASSUME NEW k \in 1 .. Len(firsts)
      PROVE  /\ gs[k] \in [paths : Seq(Window), active : Window \cup {None}]
             /\ IsInjective(paths(k))
             /\ ToSet(paths(k)) = {w \in Windows(d) : d.host[w] = d.host[firsts[k]]}
             /\ firsts[k] \in Windows(d) /\ d.host[firsts[k]] \in Host
             /\ Head(TabsOf(d, d.host[firsts[k]])) = firsts[k]
  <2>1. firsts[k] \in ToSet(firsts)
    BY <1>5
  <2>2. firsts[k] \in Windows(d) /\ d.host[firsts[k]] \in Host
        /\ Head(TabsOf(d, d.host[firsts[k]])) = firsts[k]
    BY <1>1, <1>3, <2>1
  <2> DEFINE t == TabsOf(d, d.host[firsts[k]])
             a == d.shown[d.host[firsts[k]]]
  <2>3. /\ t \in Seq(Window) /\ IsInjective(t)
        /\ ToSet(t) = {w \in Windows(d) : d.host[w] = d.host[firsts[k]]}
    BY TabsMembers
  <2>4. gs[k] = [paths |-> t, active |-> a]
    BY <1>5
  <2>5. a \in Window \cup {None}
    BY <1>1, <2>2
  <2> HIDE DEF t, a, gs
  <2>6. gs[k] \in [paths : Seq(Window), active : Window \cup {None}] /\ paths(k) = t
    BY <2>3, <2>4, <2>5
  <2> HIDE DEF paths
  <2> QED BY <2>2, <2>3, <2>6
<1>7. DOMAIN gs = 1 .. Len(firsts) /\ gs \in Groups
  <2> DEFINE G == [paths : Seq(Window), active : Window \cup {None}]
  <2>1. DOMAIN gs = 1 .. Len(firsts) /\ gs = [k \in 1 .. Len(firsts) |-> gs[k]]
    BY <1>5
  <2> HIDE DEF gs, paths
  <2>2. \A k \in 1 .. Len(firsts) : gs[k] \in G
    BY <1>6
  <2> HIDE DEF G
  <2>3. gs \in [1 .. Len(firsts) -> G]
    BY <2>1, <2>2
  <2>4. gs \in Seq(G)
    BY <1>5, <2>3
  <2> QED BY <2>1, <2>4 DEF Groups, G
<1> HIDE DEF gs, paths
<1>8. ASSUME NEW j \in 1 .. Len(firsts), NEW k \in 1 .. Len(firsts), j # k
      PROVE  ToSet(paths(j)) \cap ToSet(paths(k)) = {}
  <2>1. firsts[j] # firsts[k]
    BY <1>3, <1>5, <1>8 DEF IsInjective
  <2>2. d.host[firsts[j]] # d.host[firsts[k]]
    BY <1>6, <2>1
  <2> QED BY <1>6, <2>2
<1>9. Disjoint(gs)
  <2>1. \A j, k \in 1 .. Len(firsts) :
          IsInjective(paths(k)) /\ (j # k => ToSet(paths(j)) \cap ToSet(paths(k)) = {})
    BY <1>6, <1>8
  <2> QED BY <1>7, <2>1 DEF Disjoint, paths
<1>10. ASSUME NEW w \in Windows(d) PROVE \E k \in 1 .. Len(firsts) : w \in ToSet(paths(k))
  <2> DEFINE first == Head(TabsOf(d, d.host[w]))
  <2>1. first \in Windows(d) /\ d.host[first] = d.host[w] /\ first \in ToSet(firsts)
    <3>1. d.host[w] \in Hosts(d)
      BY <1>1
    <3> QED BY <1>3, <3>1, TabsMembers
  <2> HIDE DEF first
  <2>2. PICK k \in 1 .. Len(firsts) : firsts[k] = first
    BY <1>5, <2>1
  <2> QED BY <1>6, <2>1, <2>2
<1>11. Kept(gs, d.host)
  <2>1. \A v, w \in Windows(d) : \A k \in 1 .. Len(firsts) :
          v \in ToSet(paths(k)) => (d.host[v] = d.host[w] <=> w \in ToSet(paths(k)))
    BY <1>6
  <2>2. \A w \in Windows(d) : \E k \in 1 .. Len(firsts) : w \in ToSet(paths(k))
    BY <1>10
  <2>3. DOMAIN d.host = Windows(d)
    BY <1>1
  <2> QED BY <1>7, <2>1, <2>2, <2>3 DEF Kept, paths
<1> QED BY <1>2, <1>4, <1>7, <1>9, <1>11

LEMMA UnfinishedMembers ==
  ASSUME DOMAIN snapshots \subseteq Window
  PROVE  /\ Unfinished \in Seq(Window) /\ IsInjective(Unfinished)
         /\ ToSet(Unfinished) = {w \in DOMAIN snapshots : snapshots[w].text # snapshots[w].base}
         /\ \A w \in ToSet(Unfinished) : Position(Unfinished, w) \in Host
         /\ \A v, w \in ToSet(Unfinished) : Position(Unfinished, v) = Position(Unfinished, w) => v = w
<1> DEFINE S == {w \in DOMAIN snapshots : snapshots[w].text # snapshots[w].base}
<1>1. /\ Window \subseteq Nat \ {0} /\ IsFiniteSet(Window) /\ S \subseteq Window
      /\ Host = 1 .. Cardinality(Window) /\ Cardinality(Window) \in Nat
  BY HostIsNumber, DesktopAssumption, FS_CardinalityType
<1>2. IsFiniteSet(S) /\ Cardinality(S) <= Cardinality(Window) /\ Cardinality(S) \in Nat
  BY <1>1, FS_Subset, FS_CardinalityType
<1>3. Unfinished = Sorted(S)
  BY DEF Unfinished
<1> HIDE DEF S
<1>4. /\ Unfinished \in Seq(S) /\ ToSet(Unfinished) = S /\ IsInjective(Unfinished)
      /\ Len(Unfinished) = Cardinality(S)
  <2>1. S \in SUBSET Nat
    BY <1>1
  <2> QED BY <1>2, <1>3, <2>1, SortedMembers
<1>5. Unfinished \in Seq(Window)
  <2>1. \A k \in 1 .. Len(Unfinished) : Unfinished[k] \in Window
    BY <1>1, <1>4, ElementOfSeq
  <2>2. Unfinished \in [1 .. Len(Unfinished) -> Window] /\ Len(Unfinished) \in Nat
    BY <1>4, <2>1, LenProperties
  <2> QED BY <2>2
<1>6. ASSUME NEW w \in ToSet(Unfinished)
      PROVE  Position(Unfinished, w) \in Host /\ Unfinished[Position(Unfinished, w)] = w
  <2>1. /\ Position(Unfinished, w) \in 1 .. Len(Unfinished)
        /\ Unfinished[Position(Unfinished, w)] = w
    BY <1>5, PositionOf
  <2> QED BY <1>1, <1>2, <1>4, <2>1
<1>7. \A v, w \in ToSet(Unfinished) : Position(Unfinished, v) = Position(Unfinished, w) => v = w
  BY <1>6
<1> QED BY <1>4, <1>5, <1>6, <1>7 DEF S

\* What comes back has the hosts that the groups tell, and each shows a tab of its own.
LEMMA RestoredDesk ==
  ASSUME DOMAIN snapshots \subseteq Window, tabs.groups \in Groups, Disjoint(tabs.groups),
         Unfinished # <<>>
  PROVE  /\ IsDesk(Restored) /\ Windows(Restored) = ToSet(Unfinished) /\ Keeps(desk, Restored)
         /\ Restored.welcome = None
         /\ \A v, w \in Windows(Restored) : \A j, k \in DOMAIN tabs.groups :
              v \in ToSet(tabs.groups[j].paths) /\ w \in ToSet(tabs.groups[k].paths)
                => (Restored.host[v] = Restored.host[w] <=> j = k)
<1> DEFINE G == tabs.groups
           set == ToSet(Unfinished)
           alive == [k \in DOMAIN tabs.groups |-> Only(tabs.groups[k].paths, ToSet(Unfinished))]
           groups == Only(alive, ToSet(alive) \ {<<>>})
           grouped == FlattenSeq(groups)
           free == Only(Unfinished, ToSet(Unfinished) \ ToSet(grouped))
           order == grouped \o free
           within(w) == {k \in DOMAIN groups : w \in ToSet(groups[k])}
           leader(w) == IF within(w) = {} THEN w ELSE Head(groups[CHOOSE k \in within(w) : TRUE])
           home(w) == Position(Unfinished, leader(w))
           host == [w \in ToSet(order) |-> home(w)]
           wasShown == {tabs.groups[k].active : k \in DOMAIN tabs.groups}
           those(h) == {w \in DOMAIN host : host[w] = h}
           earliest(h) == CHOOSE k \in DOMAIN order :
                            order[k] \in those(h) /\ \A j \in 1 .. k - 1 : order[j] \notin those(h)
           show(h) == LET was == those(h) \cap wasShown
                      IN IF those(h) = {} THEN None
                         ELSE IF tabs.active \in those(h) THEN tabs.active
                         ELSE IF was # {} THEN CHOOSE w \in was : TRUE
                         ELSE order[earliest(h)]
           last == IF grouped = <<>> THEN Last(order) ELSE Head(Last(groups))
           front == host[IF tabs.active \in DOMAIN host THEN tabs.active ELSE last]
           shown == [h \in Host |-> show(h)]
<1>1. /\ Unfinished \in Seq(Window) /\ IsInjective(Unfinished) /\ set \subseteq Window /\ set # {}
      /\ \A w \in set : Position(Unfinished, w) \in Host
      /\ \A v, w \in set : Position(Unfinished, v) = Position(Unfinished, w) => v = w
  BY UnfinishedMembers, MembersOf
<1>2. /\ Len(G) \in Nat /\ DOMAIN G = 1 .. Len(G)
      /\ \A k \in 1 .. Len(G) : G[k].paths \in Seq(Window) /\ IsInjective(G[k].paths)
      /\ \A j, k \in 1 .. Len(G) : j # k => ToSet(G[j].paths) \cap ToSet(G[k].paths) = {}
  <2> DEFINE R == [paths : Seq(Window), active : Window \cup {None}]
  <2>1. G \in Seq(R) /\ Disjoint(G)
    BY DEF Groups
  <2> HIDE DEF G, R
  <2>2. Len(G) \in Nat /\ DOMAIN G = 1 .. Len(G) /\ \A k \in 1 .. Len(G) : G[k] \in R
    BY <2>1, LenProperties, ElementOfSeq
  <2>3. \A k \in 1 .. Len(G) : G[k].paths \in Seq(Window)
    BY <2>2 DEF R
  <2> QED BY <2>1, <2>2, <2>3 DEF Disjoint
<1>3. ASSUME NEW k \in 1 .. Len(G)
      PROVE  /\ alive[k] \in Seq(Window) /\ IsInjective(alive[k])
             /\ ToSet(alive[k]) = ToSet(G[k].paths) \cap set
  <2>1. alive[k] = Only(G[k].paths, set)
    BY <1>2
  <2> HIDE DEF alive, G, set
  <2> QED BY <1>2, <2>1, OnlyMembers
<1>4. alive \in Seq(Seq(Window)) /\ Len(alive) = Len(G) /\ DOMAIN alive = 1 .. Len(G)
  <2>1. DOMAIN alive = 1 .. Len(G) /\ alive = [k \in 1 .. Len(G) |-> alive[k]]
    BY <1>2
  <2> HIDE DEF alive, G
  <2>2. alive \in [1 .. Len(G) -> Seq(Window)]
    BY <1>3, <2>1
  <2> QED BY <1>2, <2>1, <2>2
<1> HIDE DEF alive, set, G
<1>5. /\ groups \in Seq(Seq(Window)) /\ IsInjective(groups)
      /\ ToSet(groups) = ToSet(alive) \ {<<>>}
  <2>1. Once(alive, ToSet(alive) \ {<<>>})
    <3> SUFFICES ASSUME NEW j \in 1 .. Len(G), NEW k \in 1 .. Len(G), alive[j] # <<>>,
                        alive[j] = alive[k]
                 PROVE  j = k
      BY <1>4 DEF Once
    <3>1. ToSet(alive[j]) # {}
      BY <1>3, MembersOf
    <3>2. PICK x : x \in ToSet(alive[j])
      BY <3>1
    <3>3. x \in ToSet(G[j].paths) /\ x \in ToSet(alive[k])
      BY <1>3, <3>2
    <3>4. x \in ToSet(G[k].paths)
      BY <1>3, <3>3
    <3> QED BY <1>2, <3>3, <3>4
  <2>2. /\ groups \in Seq(Seq(Window)) /\ IsInjective(groups)
        /\ ToSet(groups) = ToSet(alive) \cap (ToSet(alive) \ {<<>>})
    BY <1>4, <2>1, OnlyMembers
  <2> HIDE DEF groups
  <2> QED BY <2>2
<1>6. ToSet(alive) = {alive[k] : k \in 1 .. Len(G)}
  BY <1>4 DEF ToSet
<1> HIDE DEF groups
<1>7. /\ Len(groups) \in Nat /\ DOMAIN groups = 1 .. Len(groups)
      /\ ToSet(groups) = {groups[k] : k \in 1 .. Len(groups)}
  BY <1>5, LenProperties, MembersOf
<1>8. ASSUME NEW k \in 1 .. Len(groups)
      PROVE  \E n \in 1 .. Len(G) : groups[k] = alive[n] /\ groups[k] # <<>>
  BY <1>5, <1>6, <1>7
<1>9. ASSUME NEW k \in 1 .. Len(groups)
      PROVE  /\ groups[k] \in Seq(Window) /\ IsInjective(groups[k]) /\ groups[k] # <<>>
             /\ ToSet(groups[k]) \subseteq set /\ Head(groups[k]) \in ToSet(groups[k])
  <2>1. PICK n \in 1 .. Len(G) : groups[k] = alive[n] /\ groups[k] # <<>>
    BY <1>8
  <2>2. groups[k] \in Seq(Window) /\ IsInjective(groups[k]) /\ ToSet(groups[k]) \subseteq set
    BY <1>3, <2>1
  <2> QED BY <2>1, <2>2, MembersOf
<1>10. ASSUME NEW j \in 1 .. Len(groups), NEW k \in 1 .. Len(groups), j # k
       PROVE  ToSet(groups[j]) \cap ToSet(groups[k]) = {}
  <2>1. groups[j] # groups[k]
    BY <1>5, <1>7, <1>10 DEF IsInjective
  <2>2. PICK m \in 1 .. Len(G) : groups[j] = alive[m]
    BY <1>8
  <2>3. PICK n \in 1 .. Len(G) : groups[k] = alive[n]
    BY <1>8
  <2>4. m # n
    BY <2>1, <2>2, <2>3
  <2> QED BY <1>2, <1>3, <2>2, <2>3, <2>4
<1>11. /\ grouped \in Seq(Window) /\ IsInjective(grouped) /\ ToSet(grouped) \subseteq set
       /\ ToSet(grouped) = UNION {ToSet(groups[k]) : k \in 1 .. Len(groups)}
  <2>1. Apart(groups)
    BY <1>7, <1>9, <1>10 DEF Apart
  <2>2. /\ grouped \in Seq(Window) /\ IsInjective(grouped)
        /\ ToSet(grouped) = UNION {ToSet(groups[k]) : k \in 1 .. Len(groups)}
    BY <1>5, <2>1, FlatMembers
  <2> HIDE DEF grouped
  <2> QED BY <1>9, <2>2
<1>12. grouped # <<>> => groups # <<>> /\ Head(Last(groups)) \in set
  <2>1. SUFFICES ASSUME grouped # <<>> PROVE groups # <<>> /\ Head(Last(groups)) \in set
    OBVIOUS
  <2>2. ToSet(grouped) # {}
    BY <1>11, <2>1, MembersOf
  <2>3. 1 .. Len(groups) # {}
    BY <1>11, <2>2
  <2>4. groups # <<>> /\ Len(groups) \in 1 .. Len(groups)
    BY <1>7, <2>3, EmptySeq
  <2> QED BY <1>9, <2>4 DEF Last
<1> HIDE DEF grouped
<1>13. free \in Seq(Window) /\ IsInjective(free) /\ ToSet(free) = set \ ToSet(grouped)
  <2> DEFINE others == ToSet(Unfinished) \ ToSet(grouped)
  <2> HIDE DEF others
  <2>1. /\ Only(Unfinished, others) \in Seq(Window) /\ IsInjective(Only(Unfinished, others))
        /\ ToSet(Only(Unfinished, others)) = ToSet(Unfinished) \cap others
    BY <1>1, OnlyMembers
  <2>2. ToSet(Unfinished) \cap others = set \ ToSet(grouped)
    BY DEF set, others
  <2> QED BY <2>1, <2>2 DEF others
<1> HIDE DEF free
<1>14. order \in Seq(Window) /\ IsInjective(order) /\ ToSet(order) = set /\ order # <<>>
  <2>1. /\ order \in Seq(Window) /\ ToSet(order) = ToSet(grouped) \cup ToSet(free)
        /\ IsInjective(order)
    <3>1. ToSet(grouped) \cap ToSet(free) = {}
      BY <1>13
    <3> QED BY <1>11, <1>13, <3>1, ConcatMembers
  <2> HIDE DEF order
  <2>2. ToSet(order) = set
    BY <1>11, <1>13, <2>1
  <2> QED BY <1>1, <2>1, <2>2, MembersOf
<1> HIDE DEF order
<1>15. ASSUME NEW k \in 1 .. Len(groups), NEW w \in ToSet(groups[k])
       PROVE  leader(w) = Head(groups[k]) /\ w \in set
  <2>1. within(w) = {k}
    BY <1>7, <1>10
  <2>2. (CHOOSE n \in {k} : TRUE) = k
    OBVIOUS
  <2> HIDE DEF within
  <2> QED BY <1>9, <2>1, <2>2
<1>16. \A w \in set : leader(w) \in set
  <2> SUFFICES ASSUME NEW w \in set PROVE leader(w) \in set
    OBVIOUS
  <2>1. CASE within(w) = {}
    BY <2>1
  <2>2. CASE within(w) # {}
    <3>1. PICK k \in 1 .. Len(groups) : w \in ToSet(groups[k])
      BY <1>7, <2>2
    <3> HIDE DEF leader
    <3> QED BY <1>9, <1>15, <3>1
  <2> QED BY <2>1, <2>2
<1> HIDE DEF leader
<1>17. host \in [set -> Host] /\ \A w \in set : host[w] = home(w)
  BY <1>1, <1>14, <1>16
<1>18. \A v, w \in set : host[v] = host[w] <=> leader(v) = leader(w)
  BY <1>1, <1>16, <1>17
<1> HIDE DEF host
<1>19. \A h : those(h) = {w \in set : host[w] = h}
  BY <1>17
<1> HIDE DEF those
<1>20. /\ Len(order) \in Nat /\ DOMAIN order = 1 .. Len(order)
       /\ ToSet(order) = {order[k] : k \in 1 .. Len(order)} /\ Last(order) \in set
  BY <1>14, LenProperties, MembersOf
<1>21. ASSUME NEW h, those(h) # {} PROVE order[earliest(h)] \in those(h)
  <2> DEFINE S == {k \in 1 .. Len(order) : order[k] \in those(h)}
             m == Min(S)
  <2>1. S \in SUBSET Nat /\ S # {}
    BY <1>14, <1>19, <1>20, <1>21
  <2>2. m \in S /\ \A y \in S : m <= y
    BY <2>1, LeastExists
  <2> HIDE DEF m
  <2>3. m \in DOMAIN order /\ order[m] \in those(h)
    BY <1>20, <2>2
  <2>4. \A j \in 1 .. m - 1 : order[j] \notin those(h)
    <3> SUFFICES ASSUME NEW j \in 1 .. m - 1, order[j] \in those(h) PROVE FALSE
      OBVIOUS
    <3>1. j \in S /\ m \in Nat /\ j < m
      BY <1>20, <2>2
    <3> QED BY <2>2, <3>1
  <2> QED BY <2>3, <2>4
<1>22. ASSUME NEW h PROVE (show(h) = None /\ those(h) = {}) \/ show(h) \in those(h)
  <2> DEFINE was == those(h) \cap wasShown
  <2>1. show(h) = IF those(h) = {} THEN None
                  ELSE IF tabs.active \in those(h) THEN tabs.active
                  ELSE IF was # {} THEN CHOOSE w \in was : TRUE
                  ELSE order[earliest(h)]
    OBVIOUS
  <2>2. was # {} => (CHOOSE w \in was : TRUE) \in those(h)
    OBVIOUS
  <2> HIDE DEF show, was, earliest
  <2> QED BY <1>21, <2>1, <2>2
<1> HIDE DEF show
<1>23. shown \in [Host -> set \cup {None}] /\ \A h \in Host : shown[h] = show(h)
  BY <1>19, <1>22
<1>24. last \in set
  BY <1>12, <1>20
<1>25. \E w \in set : front = host[w]
  <2> HIDE DEF last
  <2>1. (IF tabs.active \in DOMAIN host THEN tabs.active ELSE last) \in set
    BY <1>17, <1>24
  <2> QED BY <2>1
<1>26. Restored = [documents |-> order, host |-> host, shown |-> shown, front |-> front,
                   welcome |-> None]
  BY DEF Restored, order, free, grouped, groups, alive, host, leader, home, within, those,
         shown, show, earliest, wasShown, front, last
<1> HIDE DEF shown, front
<1>27. /\ Restored.documents = order /\ Restored.host = host /\ Restored.shown = shown
       /\ Restored.front = front /\ Restored.welcome = None
       /\ Windows(Restored) = set
  BY <1>14, <1>26 DEF Windows
<1>28. Hosts(Restored) = {host[w] : w \in set}
  BY <1>14, <1>27 DEF Hosts
<1>29. IsDesk(Restored)
  <2>1. Restored = [documents |-> Restored.documents, host |-> Restored.host,
                    shown |-> Restored.shown, front |-> Restored.front,
                    welcome |-> Restored.welcome]
    BY <1>26
  <2>2. \A h \in Host \ Hosts(Restored) : Restored.shown[h] = None
    BY <1>19, <1>22, <1>23, <1>27, <1>28
  <2>3. Restored.front \in Hosts(Restored)
    BY <1>25, <1>27, <1>28
  <2> QED BY <1>14, <1>17, <1>23, <1>27, <2>1, <2>2, <2>3, DeskParts
<1>30. Keeps(desk, Restored)
  <2> SUFFICES ASSUME NEW h \in Hosts(Restored)
               PROVE  shown[h] \in set /\ host[shown[h]] = h
    BY <1>27 DEF Keeps, Shows, Windows
  <2>1. those(h) # {} /\ h \in Host
    BY <1>17, <1>19, <1>28
  <2> QED BY <1>19, <1>22, <1>23, <2>1
<1>31. ASSUME NEW v \in set, NEW w \in set, NEW j \in 1 .. Len(G), NEW k \in 1 .. Len(G),
              v \in ToSet(G[j].paths), w \in ToSet(G[k].paths)
       PROVE  host[v] = host[w] <=> j = k
  <2>1. v \in ToSet(alive[j]) /\ w \in ToSet(alive[k])
    BY <1>3, <1>31
  <2>2. alive[j] # <<>> /\ alive[k] # <<>>
    BY <1>3, <2>1, MembersOf
  <2>3. PICK m \in 1 .. Len(groups) : groups[m] = alive[j]
    BY <1>5, <1>6, <1>7, <2>2
  <2>4. PICK n \in 1 .. Len(groups) : groups[n] = alive[k]
    BY <1>5, <1>6, <1>7, <2>2
  <2>5. leader(v) = Head(groups[m]) /\ leader(w) = Head(groups[n])
    BY <1>15, <2>1, <2>3, <2>4
  <2>6. j = k => groups[m] = groups[n]
    BY <2>3, <2>4
  <2>7. leader(v) \in ToSet(G[j].paths) /\ leader(w) \in ToSet(G[k].paths)
    BY <1>3, <1>9, <2>3, <2>4, <2>5
  <2> QED BY <1>2, <1>18, <2>5, <2>6, <2>7, ZenonT(40)
<1>32. \A v, w \in Windows(Restored) : \A j, k \in DOMAIN tabs.groups :
         v \in ToSet(tabs.groups[j].paths) /\ w \in ToSet(tabs.groups[k].paths)
           => (Restored.host[v] = Restored.host[w] <=> j = k)
  BY <1>2, <1>27, <1>31 DEF G
<1> QED BY <1>27, <1>29, <1>30, <1>32 DEF set

-----------------------------------------------------------------------------
(***************************************************************************)
(* The windows after each kind of step.                                    *)
(***************************************************************************)
\* A window joins: in a host of its own or with the tabs of another.
LEMMA OpenedDesk ==
  ASSUME IsDesk(desk), NEW w \in Window \ Documents, NEW h \in Host, NEW welcome,
         welcome = None \/ (welcome = h /\ Documents = {})
  PROVE  LET e == Activated([desk EXCEPT !.documents = Append(@, w), !.host = With(@, w, h),
                                         !.welcome = welcome], w)
         IN /\ IsDesk(e) /\ Windows(e) = Documents \cup {w} /\ e.welcome = welcome
            /\ Keeps(desk, e)
<1> DEFINE u == [desk EXCEPT !.documents = Append(@, w), !.host = With(@, w, h),
                             !.welcome = welcome]
           o == [documents |-> Append(desk.documents, w), host |-> With(desk.host, w, h),
                 shown |-> desk.shown, front |-> desk.front, welcome |-> welcome]
           e == Activated(o, w)
<1>1. u = o
  <2>1. /\ desk = [documents |-> desk.documents, host |-> desk.host, shown |-> desk.shown,
                   front |-> desk.front, welcome |-> desk.welcome]
    BY DeskParts
  <2>2. DOMAIN u = {"documents", "host", "shown", "front", "welcome"}
        /\ u = [x \in DOMAIN u |-> u[x]]
    BY <2>1
  <2>3. /\ u.documents = Append(desk.documents, w) /\ u.host = With(desk.host, w, h)
        /\ u.shown = desk.shown /\ u.front = desk.front /\ u.welcome = welcome
    BY <2>1
  <2> HIDE DEF u
  <2> QED BY <2>2, <2>3
<1> HIDE DEF u
<1>2. /\ IsDesk(o) /\ Windows(o) = Documents \cup {w} /\ o.host[w] = h
      /\ \A v \in Documents : o.host[v] = desk.host[v]
      /\ Hosts(o) = Hosts(desk) \cup {h} /\ o.shown = desk.shown /\ o.welcome = welcome
  <2>1. /\ desk.documents \in Seq(Window) /\ IsInjective(desk.documents) /\ Documents = Windows(desk)
        /\ desk.host \in [Documents -> Host] /\ desk.shown \in [Host -> Documents \cup {None}]
        /\ \A g \in Host \ Hosts(desk) : desk.shown[g] = None
        /\ desk.front \in Hosts(desk) \cup {None}
        /\ Hosts(desk) = {desk.host[v] : v \in Documents}
    BY DeskParts, DeskMembers DEF Windows, Documents
  <2>2. /\ o.documents = Append(desk.documents, w) /\ o.host = With(desk.host, w, h)
        /\ o.shown = desk.shown /\ o.front = desk.front /\ o.welcome = welcome
        /\ o = [documents |-> o.documents, host |-> o.host, shown |-> o.shown,
                front |-> o.front, welcome |-> o.welcome]
    OBVIOUS
  <2> HIDE DEF o
  <2>3. o.documents \in Seq(Window) /\ Windows(o) = Documents \cup {w} /\ IsInjective(o.documents)
    <3>1. ToSet(desk.documents) = Documents
      BY DEF Documents
    <3> QED BY <2>1, <2>2, <3>1, AppendMembers DEF Windows
  <2>4. /\ o.host \in [Documents \cup {w} -> Host] /\ o.host[w] = h
        /\ \A v \in Documents : o.host[v] = desk.host[v]
    BY <2>1, <2>2 DEF With
  <2>5. Hosts(o) = Hosts(desk) \cup {h}
    <3>1. Hosts(o) = {o.host[v] : v \in Documents \cup {w}}
      BY <2>3 DEF Hosts, Windows
    <3>2. \A v \in Documents : o.host[v] \in Hosts(desk)
      BY <2>1, <2>4
    <3>3. \A g \in Hosts(desk) : \E v \in Documents : g = o.host[v]
      BY <2>1, <2>4
    <3> QED BY ONLY <2>4, <3>1, <3>2, <3>3
  <2>6. IsDesk(o)
    <3>1. o.welcome # None => Windows(o) = {w}
      BY <2>2, <2>3
    <3> QED BY <2>1, <2>2, <2>3, <2>4, <2>5, <3>1, DeskParts
  <2> QED BY <2>2, <2>3, <2>4, <2>5, <2>6
<1> HIDE DEF o
<1>3. /\ IsDesk(e) /\ e.documents = o.documents /\ e.host = o.host /\ e.welcome = o.welcome
      /\ \A g \in Host : e.shown[g] = o.shown[g] \/ (g = h /\ e.shown[g] = w)
      /\ quitting \/ o.shown[h] \notin AllBlocked \ {w} => e.shown[h] = w
  BY <1>2, ActivatingDesk DEF Activated
<1>4. Keeps(desk, e)
  <2>1. Windows(desk) = Documents /\ None \notin Documents /\ Hosts(desk) \subseteq Host
        /\ \A g \in Host \ Hosts(desk) : desk.shown[g] = None
    BY DeskParts, DeskMembers DEF Windows, Documents
  <2>2. h \notin Hosts(desk) => e.shown[h] = w
    BY <1>2, <1>3, <2>1 DEF AllBlocked
  <2> HIDE DEF e
  <2>3. Windows(e) = Windows(o) /\ Hosts(e) = Hosts(desk) \cup {h}
    BY <1>2, <1>3 DEF Windows, Hosts
  <2>4. ASSUME NEW g \in Hosts(e), g \in Hosts(desk) => Shows(desk, g)
        PROVE  e.shown[g] \in Windows(e) /\ e.host[e.shown[g]] = g
    <3>1. CASE e.shown[g] = w /\ g = h
      BY <1>2, <1>3, <2>3, <3>1
    <3>2. CASE ~(e.shown[g] = w /\ g = h)
      <4>1. g \in Hosts(desk) /\ g \in Host
        BY <2>1, <2>2, <2>3, <2>4, <3>2
      <4>2. desk.shown[g] \in Documents /\ desk.host[desk.shown[g]] = g
        BY <2>1, <2>4, <4>1 DEF Shows, Windows
      <4>3. e.shown[g] = desk.shown[g]
        BY <1>2, <1>3, <3>2, <4>1
      <4> QED BY <1>2, <1>3, <2>3, <4>2, <4>3
    <3> QED BY <3>1, <3>2
  <2> QED BY <2>4 DEF Keeps, Shows, Windows
<1>5. Windows(e) = Windows(o)
  BY <1>3 DEF Windows
<1> HIDE DEF e
<1>6. IsDesk(e) /\ Windows(e) = Documents \cup {w} /\ e.welcome = welcome
      /\ Keeps(desk, e)
  BY <1>2, <1>3, <1>4, <1>5
<1>7. e = Activated(u, w)
  BY <1>1 DEF e
<1> QED BY <1>6, <1>7 DEF u

LEMMA WelcomedDesk ==
  ASSUME IsDesk(desk), NEW w \in Documents
  PROVE  LET e == Activated([desk EXCEPT !.welcome = None], w)
         IN /\ IsDesk(e) /\ Windows(e) = Documents /\ e.welcome = None
            /\ Keeps(desk, e)
<1> DEFINE o == [desk EXCEPT !.welcome = None]
           e == Activated(o, w)
<1>1. /\ desk = [documents |-> desk.documents, host |-> desk.host, shown |-> desk.shown,
                 front |-> desk.front, welcome |-> desk.welcome]
      /\ desk.documents \in Seq(Window) /\ IsInjective(desk.documents)
      /\ Windows(desk) = Documents
      /\ desk.host \in [Documents -> Host] /\ desk.shown \in [Host -> Documents \cup {None}]
      /\ \A h \in Host \ Hosts(desk) : desk.shown[h] = None
      /\ desk.front \in Hosts(desk) \cup {None}
  BY DeskParts DEF Windows, Documents
<1>2. /\ o.documents = desk.documents /\ o.host = desk.host /\ o.shown = desk.shown
      /\ o.front = desk.front /\ o.welcome = None
      /\ o = [documents |-> o.documents, host |-> o.host, shown |-> o.shown,
              front |-> o.front, welcome |-> o.welcome]
  <2>1. DOMAIN o = {"documents", "host", "shown", "front", "welcome"}
        /\ o = [x \in DOMAIN o |-> o[x]]
    BY <1>1
  <2>2. /\ o.documents = desk.documents /\ o.host = desk.host /\ o.shown = desk.shown
        /\ o.front = desk.front /\ o.welcome = None
    BY <1>1
  <2> HIDE DEF o
  <2> QED BY <2>1, <2>2
<1> HIDE DEF o
<1>3. Windows(o) = Documents /\ Hosts(o) = Hosts(desk)
  BY <1>1, <1>2 DEF Windows, Hosts
<1>4. IsDesk(o)
  BY <1>1, <1>2, <1>3, DeskParts
<1>5. \A g \in Hosts(desk) : Shows(desk, g) => Shows(o, g)
  BY <1>1, <1>2, <1>3 DEF Shows
<1>6. /\ IsDesk(e) /\ e.documents = o.documents /\ e.welcome = o.welcome /\ e.host = o.host
  BY <1>3, <1>4, ActivatingDesk DEF Activated
<1>7. Keeps(o, e)
  BY <1>3, <1>4, ActivatingOwn DEF Activated
<1> HIDE DEF e
<1>8. Windows(e) = Documents /\ Hosts(e) = Hosts(o)
  BY <1>3, <1>6 DEF Windows, Hosts
<1>9. Keeps(desk, e)
  BY <1>3, <1>5, <1>7, <1>8 DEF Keeps
<1> QED BY <1>2, <1>6, <1>8, <1>9 DEF e, o

LEMMA DetachedDesk ==
  ASSUME IsDesk(desk), NEW w \in Documents, NEW v \in Documents \ {w}, desk.host[v] = desk.host[w]
  PROVE  LET e == Activated(Rehosted(Activated(desk, w), w, FreeHost(desk)), w)
         IN /\ IsDesk(e) /\ Windows(e) = Documents /\ e.welcome = None
            /\ \A g \in Hosts(e) :
                 /\ g \in Hosts(desk) => Shows(desk, g)
                 /\ g = desk.host[w] => w \notin AllBlocked
                 => Shows(e, g)
<1> DEFINE a == Activated(desk, w)
           h == FreeHost(desk)
           r == Rehosted(a, w, h)
           e == Activated(r, w)
<1>1. /\ Windows(desk) = Documents /\ Hosts(desk) = {desk.host[x] : x \in Documents}
      /\ desk.host \in [Documents -> Host] /\ desk.welcome = None /\ Documents \subseteq Window
      /\ None \notin Documents
  BY DeskParts, DeskMembers DEF Windows, Documents
<1>2. h \in Host \ Hosts(desk)
  <2>1. Hosts(desk) = {desk.host[x] : x \in Windows(desk) \ {w}}
    BY <1>1
  <2> QED BY <1>1, <2>1, FreeHostExists
<1> HIDE DEF h
<1>3. /\ IsDesk(a) /\ a.documents = desk.documents /\ a.host = desk.host /\ a.welcome = None
      /\ quitting \/ desk.shown[desk.host[w]] \notin AllBlocked \ {w} => a.shown[desk.host[w]] = w
      /\ Keeps(desk, a)
  BY <1>1, ActivatingDesk, ActivatingOwn DEF Activated
<1> HIDE DEF a
<1>4. Windows(a) = Documents /\ Hosts(a) = Hosts(desk)
  BY <1>1, <1>3 DEF Windows, Hosts
<1>5. /\ IsDesk(r) /\ r.documents = a.documents /\ r.host = [a.host EXCEPT ![w] = h]
      /\ r.welcome = None /\ r.shown[h] = None
      /\ \A g \in Hosts(r) \ {h} :
           /\ g \in Hosts(a)
           /\ Shows(a, g) /\ (g = a.host[w] => quitting \/ w \notin AllBlocked) => Shows(r, g)
  BY <1>2, <1>3, <1>4, RehostedDesk
<1> HIDE DEF r
<1>6. Windows(r) = Documents /\ r.host[w] = h /\ Hosts(r) \subseteq Host
  <2>1. r.host[w] = h
    BY <1>1, <1>3, <1>5
  <2> QED BY <1>4, <1>5, <2>1, DeskMembers DEF Windows
<1>7. /\ IsDesk(e) /\ e.documents = r.documents /\ e.host = r.host /\ e.welcome = None
      /\ \A g \in Host : e.shown[g] = r.shown[g] \/ (g = h /\ e.shown[g] = w)
      /\ quitting \/ r.shown[h] \notin AllBlocked \ {w} => e.shown[h] = w
  <2> DEFINE x == Activating(r, w, AllBlocked)
  <2>1. IsDesk(r) /\ w \in Windows(r)
    BY <1>5, <1>6
  <2>2. /\ IsDesk(x) /\ x.documents = r.documents /\ x.host = r.host /\ x.welcome = r.welcome
        /\ \A g \in Host : x.shown[g] = r.shown[g] \/ (g = r.host[w] /\ x.shown[g] = w)
        /\ quitting \/ r.shown[r.host[w]] \notin AllBlocked \ {w} => x.shown[r.host[w]] = w
    BY <2>1, ActivatingDesk
  <2>3. e = x
    BY DEF e, Activated
  <2> HIDE DEF x, e
  <2> QED BY <1>5, <1>6, <2>2, <2>3
<1> HIDE DEF e
<1>8. Windows(e) = Documents /\ Hosts(e) = Hosts(r)
  BY <1>6, <1>7 DEF Windows, Hosts
<1>9. e.shown[h] = w
  BY <1>1, <1>5, <1>7 DEF AllBlocked
<1>10. ASSUME NEW g \in Hosts(e), g \in Hosts(desk) => Shows(desk, g),
              g = desk.host[w] => w \notin AllBlocked
       PROVE  Shows(e, g)
  <2>1. CASE g = h
    BY <1>6, <1>7, <1>8, <1>9, <2>1 DEF Shows, Windows
  <2>2. CASE g # h
    <3>1. g \in Hosts(r) \ {h} /\ g \in Host
      BY <1>6, <1>8, <2>2
    <3>2. g \in Hosts(a) /\ Shows(a, g)
      BY <1>3, <1>4, <1>5, <1>10, <3>1 DEF Keeps
    <3>3. Shows(r, g)
      BY <1>3, <1>5, <1>10, <3>1, <3>2
    <3>4. e.shown[g] = r.shown[g]
      BY <1>7, <2>2, <3>1
    <3> QED BY <1>7, <3>3, <3>4 DEF Shows
  <2> QED BY <2>1, <2>2
<1> QED BY <1>7, <1>8, <1>10 DEF e, r, a, h

-----------------------------------------------------------------------------
(***************************************************************************)
(* The invariant.                                                          *)
(***************************************************************************)
ShellSound ==
  /\ running \in BOOLEAN /\ quitting \in BOOLEAN
  /\ quitting \/ Documents # {} => running

\* Who sees the welcome screen has nothing to save.
DeskSound ==
  /\ IsDesk(desk) /\ Documents \subseteq born /\ born \subseteq Window
  /\ map \in [Documents -> Document]
  /\ desk.welcome # None => \A w \in Documents : ~Unsaved(w)

\* While windows close for a quit and until they come back, tabs.ini has for each of
\* them, closed or not, a group with those that are or were in its host.
Tabs == [groups : Groups, active : Window \cup {None}]
Homes(f, g) == [w \in DOMAIN f \cup DOMAIN g |-> IF w \in DOMAIN f THEN f[w] ELSE g[w]]
TabsSound ==
  /\ tabs \in Tabs /\ Disjoint(tabs.groups)
  /\ DOMAIN left \subseteq born /\ left \in [DOMAIN left -> Host]
  /\ DOMAIN left \cap Documents = {}
  /\ quitting \/ (~running /\ left # <<>>) => Kept(tabs.groups, Homes(left, desk.host))

RegistryType ==
  registry \in [windows : SUBSET born, state : {"none", "confirming", "cancelled", "closing"},
                id : Nat, participants : Seq(Window), votes : SUBSET born]
DiskType ==
  /\ DOMAIN snapshots \subseteq born /\ snapshots \in [DOMAIN snapshots -> Document]
  /\ files \in [File -> Content]

\* What a window may rely on: a window without an entry in the registry, or without a
\* vote when a quit is decided, is one that its user closed; and its vote stands for a
\* snapshot as long as it is frozen.
WindowSound(w) ==
  /\ ui[w].removed => ui[w].leaving /\ ~ui[w].prompt
  /\ w \in closed \/ w \notin registry.windows => ui[w].removed
  /\ quitting /\ registry.state = "closing" => ui[w].removed \/ w \in registry.votes
  /\ w \in registry.votes /\ ui[w].frozen /\ Unsaved(w)
       => w \in DOMAIN snapshots /\ snapshots[w] = map[w]
PartsSound ==
  /\ ui \in [Documents -> Dialogs] /\ RegistryType /\ DiskType
  /\ closed \subseteq born /\ closed \cap DOMAIN snapshots = {}
  /\ \A w \in Documents : WindowSound(w)

Invariant == ShellSound /\ DeskSound /\ TabsSound /\ PartsSound

LEMMA InvariantParts ==
  ASSUME Invariant
  PROVE  TypeOK /\ VotedIsKept /\ ClosedStaysClosed
<1>1. TypeOK
  BY DEF Invariant, ShellSound, DeskSound, TabsSound, PartsSound, RegistryType, DiskType,
         Tabs, Groups, TypeOK
<1>2. VotedIsKept
  BY DEF Invariant, PartsSound, WindowSound, VotedIsKept
<1>3. ClosedStaysClosed
  BY DEF Invariant, PartsSound, WindowSound, ClosedStaysClosed
<1> QED BY <1>1, <1>2, <1>3

LEMMA InitInvariant == Init => Invariant
<1> SUFFICES ASSUME Init PROVE Invariant
  OBVIOUS
<1>1. PICK o \in Opening : desk = o.desk /\ map = o.map
  BY DEF Init
<1>2. /\ IsDesk(desk) /\ desk.welcome = None /\ map \in [Documents -> Document]
      /\ Documents \subseteq Window /\ born = Documents
  <2>1. IsDesk(desk) /\ desk.welcome = None /\ map \in [Documents -> Document]
    BY <1>1, OpeningAssumption DEF Documents
  <2>2. Documents \subseteq Window
    BY <2>1, DeskMembers DEF Windows, Documents
  <2> QED BY <2>1, <2>2 DEF Init
<1>3. ShellSound
  <2>1. Documents # {} => desk.documents # <<>>
    BY MembersOf, <1>2, DeskParts DEF Documents
  <2> QED BY <2>1 DEF Init, ShellSound
<1>4. DeskSound
  BY <1>2 DEF DeskSound
<1>5. TabsSound
  <2>1. tabs = [groups |-> <<>>, active |-> None] /\ left = <<>> /\ quitting = FALSE
    BY DEF Init
  <2>2. tabs \in Tabs /\ Disjoint(tabs.groups)
    BY <2>1 DEF Tabs, Groups, Disjoint
  <2> QED BY <2>1, <2>2 DEF TabsSound
<1>6. PartsSound
  <2>1. /\ ui = [w \in born |-> Idle] /\ snapshots = <<>> /\ files = OnDisk /\ closed = {}
        /\ registry = [windows |-> born, state |-> "none", id |-> 0, participants |-> <<>>,
                       votes |-> {}]
    BY DEF Init
  <2>2. ui \in [Documents -> Dialogs]
    BY <1>2, <2>1 DEF Idle, Dialogs
  <2>3. RegistryType /\ DiskType
    BY <1>2, <2>1, DesktopAssumption DEF RegistryType, DiskType
  <2>4. \A w \in Documents : WindowSound(w)
    BY <1>2, <2>1 DEF WindowSound, Idle
  <2> QED BY <2>1, <2>2, <2>3, <2>4 DEF PartsSound
<1> QED BY <1>3, <1>4, <1>5, <1>6 DEF Invariant

\* The windows move and nothing else of them changes; tabs.ini is written unless they quit.
Shifted ==
  /\ IsDesk(desk') /\ Documents' = Documents /\ (desk'.welcome # None => desk.welcome # None)
  /\ quitting => desk'.host = desk.host
TabsWritten ==
  tabs' = tabs \/ (~quitting /\ tabs' \in Tabs /\ Disjoint(tabs'.groups))

LEMMA SavedTabsWritten ==
  ASSUME Invariant, IsDesk(desk'), tabs' = SavedTabs(desk')
  PROVE  TabsWritten
<1>1. tabs.active \in Window \cup {None}
  BY DEF Invariant, TabsSound, Tabs
<1>2. TabFile(desk') \in Tabs /\ Disjoint(TabFile(desk').groups)
  BY <1>1, TabFileKeeps DEF Tabs
<1> QED BY <1>2 DEF SavedTabs, TabsWritten

LEMMA ShiftKeepsTabs ==
  ASSUME Invariant, running, Shifted, TabsWritten, UNCHANGED <<shell, born, left>>
  PROVE  ShellSound' /\ TabsSound'
<1>1. ShellSound'
  BY DEF Invariant, ShellSound, Shifted, shell
<1>2. TabsSound'
  <2>1. tabs' \in Tabs /\ Disjoint(tabs'.groups)
    BY DEF Invariant, TabsSound, TabsWritten
  <2>2. quitting => tabs' = tabs /\ desk'.host = desk.host
    BY DEF Shifted, TabsWritten
  <2>3. quitting => Kept(tabs'.groups, Homes(left', desk'.host))
    BY <2>2 DEF Invariant, TabsSound
  <2> QED BY <2>1, <2>3 DEF Invariant, TabsSound, Shifted, shell
<1> QED BY <1>1, <1>2

LEMMA ShiftKeepsDesk ==
  ASSUME Invariant, Shifted, UNCHANGED <<born, map>>
  PROVE  DeskSound'
BY DEF Invariant, DeskSound, Shifted, Unsaved

LEMMA FrameKeepsParts ==
  ASSUME Invariant, Documents' = Documents,
         UNCHANGED <<quitting, born, map, ui, registry, snapshots, files, closed>>
  PROVE  PartsSound'
<1>1. \A w \in Documents : WindowSound(w)'
  BY DEF Invariant, PartsSound, WindowSound, Unsaved
<1> QED BY <1>1 DEF Invariant, PartsSound, RegistryType, DiskType

LEMMA ShiftKeeps ==
  ASSUME Invariant, running, Shifted, TabsWritten,
         UNCHANGED <<shell, born, map, ui, registry, snapshots, files, closed, left>>
  PROVE  Invariant'
<1>1. ShellSound' /\ TabsSound'
  BY ShiftKeepsTabs
<1>2. DeskSound'
  BY ShiftKeepsDesk
<1>3. PartsSound'
  BY FrameKeepsParts DEF Shifted, shell
<1> QED BY <1>1, <1>2, <1>3 DEF Invariant

-----------------------------------------------------------------------------
(***************************************************************************)
(* Tabs are shown, moved, detached and merged.                             *)
(***************************************************************************)
Excused(h) == ~quitting /\ \E w \in Documents : desk.host[w] = h /\ Exempt(w)
HostsKept ==
  \A h \in Hosts(desk') : (h \in Hosts(desk) => Shows(desk, h)) => Shows(desk', h) \/ Excused(h)

LEMMA KeptHosts == Keeps(desk, desk') => HostsKept
BY DEF Keeps, HostsKept

LEMMA StillShifts ==
  ASSUME Invariant, UNCHANGED desk
  PROVE  Shifted /\ HostsKept
<1>1. Shifted
  BY DEF Invariant, DeskSound, Shifted, Documents
<1>2. desk' = desk
  OBVIOUS
<1>3. HostsKept
  BY <1>2 DEF HostsKept
<1> QED BY <1>1, <1>3

LEMMA ActivatedShifts ==
  ASSUME Invariant, NEW w \in Documents, NEW blocked, desk' = Activating(desk, w, blocked)
  PROVE  Shifted /\ HostsKept
<1>1. IsDesk(desk) /\ Windows(desk) = Documents /\ Windows(desk)' = Documents'
  BY DEF Invariant, DeskSound, Windows, Documents
<1>2. /\ IsDesk(desk') /\ desk'.documents = desk.documents /\ desk'.host = desk.host
      /\ desk'.welcome = desk.welcome
  BY <1>1, ActivatingDesk
<1>3. Documents' = Documents
  BY <1>2 DEF Documents
<1>4. Keeps(desk, desk')
  BY <1>1, ActivatingOwn
<1> QED BY <1>2, <1>3, <1>4, KeptHosts DEF Shifted

LEMMA ActiveHostOf ==
  ASSUME IsDesk(desk), ActiveShown # None
  PROVE  /\ ActiveHost(desk) \in Hosts(desk) /\ ActiveShown = desk.shown[ActiveHost(desk)]
         /\ desk.welcome \in {None, ActiveHost(desk)}
<1>1. /\ desk.documents \in Seq(Window) /\ Windows(desk) = ToSet(desk.documents)
      /\ Hosts(desk) = {desk.host[w] : w \in Windows(desk)}
      /\ desk.front \in Hosts(desk) \cup {None} /\ desk.welcome \in Hosts(desk) \cup {None}
      /\ desk.welcome # None => \E w \in Windows(desk) : Windows(desk) = {w}
  BY DeskParts, DeskMembers DEF Windows
<1>2. ActiveHost(desk) # None /\ ActiveShown = desk.shown[ActiveHost(desk)]
  BY DEF ActiveShown
<1>3. ActiveHost(desk) \in Hosts(desk)
  <2>1. desk.documents # <<>> => Last(desk.documents) \in Windows(desk)
    BY <1>1, MembersOf
  <2> QED BY <1>1, <1>2, <2>1 DEF ActiveHost
<1>4. desk.welcome # None => desk.welcome = ActiveHost(desk)
  BY <1>1, <1>3
<1> QED BY <1>2, <1>3, <1>4

LEMMA SwitchTabShifts ==
  ASSUME Invariant, SwitchTab
  PROVE  Shifted /\ HostsKept
<1>1. PICK w \in Documents : desk' = Activated(desk, w)
  BY DEF SwitchTab, Rearranged
<1> QED BY <1>1, ActivatedShifts DEF Activated

LEMMA MergeTabsShifts ==
  ASSUME Invariant, MergeTabs
  PROVE  Shifted /\ HostsKept
<1> DEFINE h == ActiveHost(desk)
<1>1. IsDesk(desk) /\ desk' = Together(h) /\ ~quitting /\ ActiveShown # None
  BY DEF Invariant, DeskSound, MergeTabs, Rearranged, TabCommand
<1>2. h \in Hosts(desk) /\ desk.welcome \in {None, h}
  BY <1>1, ActiveHostOf
<1> HIDE DEF h
<1>3. /\ IsDesk(desk') /\ Windows(desk') = Documents /\ desk'.welcome = desk.welcome
      /\ Keeps(desk, desk')
  BY <1>1, <1>2, TogetherDesk
<1>4. Documents' = Documents
  BY <1>3 DEF Windows, Documents
<1> QED BY <1>1, <1>3, <1>4, KeptHosts DEF Shifted

LEMMA DetachTabShifts ==
  ASSUME Invariant, DetachTab
  PROVE  Shifted /\ HostsKept
<1> DEFINE t == TabsOf(desk, ActiveHost(desk))
<1>1. /\ IsDesk(desk) /\ Windows(desk) = Documents /\ ~quitting /\ ActiveShown # None
      /\ ActiveShown \notin AllBlocked /\ Len(t) > 1
  BY DEF Invariant, DeskSound, DetachTab, TabCommand, Windows, Documents
<1>2. PICK w \in ToSet(t) : desk' = Activated(Rehosted(Activated(desk, w), w, FreeHost(desk)), w)
  BY DEF DetachTab, Rearranged
<1>3. /\ t \in Seq(Window) /\ IsInjective(t)
      /\ ToSet(t) = {v \in Documents : desk.host[v] = ActiveHost(desk)}
  BY <1>1, TabsMembers
<1>4. ActiveShown = desk.shown[ActiveHost(desk)]
  BY <1>1, ActiveHostOf
<1> HIDE DEF t
<1>5. PICK v \in ToSet(t) : v # w
  <2>1. ToSet(t) = {t[k] : k \in 1 .. Len(t)} /\ DOMAIN t = 1 .. Len(t) /\ Len(t) \in Nat
    BY <1>3, MembersOf, LenProperties
  <2>2. 1 \in 1 .. Len(t) /\ 2 \in 1 .. Len(t) /\ t[1] # t[2]
    BY <1>1, <1>3, <2>1 DEF IsInjective
  <2> QED BY <2>1, <2>2
<1>6. /\ w \in Documents /\ v \in Documents \ {w} /\ desk.host[v] = desk.host[w]
      /\ desk.host[w] = ActiveHost(desk)
  BY <1>3, <1>5
<1>7. /\ IsDesk(desk') /\ Windows(desk') = Documents /\ desk'.welcome = None
      /\ \A g \in Hosts(desk') :
           /\ g \in Hosts(desk) => Shows(desk, g)
           /\ g = desk.host[w] => w \notin AllBlocked
           => Shows(desk', g)
  BY <1>1, <1>2, <1>6, DetachedDesk
<1>8. ASSUME w \in AllBlocked PROVE Exempt(w)
  <2>1. desk.shown[desk.host[w]] # w
    BY <1>1, <1>4, <1>6, <1>8
  <2> QED BY <1>8, <2>1 DEF AllBlocked, Exempt
<1>9. Documents' = Documents
  BY <1>7 DEF Windows, Documents
<1>10. HostsKept
  BY <1>1, <1>6, <1>7, <1>8 DEF HostsKept, Excused
<1> QED BY <1>1, <1>7, <1>9, <1>10 DEF Shifted

LEMMA MoveTabShifts ==
  ASSUME Invariant, MoveTab
  PROVE  Shifted /\ HostsKept
<1>1. IsDesk(desk)
  BY DEF Invariant, DeskSound
<1>2. PICK w \in Documents, before \in Documents :
        /\ w # before
        /\ LET rest == Only(desk.documents, Documents \ {w})
               after == Position(desk.documents, w) < Position(desk.documents, before)
               at == Position(rest, before) + (IF after THEN 1 ELSE 0)
           IN desk' = [desk EXCEPT !.documents = InsertAt(rest, at, w)]
  BY DEF MoveTab, Rearranged
<1> DEFINE rest == Only(desk.documents, Documents \ {w})
           after == Position(desk.documents, w) < Position(desk.documents, before)
           later == IF after THEN 1 ELSE 0
           s == InsertAt(rest, Position(rest, before) + later, w)
<1>3. desk' = [desk EXCEPT !.documents = s] /\ later \in {0, 1} /\ before \in Documents \ {w}
  BY <1>2
<1> HIDE DEF later
<1>4. s \in Seq(Window) /\ IsInjective(s) /\ ToSet(s) = Documents
  BY <1>1, <1>3, MovedOrder
<1> HIDE DEF s
<1>5. /\ IsDesk(desk') /\ Windows(desk') = Documents /\ desk'.host = desk.host
      /\ desk'.welcome = desk.welcome /\ Keeps(desk, desk')
  BY <1>1, <1>3, <1>4, ReorderedDesk
<1>6. Documents' = Documents
  BY <1>5 DEF Windows, Documents
<1> QED BY <1>5, <1>6, KeptHosts DEF Shifted

LEMMA RearrangedKeeps ==
  ASSUME Invariant, SwitchTab \/ MergeTabs \/ DetachTab \/ MoveTab
  PROVE  Invariant' /\ HostsKept
<1>1. Shifted /\ HostsKept
  BY SwitchTabShifts, MergeTabsShifts, DetachTabShifts, MoveTabShifts
<1>2. /\ running /\ tabs' = SavedTabs(desk')
      /\ UNCHANGED <<shell, born, map, ui, registry, snapshots, files, closed, left>>
  BY DEF SwitchTab, MergeTabs, DetachTab, MoveTab, TabCommand, Rearranged, history
<1>3. TabsWritten
  BY <1>1, <1>2, SavedTabsWritten DEF Shifted
<1> QED BY <1>1, <1>2, <1>3, ShiftKeeps

LEMMA SaveTabsKeeps ==
  ASSUME Invariant, SaveTabs
  PROVE  Invariant' /\ HostsKept
<1>1. /\ running /\ UNCHANGED <<shell, born, map, ui, registry, snapshots, files, closed, left>>
      /\ tabs' = SavedTabs(desk') /\ UNCHANGED desk
  BY DEF SaveTabs, history
<1>2. Shifted /\ HostsKept
  BY <1>1, StillShifts
<1>3. TabsWritten
  BY <1>1, <1>2, SavedTabsWritten DEF Shifted
<1> QED BY <1>1, <1>2, <1>3, ShiftKeeps

LEMMA ActivateKeeps ==
  ASSUME Invariant, NEW w \in Documents, Activate(w)
  PROVE  Invariant' /\ HostsKept
<1>1. /\ running /\ UNCHANGED <<shell, born, map, ui, registry, snapshots, files, closed, left>>
      /\ tabs' = tabs /\ desk' = Activating(desk, w, AllBlocked)
  BY DEF Activate, Activated, Invariant, ShellSound, history, disk
<1>2. Shifted /\ HostsKept
  BY <1>1, ActivatedShifts
<1> QED BY <1>1, <1>2, ShiftKeeps DEF TabsWritten

-----------------------------------------------------------------------------
(***************************************************************************)
(* The process begins, and windows open.                                   *)
(***************************************************************************)
\* The registry may take windows in, of those that the process has.
Enrolls ==
  /\ RegistryType' /\ registry'.votes = registry.votes /\ registry'.state = registry.state
  /\ registry.windows \cap Documents \subseteq registry'.windows

LEMMA EnrolledEnrolls ==
  ASSUME Invariant, born \subseteq born', NEW w \in born', registry' = Enrolled(w)
  PROVE  Enrolls /\ w \in registry'.windows
<1>1. RegistryType
  BY DEF Invariant, PartsSound
<1>2. /\ registry'.windows = Registered \cup {w} /\ registry'.votes = registry.votes
      /\ registry'.state = registry.state
  BY <1>1 DEF RegistryType, Enrolled
<1>3. Registered \subseteq born
  BY <1>1 DEF RegistryType, Registered
<1>4. RegistryType'
  BY <1>1, <1>3 DEF RegistryType, Enrolled
<1> QED BY <1>2, <1>4 DEF Enrolls, Registered

LEMMA RecordedEnrolls ==
  ASSUME Invariant, UNCHANGED born, NEW w \in Documents, NEW m, registry' = Recorded(w, m)
  PROVE  Enrolls
<1>1. RegistryType /\ w \in born'
  BY DEF Invariant, PartsSound, DeskSound
<1>2. CASE registry' = registry
  BY <1>1, <1>2 DEF Enrolls, RegistryType
<1>3. CASE registry' = Enrolled(w)
  BY <1>1, <1>3, EnrolledEnrolls
<1> QED BY <1>2, <1>3 DEF Recorded

LEMMA OpenedKeeps ==
  ASSUME Invariant, NEW m \in Document, m.text = m.base, NEW h \in Host, NEW welcome,
         welcome = None \/ (welcome = h /\ Documents = {}), Opened(m, h, welcome),
         running' = TRUE, ~quitting, tabs' = tabs \/ tabs' = SavedTabs(desk'),
         left' = left \/ left' = <<>>, UNCHANGED <<quitting, snapshots, files, closed>>
  PROVE  Invariant' /\ HostsKept
<1>1. PICK w \in Fresh :
        /\ desk' = Activated([desk EXCEPT !.documents = Append(@, w), !.host = With(@, w, h),
                                          !.welcome = welcome], w)
        /\ map' = With(map, w, m) /\ born' = born \cup {w} /\ ui' = With(ui, w, Idle)
        /\ registry' = Enrolled(w)
  BY DEF Opened
<1>2. /\ IsDesk(desk) /\ Documents \subseteq born /\ born \subseteq Window
      /\ w \in Window \ born
  BY DEF Invariant, DeskSound, Fresh
<1>3. /\ IsDesk(desk') /\ Windows(desk') = Documents \cup {w} /\ desk'.welcome = welcome
      /\ Keeps(desk, desk')
  BY <1>1, <1>2, OpenedDesk, ZenonT(40)
<1>4. Documents' = Documents \cup {w}
  BY <1>3 DEF Windows, Documents
<1>5. /\ map' \in [Documents' -> Document] /\ map'[w] = m
      /\ \A v \in Documents : map'[v] = map[v]
  BY <1>1, <1>2, <1>4 DEF Invariant, DeskSound, With
<1>6. /\ ui' \in [Documents' -> Dialogs] /\ ui'[w] = Idle
      /\ \A v \in Documents : ui'[v] = ui[v]
  <2>1. Idle \in Dialogs /\ ui \in [Documents -> Dialogs]
    BY DEF Invariant, PartsSound, Idle, Dialogs
  <2> HIDE DEF Idle, Dialogs
  <2> QED BY <1>1, <1>2, <1>4, <2>1 DEF With
<1>7. Enrolls /\ w \in registry'.windows
  BY <1>1, EnrolledEnrolls
<1>8. ShellSound'
  BY DEF Invariant, ShellSound
<1>9. DeskSound'
  <2>1. desk'.welcome # None => Documents' = {w}
    BY <1>3, <1>4
  <2> QED BY <1>1, <1>2, <1>3, <1>4, <1>5, <2>1 DEF DeskSound, Unsaved
<1>10. TabsSound'
  <2>1. TabsWritten
    BY <1>3, SavedTabsWritten DEF TabsWritten
  <2>2. tabs' \in Tabs /\ Disjoint(tabs'.groups)
    BY <2>1 DEF Invariant, TabsSound, TabsWritten
  <2>3. /\ DOMAIN left' \subseteq born' /\ left' \in [DOMAIN left' -> Host]
        /\ DOMAIN left' \cap Documents' = {}
    <3>1. CASE left' = left
      BY <1>1, <1>2, <1>4, <3>1 DEF Invariant, TabsSound
    <3>2. CASE left' = <<>>
      BY <3>2
    <3> QED BY <3>1, <3>2
  <2> QED BY <2>2, <2>3 DEF TabsSound
<1>11. PartsSound'
  <2>1. DiskType' /\ closed' \subseteq born' /\ closed' \cap DOMAIN snapshots' = {}
    BY <1>1 DEF Invariant, PartsSound, DiskType
  <2>2. ASSUME NEW v \in Documents PROVE WindowSound(v)'
    BY <1>5, <1>6, <1>7, <2>2 DEF Invariant, PartsSound, WindowSound, Enrolls, Unsaved
  <2>3. WindowSound(w)'
    BY <1>2, <1>6, <1>7 DEF Invariant, PartsSound, WindowSound, Idle
  <2> QED BY <1>4, <1>6, <1>7, <2>1, <2>2, <2>3 DEF PartsSound, Enrolls
<1> QED BY <1>3, <1>8, <1>9, <1>10, <1>11, KeptHosts DEF Invariant

LEMMA WelcomedKeeps ==
  ASSUME Invariant, NEW m \in Document, m.text = m.base, Welcomed(m), ~quitting,
         UNCHANGED <<shell, tabs, left, snapshots, files, closed>>
  PROVE  Invariant' /\ HostsKept
<1>1. PICK w \in Documents :
        /\ map' = [map EXCEPT ![w] = m]
        /\ desk' = Activated([desk EXCEPT !.welcome = None], w)
        /\ registry' = Recorded(w, m)
        /\ UNCHANGED <<ui, born>>
  BY DEF Welcomed
<1>2. IsDesk(desk) /\ running
  BY DEF Invariant, DeskSound, ShellSound
<1>3. /\ IsDesk(desk') /\ Windows(desk') = Documents /\ desk'.welcome = None
      /\ Keeps(desk, desk')
  BY <1>1, <1>2, WelcomedDesk
<1>4. Documents' = Documents
  BY <1>3 DEF Windows, Documents
<1>5. map' \in [Documents' -> Document] /\ map'[w] = m
      /\ \A v \in Documents \ {w} : map'[v] = map[v]
  BY <1>1, <1>4 DEF Invariant, DeskSound
<1>6. Enrolls
  BY <1>1, RecordedEnrolls
<1>7. Shifted /\ TabsWritten
  BY <1>3, <1>4 DEF Shifted, TabsWritten
<1>8. ShellSound' /\ TabsSound'
  BY <1>1, <1>2, <1>7, ShiftKeepsTabs
<1>9. DeskSound'
  BY <1>1, <1>3, <1>4, <1>5 DEF Invariant, DeskSound
<1>10. PartsSound'
  <2>1. DiskType' /\ closed' \subseteq born' /\ closed' \cap DOMAIN snapshots' = {}
    BY <1>1 DEF Invariant, PartsSound, DiskType
  <2>2. ASSUME NEW v \in Documents \ {w} PROVE WindowSound(v)'
    BY <1>1, <1>5, <1>6, <2>2 DEF Invariant, PartsSound, WindowSound, Enrolls, Unsaved, shell
  <2>3. WindowSound(w)'
    BY <1>1, <1>5, <1>6 DEF Invariant, PartsSound, WindowSound, Enrolls, Unsaved, shell
  <2>4. \A v \in Documents' : WindowSound(v)'
    BY <1>4, <2>2, <2>3
  <2> QED BY <1>1, <1>4, <1>6, <2>1, <2>4 DEF Invariant, PartsSound, Enrolls
<1> QED BY <1>3, <1>8, <1>9, <1>10, KeptHosts DEF Invariant

LEMMA FreeToOpen ==
  ASSUME Invariant, NEW m, NEW welcome, NEW h, Opened(m, h, welcome)
  PROVE  FreeHost(desk) \in Host
<1>1. PICK w : w \in Fresh
  BY DEF Opened
<1>2. /\ IsDesk(desk) /\ Windows(desk) = Documents /\ w \in Window /\ w \notin Documents
  BY <1>1 DEF Invariant, DeskSound, Fresh, Windows, Documents
<1>3. Hosts(desk) = {desk.host[v] : v \in Windows(desk) \ {w}}
  BY <1>2 DEF Hosts, Windows
<1> QED BY <1>2, <1>3, FreeHostExists

LEMMA BlankDocument == Blank \in Document /\ Blank.text = Blank.base
BY DesktopAssumption DEF Blank, Document

LEMMA ReadDocument ==
  ASSUME Invariant, NEW f \in File
  PROVE  Read(f) \in Document /\ Read(f).text = Read(f).base
BY DEF Invariant, PartsSound, DiskType, Read, Document

LEMMA NoDocuments ==
  ASSUME Invariant, ~running \/ desk.documents = <<>>
  PROVE  Documents = {}
<1>1. ToSet(<<>>) = {}
  BY DEF ToSet
<1> QED BY <1>1 DEF Invariant, ShellSound, Documents

LEMMA BeginAnewKeeps ==
  ASSUME Invariant, StartHome \/ StartWith
  PROVE  Invariant' /\ HostsKept
<1>1. /\ ~running /\ running' = TRUE /\ ~quitting /\ left' = <<>> /\ tabs' = tabs
      /\ UNCHANGED <<quitting, snapshots, files, closed>>
  BY DEF Invariant, ShellSound, StartHome, StartWith, Begin, disk
<1>2. CASE StartHome
  <2>1. Opened(Blank, FreeHost(desk), FreeHost(desk))
    BY <1>2 DEF StartHome
  <2>2. FreeHost(desk) \in Host /\ Documents = {}
    BY <1>1, <2>1, FreeToOpen, NoDocuments
  <2> QED BY <1>1, <2>1, <2>2, BlankDocument, OpenedKeeps
<1>3. CASE StartWith
  <2>1. PICK m \in {Blank} \cup {Read(f) : f \in File} : Opened(m, FreeHost(desk), None)
    BY <1>3 DEF StartWith
  <2>2. m \in Document /\ m.text = m.base
    BY <2>1, BlankDocument, ReadDocument
  <2>3. FreeHost(desk) \in Host
    BY <2>1, FreeToOpen
  <2> QED BY <1>1, <2>1, <2>2, <2>3, OpenedKeeps
<1> QED BY <1>2, <1>3

LEMMA OpenAnewKeeps ==
  ASSUME Invariant, running, ~quitting, NEW m \in Document, m.text = m.base,
         Opened(m, FreeHost(desk), None), UNCHANGED <<shell, disk, history>>
  PROVE  Invariant' /\ HostsKept
<1>1. FreeHost(desk) \in Host
  BY FreeToOpen
<1>2. running' = TRUE /\ tabs' = tabs /\ left' = left
      /\ UNCHANGED <<quitting, snapshots, files, closed>>
  BY DEF Invariant, ShellSound, shell, disk, history
<1> QED BY <1>1, <1>2, OpenedKeeps

LEMMA OpenKeeps ==
  ASSUME Invariant, Open
  PROVE  Invariant' /\ HostsKept
<1>1. running /\ ~quitting /\ UNCHANGED <<shell, disk, history>>
  BY DEF Open
<1>2. UNCHANGED <<shell, tabs, left, snapshots, files, closed>>
  BY <1>1 DEF shell, disk, history
<1>3. PICK f \in File :
        \/ \E w \in Documents : desk' = Activated(desk, w) /\ UNCHANGED <<map, ui, registry, born>>
        \/ Welcomed(Read(f))
        \/ Opened(Read(f), FreeHost(desk), None)
  BY DEF Open
<1>4. CASE \E w \in Documents : desk' = Activated(desk, w) /\ UNCHANGED <<map, ui, registry, born>>
  <2>1. Shifted /\ HostsKept
    BY <1>4, ActivatedShifts DEF Activated
  <2> QED BY <1>1, <1>2, <1>4, <2>1, ShiftKeeps DEF TabsWritten
<1>5. CASE Welcomed(Read(f))
  BY <1>1, <1>2, <1>5, ReadDocument, WelcomedKeeps
<1>6. CASE Opened(Read(f), FreeHost(desk), None)
  BY <1>1, <1>6, ReadDocument, OpenAnewKeeps
<1> QED BY <1>3, <1>4, <1>5, <1>6

LEMMA OpenNewKeeps ==
  ASSUME Invariant, OpenNew
  PROVE  Invariant' /\ HostsKept
<1>1. running /\ ~quitting /\ UNCHANGED <<shell, disk, history>>
  BY DEF OpenNew
<1>2. UNCHANGED <<shell, tabs, left, snapshots, files, closed>>
  BY <1>1 DEF shell, disk, history
<1>3. CASE Welcomed(Blank)
  BY <1>1, <1>2, <1>3, BlankDocument, WelcomedKeeps
<1>4. CASE Opened(Blank, FreeHost(desk), None)
  BY <1>1, <1>4, BlankDocument, OpenAnewKeeps
<1> QED BY <1>3, <1>4 DEF OpenNew

LEMMA ReopenKeeps ==
  ASSUME Invariant, Reopen
  PROVE  Invariant' /\ HostsKept
<1>1. /\ ~quitting /\ Documents = {} /\ Opened(Blank, FreeHost(desk), FreeHost(desk))
      /\ running' = TRUE /\ tabs' = tabs /\ left' = left
      /\ UNCHANGED <<quitting, snapshots, files, closed>>
  BY NoDocuments DEF Invariant, ShellSound, Reopen, shell, disk, history
<1>2. FreeHost(desk) \in Host
  BY <1>1, FreeToOpen
<1> QED BY <1>1, <1>2, BlankDocument, OpenedKeeps

LEMMA NewTabKeeps ==
  ASSUME Invariant, NewTab
  PROVE  Invariant' /\ HostsKept
<1>1. /\ ~quitting /\ Opened(Blank, ActiveHost(desk), None) /\ ActiveShown # None
      /\ running' = TRUE /\ tabs' = SavedTabs(desk') /\ left' = left
      /\ UNCHANGED <<quitting, snapshots, files, closed>>
  BY DEF Invariant, ShellSound, NewTab, TabCommand, shell, history
<1>2. ActiveHost(desk) \in Host
  BY <1>1, ActiveHostOf, DeskMembers DEF Invariant, DeskSound
<1> QED BY <1>1, <1>2, BlankDocument, OpenedKeeps

\* Who comes back was not closed, is registered, and is with the windows it was with.
TabsComeBack ==
  \A v, w \in Documents' \cap DOMAIN left : desk'.host[v] = desk'.host[w] <=> left[v] = left[w]

LEMMA StartKeeps ==
  ASSUME Invariant, Start
  PROVE  Invariant' /\ HostsKept /\ TabsComeBack
<1> DEFINE set == ToSet(Unfinished)
<1>1. /\ ~running /\ running' = TRUE /\ quitting' = FALSE /\ left' = <<>> /\ Unfinished # <<>>
      /\ desk' = Restored /\ map' = [w \in set |-> snapshots[w]] /\ ui' = [w \in set |-> Idle]
      /\ registry' = [registry EXCEPT !.windows = set]
      /\ UNCHANGED <<tabs, born, snapshots, files, closed>>
  BY DEF Invariant, ShellSound, Start, Begin, disk
<1>2. DOMAIN snapshots \subseteq born /\ born \subseteq Window
      /\ snapshots \in [DOMAIN snapshots -> Document]
  BY DEF Invariant, DeskSound, PartsSound, DiskType
<1>3. set = {w \in DOMAIN snapshots : snapshots[w].text # snapshots[w].base} /\ set \subseteq born
  BY <1>2, UnfinishedMembers
<1>4. tabs.groups \in Groups /\ Disjoint(tabs.groups)
  BY DEF Invariant, TabsSound, Tabs
<1>5. /\ IsDesk(desk') /\ Windows(desk') = set /\ Keeps(desk, desk') /\ desk'.welcome = None
      /\ \A v, w \in set : \A j, k \in DOMAIN tabs.groups :
           v \in ToSet(tabs.groups[j].paths) /\ w \in ToSet(tabs.groups[k].paths)
             => (desk'.host[v] = desk'.host[w] <=> j = k)
  BY <1>1, <1>2, <1>4, RestoredDesk
<1>6. Documents' = set
  BY <1>5 DEF Windows, Documents
<1> HIDE DEF set
<1>7. ShellSound'
  BY <1>1 DEF ShellSound
<1>8. DeskSound'
  BY <1>1, <1>2, <1>3, <1>5, <1>6 DEF DeskSound
<1>9. TabsSound'
  BY <1>1 DEF Invariant, TabsSound
<1>10. PartsSound'
  <2>1. Idle \in Dialogs
    BY DEF Idle, Dialogs
  <2>2. ui' \in [Documents' -> Dialogs]
    BY <1>1, <1>6, <2>1
  <2>3. RegistryType' /\ registry'.windows = set
    BY <1>1, <1>3 DEF Invariant, PartsSound, RegistryType
  <2>4. ASSUME NEW w \in set PROVE WindowSound(w)'
    <3>1. ui'[w] = Idle /\ w \notin closed /\ w \in registry'.windows
      BY <1>1, <1>3, <2>3 DEF Invariant, PartsSound
    <3> QED BY <1>1, <3>1 DEF WindowSound, Idle
  <2>5. DiskType' /\ closed' \subseteq born' /\ closed' \cap DOMAIN snapshots' = {}
    BY <1>1 DEF Invariant, PartsSound, DiskType
  <2> QED BY <1>6, <2>2, <2>3, <2>4, <2>5 DEF PartsSound
<1>11. TabsComeBack
  <2> SUFFICES ASSUME NEW v \in set \cap DOMAIN left, NEW w \in set \cap DOMAIN left
               PROVE  desk'.host[v] = desk'.host[w] <=> left[v] = left[w]
    BY <1>6 DEF TabsComeBack
  <2> DEFINE homes == Homes(left, desk.host)
  <2>1. Kept(tabs.groups, homes)
    BY <1>1 DEF Invariant, TabsSound
  <2>2. v \in DOMAIN homes /\ w \in DOMAIN homes /\ homes[v] = left[v] /\ homes[w] = left[w]
    BY DEF Homes
  <2> HIDE DEF homes
  <2>3. PICK j \in DOMAIN tabs.groups : v \in ToSet(tabs.groups[j].paths)
    BY <2>1, <2>2 DEF Kept
  <2>4. PICK k \in DOMAIN tabs.groups : w \in ToSet(tabs.groups[k].paths)
    BY <2>1, <2>2 DEF Kept
  <2>5. left[v] = left[w] <=> w \in ToSet(tabs.groups[j].paths)
    BY <2>1, <2>2, <2>3 DEF Kept
  <2>6. w \in ToSet(tabs.groups[j].paths) <=> j = k
    BY <1>4, <2>3, <2>4 DEF Disjoint
  <2>7. desk'.host[v] = desk'.host[w] <=> j = k
    BY <1>5, <2>3, <2>4
  <2> QED BY <2>5, <2>6, <2>7
<1> QED BY <1>5, <1>7, <1>8, <1>9, <1>10, <1>11, KeptHosts DEF Invariant

-----------------------------------------------------------------------------
(***************************************************************************)
(* Documents are edited and saved, and snapshots taken.                    *)
(***************************************************************************)
\* A step of one window that leaves all windows where they are.
LEMMA StayKeeps ==
  ASSUME Invariant, NEW w \in Documents, UNCHANGED <<shell, desk, tabs, born, left>>,
         map' \in [Documents -> Document], \A v \in Documents \ {w} : map'[v] = map[v],
         desk.welcome = None \/ ~Unsaved(w)', PartsSound'
  PROVE  Invariant' /\ HostsKept
<1>1. Shifted /\ HostsKept /\ running /\ TabsWritten
  BY StillShifts DEF Invariant, ShellSound, TabsWritten
<1>2. ShellSound' /\ TabsSound'
  BY <1>1, ShiftKeepsTabs
<1>3. DeskSound'
  <2>1. desk.welcome # None => Documents = {w}
    BY DeskParts DEF Invariant, DeskSound, Windows, Documents
  <2> QED BY <2>1 DEF Invariant, DeskSound, Documents, Unsaved
<1> QED BY <1>1, <1>2, <1>3 DEF Invariant

LEMMA EditKeeps ==
  ASSUME Invariant, NEW w \in Documents, Edit(w)
  PROVE  Invariant' /\ HostsKept
<1>1. PICK x \in Content : map' = [map EXCEPT ![w].text = x]
  BY DEF Edit
<1>2. UNCHANGED <<quitting, shell, desk, tabs, born, left, ui, registry, snapshots, files, closed>>
      /\ desk.welcome # desk.host[w] /\ ~ui[w].frozen
  BY DEF Edit, Usable, shell, disk, history
<1>3. /\ map' \in [Documents -> Document] /\ \A v \in Documents \ {w} : map'[v] = map[v]
  BY <1>1 DEF Invariant, DeskSound, Document
<1>4. desk.welcome = None
  <2>1. /\ desk.welcome \in Hosts(desk) \cup {None} /\ Hosts(desk) = {desk.host[v] : v \in Documents}
        /\ desk.welcome # None => \E v \in Documents : Documents = {v}
    BY DeskParts, DeskMembers DEF Invariant, DeskSound, Windows, Documents
  <2> QED BY <1>2, <2>1
<1>5. Documents' = Documents
  BY <1>2 DEF Documents
<1>6. PartsSound'
  <2>1. ASSUME NEW v \in Documents PROVE WindowSound(v)'
    <3>1. CASE v = w
      BY <1>2, <3>1 DEF Invariant, PartsSound, WindowSound
    <3>2. CASE v # w
      BY <1>2, <1>3, <3>2 DEF Invariant, PartsSound, WindowSound, Unsaved
    <3> QED BY <3>1, <3>2
  <2> QED BY <1>2, <1>5, <2>1 DEF Invariant, PartsSound, RegistryType, DiskType
<1> QED BY <1>2, <1>3, <1>4, <1>6, StayKeeps

LEMMA DialogKeeps ==
  ASSUME Invariant, NEW w \in Documents, OpenDialog(w) \/ EndDialog(w)
  PROVE  Invariant' /\ HostsKept
<1>1. UNCHANGED <<quitting, shell, desk, map, tabs, born, left, registry, snapshots, files, closed>>
  BY DEF OpenDialog, EndDialog, shell, disk, history
<1>2. PICK kind \in {"none", "popup", "entry"} : ui' = [ui EXCEPT ![w].dialog = kind]
  BY DEF OpenDialog, EndDialog
<1>3. /\ map' \in [Documents -> Document] /\ \A v \in Documents \ {w} : map'[v] = map[v]
      /\ Documents' = Documents
  BY <1>1 DEF Invariant, DeskSound, Documents
<1>4. /\ ui' \in [Documents -> Dialogs] /\ \A v \in Documents \ {w} : ui'[v] = ui[v]
      /\ ui'[w].removed = ui[w].removed /\ ui'[w].leaving = ui[w].leaving
      /\ ui'[w].frozen = ui[w].frozen /\ ui'[w].prompt = ui[w].prompt
  <2> DEFINE d == [ui[w] EXCEPT !.dialog = kind]
  <2>1. ui \in [Documents -> Dialogs] /\ ui[w] \in Dialogs
    BY DEF Invariant, PartsSound
  <2>2. /\ d \in Dialogs /\ d.removed = ui[w].removed /\ d.leaving = ui[w].leaving
        /\ d.frozen = ui[w].frozen /\ d.prompt = ui[w].prompt
    BY <2>1 DEF Dialogs
  <2>3. ui' = [ui EXCEPT ![w] = d]
    BY <1>2, <2>1
  <2> HIDE DEF d
  <2> QED BY <2>1, <2>2, <2>3
<1>5. PartsSound'
  <2>1. ASSUME NEW v \in Documents PROVE WindowSound(v)'
    BY <1>1, <1>4 DEF Invariant, PartsSound, WindowSound, Unsaved
  <2> QED BY <1>1, <1>3, <1>4, <2>1 DEF Invariant, PartsSound, RegistryType, DiskType
<1>6. desk.welcome = None \/ ~Unsaved(w)'
  BY <1>1 DEF Invariant, DeskSound, Unsaved
<1> QED BY <1>1, <1>3, <1>5, <1>6, StayKeeps

LEMMA CheckpointKeeps ==
  ASSUME Invariant, NEW w \in Documents, Checkpoint(w)
  PROVE  Invariant' /\ HostsKept
<1>1. UNCHANGED <<quitting, shell, desk, tabs, born, left, map, ui, registry, files, closed>>
      /\ ~ui[w].removed /\ snapshots' = With(snapshots, w, map[w])
  BY DEF Checkpoint, shell, history
<1>2. /\ map' \in [Documents -> Document] /\ \A v \in Documents \ {w} : map'[v] = map[v]
      /\ w \in born
  BY <1>1 DEF Invariant, DeskSound
<1>3. Documents' = Documents
  BY <1>1 DEF Documents
<1>4. /\ DOMAIN snapshots' = DOMAIN snapshots \cup {w} /\ snapshots'[w] = map[w]
      /\ \A v \in DOMAIN snapshots \ {w} : snapshots'[v] = snapshots[v]
      /\ snapshots' = [v \in DOMAIN snapshots' |-> snapshots'[v]]
  BY <1>1 DEF With
<1>5. PartsSound'
  <2>1. ASSUME NEW v \in Documents PROVE WindowSound(v)'
    BY <1>1, <1>4, <2>1 DEF Invariant, PartsSound, WindowSound, Unsaved
  <2>2. w \notin closed
    BY <1>1 DEF Invariant, PartsSound, WindowSound
  <2>3. DiskType'
    BY <1>1, <1>2, <1>4 DEF Invariant, PartsSound, DiskType
  <2> QED BY <1>1, <1>3, <1>4, <2>1, <2>2, <2>3 DEF Invariant, PartsSound, RegistryType
<1>6. desk.welcome = None \/ ~Unsaved(w)'
  BY <1>1 DEF Invariant, DeskSound, Unsaved
<1> QED BY <1>1, <1>2, <1>5, <1>6, StayKeeps

\* What is saved has no changes any more.
LEMMA SavedDocument ==
  ASSUME Invariant, NEW w \in Documents, NEW f \in File, Saved(w, f)
  PROVE  /\ map' \in [Documents -> Document] /\ \A v \in Documents \ {w} : map'[v] = map[v]
         /\ map'[w] \in Document /\ ~Unsaved(w)' /\ files' \in [File -> Content]
BY DEF Invariant, DeskSound, PartsSound, DiskType, Document, Saved, Unsaved

LEMMA SaveKeeps ==
  ASSUME Invariant, NEW w \in Documents, Save(w)
  PROVE  Invariant' /\ HostsKept
<1>1. /\ UNCHANGED <<quitting, shell, desk, tabs, born, left, ui, closed>>
      /\ registry' = Recorded(w, map'[w])
      /\ snapshots' = IF ui[w].removed THEN snapshots ELSE With(snapshots, w, map'[w])
  BY DEF Save, shell, history
<1>2. /\ map' \in [Documents -> Document] /\ \A v \in Documents \ {w} : map'[v] = map[v]
      /\ map'[w] \in Document /\ ~Unsaved(w)' /\ files' \in [File -> Content] /\ w \in born
  BY SavedDocument DEF Save, Invariant, DeskSound
<1>3. Documents' = Documents
  BY <1>1 DEF Documents
<1>4. Enrolls
  BY <1>1, RecordedEnrolls
<1>5. /\ \A v \in Documents \ {w} : (v \in DOMAIN snapshots' <=> v \in DOMAIN snapshots)
                                    /\ (v \in DOMAIN snapshots => snapshots'[v] = snapshots[v])
      /\ DiskType' /\ closed' \cap DOMAIN snapshots' = {}
  <2>1. CASE ui[w].removed
    BY <1>1, <1>2, <2>1 DEF Invariant, PartsSound, DiskType
  <2>2. CASE ~ui[w].removed
    <3>1. /\ DOMAIN snapshots' = DOMAIN snapshots \cup {w} /\ snapshots'[w] = map'[w]
          /\ \A v \in DOMAIN snapshots \ {w} : snapshots'[v] = snapshots[v]
          /\ snapshots' = [v \in DOMAIN snapshots' |-> snapshots'[v]]
      BY <1>1, <2>2 DEF With
    <3>2. w \notin closed
      BY <2>2 DEF Invariant, PartsSound, WindowSound
    <3> QED BY <1>1, <1>2, <3>1, <3>2 DEF Invariant, PartsSound, DiskType
  <2> QED BY <2>1, <2>2
<1>6. PartsSound'
  <2>1. ASSUME NEW v \in Documents PROVE WindowSound(v)'
    BY <1>1, <1>2, <1>4, <1>5, <2>1 DEF Invariant, PartsSound, WindowSound, Unsaved, Enrolls
  <2> QED BY <1>1, <1>3, <1>4, <1>5, <2>1 DEF Invariant, PartsSound, Enrolls
<1> QED BY <1>1, <1>2, <1>6, StayKeeps

-----------------------------------------------------------------------------
(***************************************************************************)
(* A window is closed by its user.                                         *)
(***************************************************************************)
\* A step that changes one window, and the others at most by taking them in.
OneWindow(w) ==
  /\ Documents' = Documents /\ born' = born /\ (quitting' => quitting)
  /\ \A v \in Documents \ {w} :
       /\ map'[v] = map[v] /\ ui'[v] = ui[v]
       /\ v \in registry.windows => v \in registry'.windows
       /\ v \in DOMAIN snapshots' <=> v \in DOMAIN snapshots
       /\ v \in DOMAIN snapshots => snapshots'[v] = snapshots[v]
       /\ v \in closed' => v \in closed

LEMMA OneWindowKeeps ==
  ASSUME Invariant, NEW w \in Documents, OneWindow(w),
         registry'.votes = registry.votes, registry'.state = registry.state,
         ui' \in [Documents -> Dialogs], RegistryType', DiskType',
         closed' \subseteq born, closed' \cap DOMAIN snapshots' = {}, WindowSound(w)'
  PROVE  PartsSound'
<1>1. ASSUME NEW v \in Documents \ {w} PROVE WindowSound(v)'
  BY DEF Invariant, PartsSound, WindowSound, Unsaved, OneWindow
<1> QED BY <1>1 DEF PartsSound, OneWindow

LEMMA ApprovedKeeps ==
  ASSUME Invariant, NEW w \in Documents, NEW back \in Window \cup {None}, Approved(w, back),
         ~ui[w].frozen \/ map' = map,
         \A v \in Documents \ {w} : map'[v] = map[v], files' \in [File -> Content],
         Documents' = Documents, UNCHANGED <<quitting, born>>
  PROVE  PartsSound'
<1>1. ui \in [Documents -> Dialogs] /\ RegistryType /\ DiskType /\ w \in born
  BY DEF Invariant, PartsSound, DeskSound
<1>2. CASE ui[w].frozen
  <2>1. ui' = [ui EXCEPT ![w].prompt = FALSE] /\ UNCHANGED <<map, registry, snapshots, closed>>
    BY <1>2 DEF Approved
  <2>2. /\ ui' \in [Documents -> Dialogs] /\ \A v \in Documents \ {w} : ui'[v] = ui[v]
        /\ ui'[w].removed = ui[w].removed /\ ui'[w].leaving = ui[w].leaving
        /\ ui'[w].frozen = ui[w].frozen /\ ui'[w].prompt = FALSE
    BY <1>1, <2>1 DEF Dialogs
  <2>3. WindowSound(w)'
    BY <2>1, <2>2 DEF Invariant, PartsSound, WindowSound, Unsaved
  <2>4. OneWindow(w)
    BY <2>1, <2>2 DEF OneWindow
  <2>5. RegistryType' /\ DiskType'
    BY <1>1, <2>1 DEF RegistryType, DiskType
  <2>6. closed' \subseteq born /\ closed' \cap DOMAIN snapshots' = {}
    BY <2>1 DEF Invariant, PartsSound
  <2> QED BY <2>1, <2>2, <2>3, <2>4, <2>5, <2>6, OneWindowKeeps
<1>3. CASE ~ui[w].frozen
  <2>1. /\ ui' = [ui EXCEPT ![w].prompt = FALSE, ![w].back = back,
                            ![w].removed = TRUE, ![w].leaving = TRUE]
        /\ registry' = Forgotten(w) /\ snapshots' = Without(snapshots, w)
        /\ closed' = closed \cup {w}
    BY <1>3 DEF Approved
  <2>2. /\ ui' \in [Documents -> Dialogs] /\ \A v \in Documents \ {w} : ui'[v] = ui[v]
        /\ ui'[w].removed = TRUE /\ ui'[w].leaving = TRUE
        /\ ~ui'[w].frozen /\ ui'[w].prompt = FALSE
    <3>1. ui' \in [Documents -> Dialogs]
      <4> DEFINE d == [ui[w] EXCEPT !.prompt = FALSE, !.back = back, !.removed = TRUE,
                                    !.leaving = TRUE]
      <4>1. ui[w] \in Dialogs
        BY <1>1
      <4>2. d \in Dialogs
        BY <4>1 DEF Dialogs
      <4>3. ui' = [ui EXCEPT ![w] = d]
        BY <1>1, <2>1
      <4> HIDE DEF d
      <4> QED BY <1>1, <4>2, <4>3
    <3>2. \A v \in Documents \ {w} : ui'[v] = ui[v]
      BY <1>1, <2>1
    <3>3. /\ ui'[w].removed = TRUE /\ ui'[w].leaving = TRUE
          /\ ui'[w].frozen = ui[w].frozen /\ ui'[w].prompt = FALSE
      BY <1>1, <2>1 DEF Dialogs
    <3> QED BY <1>3, <3>1, <3>2, <3>3
  <2>3. /\ registry'.windows = registry.windows \ {w} /\ registry'.votes = registry.votes
        /\ registry'.state = registry.state /\ RegistryType'
    BY <1>1, <2>1 DEF Forgotten, RegistryType
  <2>4. /\ DOMAIN snapshots' = DOMAIN snapshots \ {w}
        /\ \A v \in DOMAIN snapshots' : snapshots'[v] = snapshots[v]
        /\ snapshots' = [v \in DOMAIN snapshots' |-> snapshots'[v]]
    BY <2>1 DEF Without
  <2>5. DiskType'
    BY <1>1, <2>4 DEF DiskType
  <2>6. closed' \subseteq born /\ closed' \cap DOMAIN snapshots' = {}
    BY <1>1, <2>1, <2>4 DEF Invariant, PartsSound
  <2>7. WindowSound(w)'
    BY <2>2 DEF WindowSound
  <2>8. OneWindow(w)
    BY <2>1, <2>2, <2>3, <2>4 DEF OneWindow
  <2> QED BY <2>2, <2>3, <2>5, <2>6, <2>7, <2>8, OneWindowKeeps
<1> QED BY <1>2, <1>3

LEMMA RequestCloseKeeps ==
  ASSUME Invariant, NEW w \in Documents, NEW back \in Window \cup {None}, RequestClose(w, back),
         Documents' = Documents, UNCHANGED <<quitting, born, map, files>>
  PROVE  PartsSound'
<1>1. ui \in [Documents -> Dialogs] /\ RegistryType /\ DiskType
  BY DEF Invariant, PartsSound
<1>2. CASE Approved(w, back)
  BY <1>1, <1>2, ApprovedKeeps DEF DiskType
<1>3. ASSUME NEW ask \in BOOLEAN, NEW to \in Window \cup {None},
             ui' = [ui EXCEPT ![w].prompt = ask, ![w].back = to],
             UNCHANGED <<registry, snapshots, closed>>
      PROVE  PartsSound'
  <2>1. /\ ui' \in [Documents -> Dialogs] /\ \A v \in Documents \ {w} : ui'[v] = ui[v]
        /\ ui'[w].removed = ui[w].removed /\ ui'[w].leaving = ui[w].leaving
        /\ ui'[w].frozen = ui[w].frozen
    <3> DEFINE d == [ui[w] EXCEPT !.prompt = ask, !.back = to]
    <3>1. ui[w] \in Dialogs
      BY <1>1
    <3>2. /\ d \in Dialogs /\ d.removed = ui[w].removed /\ d.leaving = ui[w].leaving
          /\ d.frozen = ui[w].frozen
      BY <3>1 DEF Dialogs
    <3>3. ui' = [ui EXCEPT ![w] = d]
      BY <1>1, <1>3
    <3> HIDE DEF d
    <3> QED BY <1>1, <3>2, <3>3
  <2>2. ~ui[w].leaving
    BY DEF RequestClose
  <2>3. WindowSound(w)'
    BY <1>3, <2>1, <2>2 DEF Invariant, PartsSound, WindowSound, Unsaved
  <2>4. OneWindow(w)
    BY <1>3, <2>1 DEF OneWindow
  <2>5. RegistryType' /\ DiskType'
    BY <1>1, <1>3 DEF RegistryType, DiskType
  <2>6. closed' \subseteq born /\ closed' \cap DOMAIN snapshots' = {}
    BY <1>3 DEF Invariant, PartsSound
  <2> QED BY <1>3, <2>1, <2>3, <2>4, <2>5, <2>6, OneWindowKeeps
<1>4. CASE /\ ui' = [ui EXCEPT ![w].prompt = FALSE, ![w].back = None]
           /\ UNCHANGED <<registry, snapshots, closed>>
  BY <1>3, <1>4
<1>5. CASE /\ ui' = [ui EXCEPT ![w].prompt = TRUE, ![w].back = back]
           /\ UNCHANGED <<registry, snapshots, closed>>
  BY <1>3, <1>5
<1> QED BY <1>2, <1>4, <1>5 DEF RequestClose

\* The windows shift while one of them changes.
LEMMA ShiftAround ==
  ASSUME Invariant, NEW w \in Documents, Shifted, TabsWritten,
         UNCHANGED <<shell, born, map, left>>, PartsSound'
  PROVE  Invariant'
<1>1. running
  BY DEF Invariant, ShellSound
<1> QED BY <1>1, ShiftKeepsTabs, ShiftKeepsDesk DEF Invariant

LEMMA CloseHostKeeps ==
  ASSUME Invariant, NEW w \in Documents, CloseHost(w)
  PROVE  Invariant' /\ HostsKept
<1>1. RequestClose(w, ui[w].back) /\ UNCHANGED <<quitting, shell, desk, map, files, tabs, born, left>>
  BY DEF CloseHost, shell
<1>2. Shifted /\ HostsKept /\ TabsWritten /\ Documents' = Documents
  BY <1>1, StillShifts DEF TabsWritten, Shifted
<1>3. ui[w].back \in Window \cup {None}
  BY DEF Invariant, PartsSound, Dialogs
<1>4. PartsSound'
  BY <1>1, <1>2, <1>3, RequestCloseKeeps
<1> QED BY <1>1, <1>2, <1>4, ShiftAround

LEMMA CloseTabKeeps ==
  ASSUME Invariant, NEW w \in Documents, CloseTab(w)
  PROVE  Invariant' /\ HostsKept
<1> DEFINE back == IF w = ActiveShown THEN None ELSE ActiveShown
<1>1. /\ RequestClose(w, back) /\ UNCHANGED <<quitting, shell, map, files, born, left>>
      /\ desk' = Activating(desk, w, AllBlocked) /\ tabs' = SavedTabs(desk')
      /\ ActiveShown # None
  BY DEF CloseTab, Activated, shell
<1>2. Shifted /\ HostsKept /\ Documents' = Documents
  BY <1>1, ActivatedShifts DEF Shifted
<1>3. TabsWritten
  BY <1>1, <1>2, SavedTabsWritten DEF Shifted
<1>4. back \in Window \cup {None}
  <2>1. IsDesk(desk) /\ Windows(desk) = Documents
    BY DEF Invariant, DeskSound, Windows, Documents
  <2>2. ActiveShown \in Documents \cup {None} /\ Documents \subseteq Window
    BY <1>1, <2>1, ActiveHostOf, DeskParts, DeskMembers
  <2> QED BY <2>2
<1> HIDE DEF back
<1>5. PartsSound'
  BY <1>1, <1>2, <1>4, RequestCloseKeeps
<1> QED BY <1>1, <1>2, <1>3, <1>5, ShiftAround

LEMMA DiscardKeeps ==
  ASSUME Invariant, NEW w \in Documents, Discard(w)
  PROVE  Invariant' /\ HostsKept
<1>1. Approved(w, ui[w].back) /\ UNCHANGED <<quitting, shell, desk, map, files, tabs, born, left>>
  BY DEF Discard, shell
<1>2. Shifted /\ HostsKept /\ TabsWritten /\ Documents' = Documents
  BY <1>1, StillShifts DEF TabsWritten, Shifted
<1>3. ui[w].back \in Window \cup {None} /\ files' \in [File -> Content]
  BY <1>1 DEF Invariant, PartsSound, DiskType, Dialogs
<1>4. PartsSound'
  BY <1>1, <1>2, <1>3, ApprovedKeeps
<1> QED BY <1>1, <1>2, <1>4, ShiftAround

LEMMA CancelCloseKeeps ==
  ASSUME Invariant, NEW w \in Documents, CancelClose(w)
  PROVE  Invariant' /\ HostsKept
<1>1. /\ ui' = [ui EXCEPT ![w].prompt = FALSE, ![w].frozen = FALSE, ![w].back = None]
      /\ desk' = IF ui[w].back \in Documents
                   THEN Activating(desk, ui[w].back,
                                   {v \in AllBlocked : v = w => ui[w].dialog # "none"})
                   ELSE desk
      /\ UNCHANGED <<quitting, shell, map, registry, snapshots, files, tabs, born, closed, left>>
  BY DEF CancelClose, shell, disk, history
<1>2. Shifted /\ HostsKept /\ Documents' = Documents
  <2>1. CASE ui[w].back \in Documents
    <3> DEFINE blocked == {v \in AllBlocked : v = w => ui[w].dialog # "none"}
    <3> HIDE DEF blocked
    <3>1. desk' = Activating(desk, ui[w].back, blocked)
      BY <1>1, <2>1 DEF blocked
    <3> QED BY <2>1, <3>1, ActivatedShifts DEF Shifted
  <2>2. CASE ui[w].back \notin Documents
    BY <1>1, <2>2, StillShifts DEF Shifted
  <2> QED BY <2>1, <2>2
<1>3. /\ ui' \in [Documents -> Dialogs] /\ \A v \in Documents \ {w} : ui'[v] = ui[v]
      /\ ui'[w].removed = ui[w].removed /\ ui'[w].leaving = ui[w].leaving
      /\ ui'[w].frozen = FALSE /\ ui'[w].prompt = FALSE
  BY <1>1, ZenonT(40) DEF Invariant, PartsSound, Dialogs
<1>4. PartsSound'
  <2>1. WindowSound(w)'
    BY <1>1, <1>3 DEF Invariant, PartsSound, WindowSound
  <2>2. OneWindow(w)
    BY <1>1, <1>2, <1>3 DEF OneWindow
  <2>3. RegistryType' /\ DiskType'
    BY <1>1 DEF Invariant, PartsSound, RegistryType, DiskType
  <2>4. closed' \subseteq born /\ closed' \cap DOMAIN snapshots' = {}
    BY <1>1 DEF Invariant, PartsSound
  <2> QED BY <1>1, <1>3, <2>1, <2>2, <2>3, <2>4, OneWindowKeeps
<1> QED BY <1>1, <1>2, <1>4, ShiftAround DEF TabsWritten

LEMMA SaveBeforeClosingKeeps ==
  ASSUME Invariant, NEW w \in Documents, SaveBeforeClosing(w)
  PROVE  Invariant' /\ HostsKept
<1>1. UNCHANGED <<quitting, shell, desk, tabs, born, left>> /\ ~ui[w].leaving
  BY DEF SaveBeforeClosing, shell
<1>2. PICK f \in File : Saved(w, f)
  <2>1. PICK f \in Targets(w) : Saved(w, f)
    BY DEF SaveBeforeClosing
  <2>2. f \in File
    BY <2>1 DEF Invariant, DeskSound, Document, Targets
  <2> QED BY <2>1, <2>2
<1>3. /\ map' \in [Documents -> Document] /\ \A v \in Documents \ {w} : map'[v] = map[v]
      /\ map'[w] \in Document /\ ~Unsaved(w)' /\ files' \in [File -> Content] /\ w \in born
  BY <1>2, SavedDocument DEF Invariant, DeskSound
<1>4. Documents' = Documents
  BY <1>1 DEF Documents
<1>5. PartsSound'
  <2>1. CASE ui[w].frozen
    <3>1. /\ ui' = [ui EXCEPT ![w].prompt = FALSE] /\ snapshots' = With(snapshots, w, map'[w])
          /\ registry' = Recorded(w, map'[w]) /\ closed' = closed
      BY <2>1 DEF SaveBeforeClosing
    <3>2. /\ ui' \in [Documents -> Dialogs] /\ \A v \in Documents \ {w} : ui'[v] = ui[v]
          /\ ui'[w].removed = ui[w].removed /\ ui'[w].leaving = ui[w].leaving
          /\ ui'[w].prompt = FALSE
      BY <3>1 DEF Invariant, PartsSound, Dialogs
    <3>3. Enrolls
      BY <1>1, <3>1, RecordedEnrolls
    <3>4. /\ DOMAIN snapshots' = DOMAIN snapshots \cup {w} /\ snapshots'[w] = map'[w]
          /\ \A v \in DOMAIN snapshots \ {w} : snapshots'[v] = snapshots[v]
          /\ snapshots' = [v \in DOMAIN snapshots' |-> snapshots'[v]]
      BY <3>1 DEF With
    <3>5. w \notin closed
      BY <1>1 DEF Invariant, PartsSound, WindowSound
    <3>6. DiskType' /\ closed' \subseteq born /\ closed' \cap DOMAIN snapshots' = {}
      BY <1>1, <1>3, <3>1, <3>4, <3>5 DEF Invariant, PartsSound, DiskType
    <3>7. WindowSound(w)'
      BY <1>1, <1>3, <3>1, <3>2, <3>3 DEF Invariant, PartsSound, WindowSound, Enrolls
    <3>8. OneWindow(w)
      BY <1>1, <1>3, <1>4, <3>1, <3>2, <3>3, <3>4 DEF OneWindow, Enrolls
    <3> QED BY <3>2, <3>3, <3>6, <3>7, <3>8, OneWindowKeeps DEF Enrolls
  <2>2. CASE ~ui[w].frozen
    <3>1. Approved(w, ui[w].back) /\ ui[w].back \in Window \cup {None}
      BY <2>2 DEF SaveBeforeClosing, Invariant, PartsSound, Dialogs
    <3> QED BY <1>1, <1>3, <1>4, <2>2, <3>1, ApprovedKeeps
  <2> QED BY <2>1, <2>2
<1> QED BY <1>1, <1>3, <1>5, StayKeeps

-----------------------------------------------------------------------------
(***************************************************************************)
(* A window goes.                                                          *)
(***************************************************************************)
LEMMA KeptOfFewer ==
  ASSUME NEW gs, NEW f, NEW g, Kept(gs, f), DOMAIN g \subseteq DOMAIN f,
         \A w \in DOMAIN g : g[w] = f[w]
  PROVE  Kept(gs, g)
<1>1. \A w \in DOMAIN g : \E k \in DOMAIN gs : w \in ToSet(gs[k].paths)
  BY DEF Kept
<1>2. ASSUME NEW v \in DOMAIN g, NEW w \in DOMAIN g, NEW k \in DOMAIN gs,
             v \in ToSet(gs[k].paths)
      PROVE  g[v] = g[w] <=> w \in ToSet(gs[k].paths)
  <2>1. f[v] = f[w] <=> w \in ToSet(gs[k].paths)
    BY <1>2 DEF Kept
  <2> QED BY <2>1
<1> QED BY <1>1, <1>2 DEF Kept

LEMMA RemoveWindowKeeps ==
  ASSUME Invariant, NEW w \in Documents, RemoveWindow(w)
  PROVE  Invariant' /\ HostsKept
<1>1. /\ ui[w].leaving /\ desk' = Removed(w) /\ map' = Without(map, w) /\ ui' = Without(ui, w)
      /\ registry' = [registry EXCEPT !.windows = Registered \ {w}]
      /\ tabs' = SavedTabs(desk') /\ running' = ~(quitting /\ desk'.documents = <<>>)
      /\ quitting' = (quitting /\ running')
      /\ left' = IF quitting /\ ~ui[w].removed THEN With(left, w, desk.host[w]) ELSE left
      /\ UNCHANGED <<snapshots, files, born, closed>>
  BY DEF RemoveWindow
<1>2. /\ IsDesk(desk) /\ Windows(desk) = Documents /\ desk.host \in [Documents -> Host]
      /\ w \in born /\ quitting \in BOOLEAN
  BY DeskParts DEF Invariant, DeskSound, ShellSound, Windows, Documents
<1>3. /\ IsDesk(desk') /\ Windows(desk') = Documents \ {w}
      /\ \A v \in Documents \ {w} : desk'.host[v] = desk.host[v]
      /\ desk'.welcome # None => desk'.welcome = desk.welcome
      /\ \A g \in Hosts(desk') :
           /\ g \in Hosts(desk)
           /\ Shows(desk, g) /\ (g = desk.host[w] => quitting \/ ~Blocked(w)) => Shows(desk', g)
  BY <1>1, <1>2, RemovedDesk
<1>4. Documents' = Documents \ {w} /\ DOMAIN desk'.host = Documents'
  BY <1>3, DeskParts DEF Windows, Documents
<1>5. /\ map' \in [Documents' -> Document] /\ ui' \in [Documents' -> Dialogs]
      /\ \A v \in Documents' : map'[v] = map[v] /\ ui'[v] = ui[v]
  BY <1>1, <1>4 DEF Invariant, DeskSound, PartsSound, Without
<1>6. ShellSound'
  <2>1. Documents' # {} => desk'.documents # <<>>
    BY <1>3, <1>4, MembersOf, DeskParts DEF Windows
  <2> QED BY <1>1, <1>2, <2>1 DEF ShellSound
<1>7. DeskSound'
  BY <1>1, <1>3, <1>4, <1>5 DEF Invariant, DeskSound, Unsaved
<1>8. TabsSound'
  <2>1. TabsWritten
    BY <1>1, <1>3, SavedTabsWritten
  <2>2. tabs' \in Tabs /\ Disjoint(tabs'.groups)
    BY <2>1 DEF Invariant, TabsSound, TabsWritten
  <2>3. /\ DOMAIN left \subseteq born /\ left \in [DOMAIN left -> Host]
        /\ DOMAIN left \cap Documents = {}
    BY DEF Invariant, TabsSound
  <2>4. /\ DOMAIN left' \subseteq DOMAIN left \cup {w} /\ left' \in [DOMAIN left' -> Host]
        /\ DOMAIN left \subseteq DOMAIN left' /\ \A v \in DOMAIN left : left'[v] = left[v]
        /\ w \in DOMAIN left' => left'[w] = desk.host[w]
    BY <1>1, <1>2, <2>3 DEF With
  <2>5. quitting' \/ (~running' /\ left' # <<>>) => quitting
    BY <1>1
  <2>6. ASSUME quitting PROVE Kept(tabs'.groups, Homes(left', desk'.host))
    <3> DEFINE f == Homes(left, desk.host)
               g == Homes(left', desk'.host)
    <3>1. tabs' = tabs /\ Kept(tabs.groups, f)
      BY <2>1, <2>6 DEF Invariant, TabsSound, TabsWritten
    <3>2. DOMAIN f = DOMAIN left \cup Documents /\ DOMAIN g = DOMAIN left' \cup Documents'
      BY <1>2, <1>4 DEF Homes
    <3>3. \A v \in DOMAIN f : f[v] = IF v \in DOMAIN left THEN left[v] ELSE desk.host[v]
      BY DEF Homes
    <3>4. \A v \in DOMAIN g : g[v] = IF v \in DOMAIN left' THEN left'[v] ELSE desk'.host[v]
      BY DEF Homes
    <3> HIDE DEF f, g
    <3>5. DOMAIN g \subseteq DOMAIN f
      BY <1>4, <2>4, <3>2
    <3>6. \A v \in DOMAIN g : g[v] = f[v]
      BY <1>3, <1>4, <2>3, <2>4, <3>2, <3>3, <3>4
    <3> QED BY <3>1, <3>5, <3>6, KeptOfFewer DEF f, g
  <2>7. DOMAIN left' \subseteq born' /\ DOMAIN left' \cap Documents' = {}
    BY <1>1, <1>2, <1>4, <2>3, <2>4
  <2> QED BY <2>2, <2>4, <2>5, <2>6, <2>7 DEF TabsSound
<1>9. PartsSound'
  <2>1. /\ RegistryType' /\ registry'.windows = Registered \ {w}
        /\ registry'.votes = registry.votes /\ registry'.state = registry.state
    BY <1>1 DEF Invariant, PartsSound, RegistryType, Registered
  <2>2. ASSUME NEW v \in Documents' PROVE WindowSound(v)'
    <3>1. v \in registry.windows => v \in registry'.windows
      BY <1>4, <2>1 DEF Registered
    <3>2. quitting' => quitting
      BY <1>1
    <3> QED BY <1>1, <1>4, <1>5, <2>1, <3>1, <3>2
            DEF Invariant, PartsSound, WindowSound, Unsaved
  <2>3. DiskType' /\ closed' \subseteq born' /\ closed' \cap DOMAIN snapshots' = {}
    BY <1>1 DEF Invariant, PartsSound, DiskType
  <2> QED BY <1>5, <2>1, <2>2, <2>3 DEF PartsSound
<1>10. HostsKept
  <2>1. ~Blocked(w) \/ Exempt(w)
    BY <1>1 DEF Exempt
  <2> QED BY <1>3, <2>1 DEF HostsKept, Excused
<1> QED BY <1>6, <1>7, <1>8, <1>9, <1>10 DEF Invariant

-----------------------------------------------------------------------------
(***************************************************************************)
(* Quitting.                                                               *)
(***************************************************************************)
LEMMA RegisteredMembers ==
  ASSUME Invariant, NEW S \in SUBSET Registered
  PROVE  Sorted(S) \in Seq(Window) /\ ToSet(Sorted(S)) = S /\ Registered \subseteq born
<1>1. S \subseteq Window /\ Registered \subseteq born
  BY DEF Invariant, DeskSound, PartsSound, RegistryType, Registered
<1>2. S \in SUBSET Nat /\ IsFiniteSet(S)
  BY <1>1, HostIsNumber, FS_Subset
<1>3. Sorted(S) \in Seq(S) /\ ToSet(Sorted(S)) = S
  BY <1>2, SortedMembers
<1>4. Sorted(S) \in Seq(Window)
  <2> DEFINE s == Sorted(S)
  <2>1. s \in Seq(S)
    BY <1>3
  <2> HIDE DEF s
  <2>2. \A k \in 1 .. Len(s) : s[k] \in Window
    BY <1>1, <2>1, ElementOfSeq
  <2>3. s \in [1 .. Len(s) -> Window] /\ Len(s) \in Nat
    BY <2>1, <2>2, LenProperties
  <2>4. s \in Seq(Window)
    BY <2>3
  <2> QED BY <2>4 DEF s
<1> QED BY <1>1, <1>3, <1>4

LEMMA ParticipantsMembers ==
  ASSUME Invariant
  PROVE  /\ Participants \in Seq(Window)
         /\ registry.state = "confirming" => Registered \subseteq ToSet(Participants)
<1> DEFINE more == IF registry.state = "confirming"
                     THEN Sorted(Registered \ ToSet(registry.participants)) ELSE <<>>
<1>1. registry.participants \in Seq(Window)
  BY DEF Invariant, PartsSound, RegistryType
<1>2. /\ more \in Seq(Window)
      /\ registry.state = "confirming" => ToSet(more) = Registered \ ToSet(registry.participants)
  <2> DEFINE S == Registered \ ToSet(registry.participants)
  <2> HIDE DEF S
  <2>1. S \in SUBSET Registered
    BY DEF S
  <2>2. Sorted(S) \in Seq(Window) /\ ToSet(Sorted(S)) = S
    BY <2>1, RegisteredMembers
  <2>3. more = IF registry.state = "confirming" THEN Sorted(S) ELSE <<>>
    BY DEF S
  <2> HIDE DEF more
  <2>4. more \in Seq(Window)
    BY <2>2, <2>3
  <2> QED BY <2>2, <2>3, <2>4 DEF S
<1>3. Participants = registry.participants \o more
  BY DEF Participants
<1> HIDE DEF more
<1>4. /\ registry.participants \o more \in Seq(Window)
      /\ ToSet(registry.participants \o more) = ToSet(registry.participants) \cup ToSet(more)
  BY <1>1, <1>2, ConcatMembers
<1> QED BY <1>2, <1>3, <1>4

\* Nobody is awaited: all have voted or are closed by their user.
LEMMA AllHaveVoted ==
  ASSUME Invariant, registry.state = "confirming", Awaited = <<>>
  PROVE  \A v \in Documents : ui[v].removed \/ v \in registry.votes
<1> DEFINE due == Registered \ registry.votes
<1> HIDE DEF due
<1>1. Participants \in Seq(Window) /\ Registered \subseteq ToSet(Participants)
  BY ParticipantsMembers
<1>2. Only(Participants, due) \in Seq(Window)
      /\ ToSet(Only(Participants, due)) = ToSet(Participants) \cap due
  BY <1>1, OnlyMembers
<1>3. Only(Participants, due) = <<>>
  BY DEF Awaited, due
<1>4. ToSet(Participants) \cap due = {}
  BY <1>2, <1>3, MembersOf
<1>5. Registered \subseteq registry.votes
  BY <1>1, <1>4 DEF due
<1> QED BY <1>5 DEF Registered, Invariant, PartsSound, WindowSound

LEMMA BegunRegistry ==
  ASSUME Invariant, desk.documents # <<>>, registry' = Begun, born' = born
  PROVE  /\ RegistryType' /\ registry'.windows = Registered /\ registry'.state = "confirming"
         /\ registry'.votes \subseteq registry.votes
<1>1. RegistryType /\ Registered \subseteq born
  BY DEF Invariant, PartsSound, RegistryType, Registered
<1>2. CASE registry' = [registry EXCEPT !.windows = Registered] /\ registry.state = "confirming"
  BY <1>1, <1>2 DEF RegistryType
<1>3. CASE registry' = [windows |-> Registered, state |-> "confirming", id |-> registry.id + 1,
                        participants |-> <<Head(desk.documents)>>
                          \o Sorted(Registered \ {Head(desk.documents)}),
                        votes |-> {}]
  <2> DEFINE first == Head(desk.documents)
             rest == Sorted(Registered \ {first})
  <2>1. first \in Window
    <3>1. desk.documents \in Seq(Window)
      BY DeskParts DEF Invariant, DeskSound
    <3> QED BY <3>1, MembersOf
  <2>2. rest \in Seq(Window)
    <3> DEFINE S == Registered \ {first}
    <3>1. S \in SUBSET Registered
      OBVIOUS
    <3> HIDE DEF S
    <3>2. Sorted(S) \in Seq(Window)
      BY <3>1, RegisteredMembers
    <3> QED BY <3>2 DEF S
  <2> HIDE DEF first, rest
  <2>3. <<first>> \in Seq(Window)
    BY <2>1
  <2>4. <<first>> \o rest \in Seq(Window)
    BY <2>2, <2>3, ConcatMembers
  <2>5. registry' = [windows |-> Registered, state |-> "confirming", id |-> registry.id + 1,
                     participants |-> <<first>> \o rest, votes |-> {}]
    BY <1>3 DEF first, rest
  <2>6. registry.id + 1 \in Nat
    BY <1>1 DEF RegistryType
  <2> QED BY <1>1, <2>4, <2>5, <2>6 DEF RegistryType
<1> QED BY <1>2, <1>3 DEF Begun

LEMMA RequestQuitKeeps ==
  ASSUME Invariant, RequestQuit
  PROVE  Invariant' /\ HostsKept
<1>1. /\ running /\ ~quitting /\ desk.documents # <<>> /\ tabs' = TabFile(desk) /\ quitting' = TRUE
      /\ registry' = Begun /\ left' = <<>>
      /\ UNCHANGED <<running, desk, map, ui, snapshots, files, born, closed>>
  BY DEF RequestQuit, SavedTabs
<1>2. Documents' = Documents /\ Shifted /\ HostsKept
  BY <1>1, StillShifts DEF Shifted
<1>3. /\ RegistryType' /\ registry'.windows = Registered /\ registry'.state = "confirming"
      /\ registry'.votes \subseteq registry.votes
  BY <1>1, BegunRegistry
<1>4. ShellSound' /\ DeskSound'
  BY <1>1, <1>2, ShiftKeepsDesk DEF Invariant, ShellSound
<1>5. TabsSound'
  <2>1. IsDesk(desk) /\ tabs.active \in Window \cup {None}
    BY DEF Invariant, DeskSound, TabsSound, Tabs
  <2>2. tabs' \in Tabs /\ Disjoint(tabs'.groups) /\ Kept(tabs'.groups, desk.host)
    BY <1>1, <2>1, TabFileKeeps DEF Tabs
  <2>3. Homes(left', desk'.host) = desk.host
    <3>1. desk.host = [w \in DOMAIN desk.host |-> desk.host[w]]
      BY <2>1, DeskParts
    <3>2. DOMAIN left' = {} /\ desk'.host = desk.host
      BY <1>1
    <3> QED BY <3>1, <3>2 DEF Homes
  <2>4. DOMAIN left' = {} /\ left' \in [DOMAIN left' -> Host]
    BY <1>1
  <2> QED BY <2>2, <2>3, <2>4 DEF TabsSound
<1>6. PartsSound'
  <2>1. ASSUME NEW v \in Documents PROVE WindowSound(v)'
    BY <1>1, <1>3 DEF Invariant, PartsSound, WindowSound, Unsaved, Registered
  <2> QED BY <1>1, <1>2, <1>3, <2>1 DEF Invariant, PartsSound, DiskType
<1> QED BY <1>2, <1>4, <1>5, <1>6 DEF Invariant

LEMMA QuitAloneKeeps ==
  ASSUME Invariant, QuitAlone
  PROVE  Invariant' /\ HostsKept
<1>1. /\ ~quitting /\ desk.documents = <<>> /\ running' = FALSE /\ left' = <<>>
      /\ UNCHANGED <<quitting, desk, map, ui, registry, tabs, snapshots, files, born, closed>>
  BY DEF QuitAlone, disk
<1>2. Documents = {} /\ Documents' = Documents
  BY <1>1, NoDocuments DEF Documents
<1>3. Shifted /\ HostsKept
  BY <1>1, StillShifts
<1>4. ShellSound' /\ DeskSound' /\ PartsSound'
  BY <1>1, <1>2, <1>3, ShiftKeepsDesk, FrameKeepsParts DEF Invariant, ShellSound
<1>5. TabsSound'
  BY <1>1 DEF Invariant, TabsSound
<1> QED BY <1>3, <1>4, <1>5 DEF Invariant

LEMMA CrashKeeps ==
  ASSUME Invariant, Crash
  PROVE  Invariant' /\ HostsKept
<1>1. /\ running' = FALSE /\ quitting' = FALSE
      /\ desk' = NoDesk /\ map' = <<>> /\ ui' = <<>> /\ left' = <<>>
      /\ UNCHANGED <<registry, tabs, snapshots, files, born, closed>>
  BY DEF Crash, disk
<1>2. Documents' = {} /\ Hosts(desk') = {}
  BY <1>1 DEF Documents, Hosts, NoDesk, ToSet
<1>3. IsDesk(desk')
  BY <1>1 DEF IsDesk, NoDesk, ToSet, IsInjective
<1>4. ShellSound'
  BY <1>1, <1>2 DEF ShellSound
<1>5. DeskSound'
  BY <1>1, <1>2, <1>3 DEF Invariant, DeskSound
<1>6. TabsSound'
  BY <1>1 DEF Invariant, TabsSound
<1>7. PartsSound'
  BY <1>1, <1>2 DEF Invariant, PartsSound, RegistryType, DiskType
<1>8. HostsKept
  BY <1>2 DEF HostsKept
<1> QED BY <1>4, <1>5, <1>6, <1>7, <1>8 DEF Invariant

\* A poll leaves the windows as they are.
LEMMA PollKeeps ==
  ASSUME Invariant, NEW w \in Documents, UNCHANGED <<shell, desk, map, tabs, born, left>>,
         PartsSound'
  PROVE  Invariant' /\ HostsKept
<1>1. Shifted /\ HostsKept
  BY StillShifts
<1> QED BY <1>1, ShiftAround DEF TabsWritten

LEMMA AskedDialogs ==
  ASSUME Invariant, NEW w \in Documents, NEW frozen \in BOOLEAN,
         ui' = [ui EXCEPT ![w].asked = registry.id, ![w].finished = FALSE, ![w].frozen = frozen]
  PROVE  /\ ui' \in [Documents -> Dialogs] /\ \A v \in Documents \ {w} : ui'[v] = ui[v]
         /\ ui'[w].removed = ui[w].removed /\ ui'[w].leaving = ui[w].leaving
         /\ ui'[w].prompt = ui[w].prompt /\ ui'[w].frozen = frozen
<1>1. ui \in [Documents -> Dialogs] /\ registry.id \in Nat
  BY DEF Invariant, PartsSound, RegistryType
<1> DEFINE d == [ui[w] EXCEPT !.asked = registry.id, !.finished = FALSE, !.frozen = frozen]
<1>2. ui[w] \in Dialogs
  BY <1>1
<1>3. ui' = [ui EXCEPT ![w] = d]
  BY <1>1
<1>4. d \in Dialogs
  BY <1>1, <1>2 DEF Dialogs
<1>5. /\ d.removed = ui[w].removed /\ d.leaving = ui[w].leaving
      /\ d.prompt = ui[w].prompt /\ d.frozen = frozen
  BY <1>2 DEF Dialogs
<1> HIDE DEF d
<1>6. ui' \in [Documents -> Dialogs] /\ ui'[w] = d /\ \A v \in Documents \ {w} : ui'[v] = ui[v]
  BY <1>1, <1>3, <1>4, ZenonT(40)
<1> QED BY <1>5, <1>6

LEMMA ConfirmKeeps ==
  ASSUME Invariant, NEW w \in Documents, Confirm(w)
  PROVE  Invariant' /\ HostsKept
<1>1. /\ registry.state = "confirming" /\ (desk.welcome = desk.host[w] \/ ~ui[w].removed)
      /\ ui' = [ui EXCEPT ![w].asked = registry.id, ![w].finished = FALSE, ![w].frozen = TRUE]
      /\ registry' = [registry EXCEPT !.windows = Registered, !.participants = Participants,
                                      !.votes = @ \cup {w}]
      /\ snapshots' = IF desk.welcome = desk.host[w] THEN snapshots ELSE With(snapshots, w, map[w])
      /\ UNCHANGED <<quitting, shell, desk, map, files, tabs, born, closed, left>>
  BY DEF Confirm, IsNext, shell, history
<1>2. Documents' = Documents /\ w \in born
  BY <1>1 DEF Documents, Invariant, DeskSound
<1>3. /\ ui' \in [Documents -> Dialogs] /\ \A v \in Documents \ {w} : ui'[v] = ui[v]
      /\ ui'[w].removed = ui[w].removed /\ ui'[w].leaving = ui[w].leaving
      /\ ui'[w].prompt = ui[w].prompt
  BY <1>1, AskedDialogs
<1>4. /\ RegistryType' /\ registry'.windows = Registered /\ registry'.state = "confirming"
      /\ registry'.votes = registry.votes \cup {w}
  BY <1>1, <1>2, ParticipantsMembers DEF Invariant, PartsSound, RegistryType, Registered
<1>5. CASE desk.welcome = desk.host[w]
  <2>1. snapshots' = snapshots /\ ~Unsaved(w)'
    <3>1. desk.host[w] # None
      <4>1. IsDesk(desk) /\ Windows(desk) = Documents
        BY DEF Invariant, DeskSound, Windows, Documents
      <4>2. desk.host[w] \in Host
        BY <4>1, DeskParts
      <4> QED BY <4>2, HostIsNumber DEF None
    <3> QED BY <1>1, <1>5, <3>1 DEF Invariant, DeskSound, Unsaved
  <2>2. ASSUME NEW v \in Documents PROVE WindowSound(v)'
    BY <1>1, <1>3, <1>4, <2>1 DEF Invariant, PartsSound, WindowSound, Unsaved, Registered
  <2>3. PartsSound'
    BY <1>1, <1>2, <1>3, <1>4, <2>1, <2>2 DEF Invariant, PartsSound, DiskType
  <2> QED BY <1>1, <2>3, PollKeeps
<1>6. CASE desk.welcome # desk.host[w]
  <2>1. snapshots' = With(snapshots, w, map[w]) /\ w \notin closed
    BY <1>1, <1>6 DEF Invariant, PartsSound, WindowSound
  <2>2. /\ DOMAIN snapshots' = DOMAIN snapshots \cup {w} /\ snapshots'[w] = map[w]
        /\ \A v \in DOMAIN snapshots \ {w} : snapshots'[v] = snapshots[v]
        /\ snapshots' = [v \in DOMAIN snapshots' |-> snapshots'[v]]
    BY <2>1 DEF With
  <2>3. ASSUME NEW v \in Documents PROVE WindowSound(v)'
    BY <1>1, <1>3, <1>4, <2>2 DEF Invariant, PartsSound, WindowSound, Unsaved, Registered
  <2>4. DiskType' /\ closed' \cap DOMAIN snapshots' = {}
    <3>1. map[w] \in Document
      BY DEF Invariant, DeskSound
    <3> QED BY <1>1, <1>2, <2>1, <2>2, <3>1 DEF Invariant, PartsSound, DiskType
  <2>5. PartsSound'
    BY <1>1, <1>2, <1>3, <1>4, <2>3, <2>4 DEF Invariant, PartsSound
  <2> QED BY <1>1, <2>5, PollKeeps
<1> QED BY <1>5, <1>6

LEMMA RefuseKeeps ==
  ASSUME Invariant, NEW w \in Documents, Refuse(w)
  PROVE  Invariant' /\ HostsKept
<1>1. /\ ui' = [ui EXCEPT ![w].asked = registry.id, ![w].finished = FALSE, ![w].frozen = FALSE]
      /\ registry' = [registry EXCEPT !.windows = Registered, !.participants = Participants,
                                      !.state = "cancelled"]
      /\ UNCHANGED <<quitting, shell, desk, map, files, tabs, snapshots, born, closed, left>>
  BY DEF Refuse, shell, disk, history
<1>2. Documents' = Documents
  BY <1>1 DEF Documents
<1>3. /\ ui' \in [Documents -> Dialogs] /\ \A v \in Documents \ {w} : ui'[v] = ui[v]
      /\ ui'[w].removed = ui[w].removed /\ ui'[w].leaving = ui[w].leaving
      /\ ui'[w].prompt = ui[w].prompt /\ ui'[w].frozen = FALSE
  BY <1>1, AskedDialogs
<1>4. /\ RegistryType' /\ registry'.windows = Registered /\ registry'.state = "cancelled"
      /\ registry'.votes = registry.votes
  BY <1>1, ParticipantsMembers DEF Invariant, PartsSound, RegistryType, Registered
<1>5. ASSUME NEW v \in Documents PROVE WindowSound(v)'
  BY <1>1, <1>3, <1>4 DEF Invariant, PartsSound, WindowSound, Unsaved, Registered
<1>6. PartsSound'
  BY <1>1, <1>2, <1>3, <1>4, <1>5 DEF Invariant, PartsSound, DiskType
<1> QED BY <1>1, <1>6, PollKeeps

LEMMA CloseKeeps ==
  ASSUME Invariant, NEW w \in Documents, Close(w)
  PROVE  Invariant' /\ HostsKept
<1> DEFINE decides == registry.state = "confirming" /\ Awaited = <<>>
           closes == Asked(w) /\ ~ui[w].finished
<1>1. /\ registry' = IF decides THEN [registry EXCEPT !.windows = Registered,
                                            !.participants = Participants, !.state = "closing"]
                     ELSE registry
      /\ ui' = IF closes THEN [ui EXCEPT ![w].finished = TRUE, ![w].leaving = TRUE] ELSE ui
      /\ UNCHANGED <<quitting, shell, desk, map, files, tabs, snapshots, born, closed, left>>
  BY DEF Close, shell, disk, history
<1>2. Documents' = Documents
  BY <1>1 DEF Documents
<1>3. /\ ui' \in [Documents -> Dialogs] /\ \A v \in Documents \ {w} : ui'[v] = ui[v]
      /\ ui'[w].removed = ui[w].removed /\ (ui[w].leaving => ui'[w].leaving)
      /\ ui'[w].prompt = ui[w].prompt /\ ui'[w].frozen = ui[w].frozen
  <2>1. ui \in [Documents -> Dialogs]
    BY DEF Invariant, PartsSound
  <2>2. CASE closes
    <3>1. ui' = [ui EXCEPT ![w].finished = TRUE, ![w].leaving = TRUE]
      BY <1>1, <2>2
    <3> QED BY <2>1, <3>1 DEF Dialogs
  <2>3. CASE ~closes
    BY <1>1, <2>1, <2>3
  <2> QED BY <2>2, <2>3
<1>4. /\ RegistryType' /\ registry'.votes = registry.votes
      /\ Registered \subseteq registry'.windows
  <2>1. RegistryType
    BY DEF Invariant, PartsSound
  <2>2. CASE decides
    <3>1. registry' = [registry EXCEPT !.windows = Registered, !.participants = Participants,
                                       !.state = "closing"]
      BY <1>1, <2>2
    <3> QED BY <1>1, <2>1, <3>1, ParticipantsMembers, ZenonT(40) DEF RegistryType, Registered
  <2>3. CASE ~decides
    BY <1>1, <2>1, <2>3 DEF RegistryType, Registered
  <2> QED BY <2>2, <2>3
<1>5. ASSUME registry'.state = "closing", registry.state # "closing"
      PROVE  \A v \in Documents : ui[v].removed \/ v \in registry.votes
  BY <1>1, <1>5, AllHaveVoted
<1> HIDE DEF decides, closes
<1>6. ASSUME NEW v \in Documents PROVE WindowSound(v)'
  BY <1>1, <1>3, <1>4, <1>5 DEF Invariant, PartsSound, WindowSound, Unsaved, Registered
<1>7. PartsSound'
  BY <1>1, <1>2, <1>3, <1>4, <1>6 DEF Invariant, PartsSound, DiskType
<1> QED BY <1>1, <1>7, PollKeeps

LEMMA CancelKeeps ==
  ASSUME Invariant, NEW w \in Documents, Cancel(w)
  PROVE  Invariant' /\ HostsKept
<1>1. /\ ui' = [ui EXCEPT ![w].finished = TRUE, ![w].frozen = FALSE] /\ quitting' = FALSE
      /\ UNCHANGED <<running, desk, map, registry, tabs, snapshots, files, born, closed, left>>
  BY DEF Cancel, disk, history
<1>2. Documents' = Documents /\ running
  BY <1>1 DEF Documents, Invariant, ShellSound
<1>3. Shifted /\ HostsKept
  BY <1>1, StillShifts
<1>4. /\ ui' \in [Documents -> Dialogs] /\ \A v \in Documents \ {w} : ui'[v] = ui[v]
      /\ ui'[w].removed = ui[w].removed /\ ui'[w].leaving = ui[w].leaving
      /\ ui'[w].prompt = ui[w].prompt /\ ui'[w].frozen = FALSE
  BY <1>1 DEF Invariant, PartsSound, Dialogs
<1>5. ShellSound' /\ DeskSound' /\ TabsSound'
  BY <1>1, <1>2, <1>3, ShiftKeepsDesk DEF Invariant, ShellSound, TabsSound
<1>6. ASSUME NEW v \in Documents PROVE WindowSound(v)'
  BY <1>1, <1>4 DEF Invariant, PartsSound, WindowSound, Unsaved
<1>7. PartsSound'
  BY <1>1, <1>2, <1>4, <1>6 DEF Invariant, PartsSound, RegistryType, DiskType
<1> QED BY <1>3, <1>5, <1>7 DEF Invariant

\* The body of QuitIsUnanimous.
Unanimous ==
  \A w \in Documents \cap Documents' :
    quitting /\ ui'[w].leaving /\ ~ui[w].leaving /\ ~ui'[w].removed
      => \A v \in Documents : ui[v].removed \/ v \in registry.votes

\* No dialogs but those of the user's own closing begin to leave.
LEMMA NobodyLeaves ==
  ASSUME Invariant, NEW w \in Documents,
         \A v \in Documents \ {w} : ui'[v].leaving => ui[v].leaving,
         ui'[w].leaving => ui[w].leaving \/ ui'[w].removed
  PROVE  Unanimous
BY DEF Unanimous

LEMMA ApprovedUnanimous ==
  ASSUME Invariant, NEW w \in Documents, NEW back, Approved(w, back)
  PROVE  Unanimous
<1>1. ui \in [Documents -> Dialogs]
  BY DEF Invariant, PartsSound
<1>2. CASE ui' = [ui EXCEPT ![w].prompt = FALSE]
  <2>1. ui'[w].leaving = ui[w].leaving /\ \A v \in Documents \ {w} : ui'[v] = ui[v]
    BY <1>1, <1>2 DEF Dialogs
  <2> QED BY <2>1, NobodyLeaves
<1>3. CASE ui' = [ui EXCEPT ![w].prompt = FALSE, ![w].back = back,
                            ![w].removed = TRUE, ![w].leaving = TRUE]
  <2>1. ui'[w].removed = TRUE /\ \A v \in Documents \ {w} : ui'[v] = ui[v]
    BY <1>1, <1>3 DEF Dialogs
  <2> QED BY <2>1, NobodyLeaves
<1> QED BY <1>2, <1>3 DEF Approved

LEMMA ClosingUnanimous ==
  ASSUME Invariant, NEW w \in Documents, Closing(w)
  PROVE  Unanimous
<1>1. ui \in [Documents -> Dialogs]
  BY DEF Invariant, PartsSound
<1>2. ASSUME NEW back, RequestClose(w, back) PROVE Unanimous
  <2>1. CASE ui' = [ui EXCEPT ![w].prompt = TRUE, ![w].back = back]
    <3>1. ui'[w].leaving = ui[w].leaving /\ \A v \in Documents \ {w} : ui'[v] = ui[v]
      BY <1>1, <2>1 DEF Dialogs
    <3> QED BY <3>1, NobodyLeaves
  <2>2. CASE Approved(w, back)
    BY <2>2, ApprovedUnanimous
  <2>3. CASE ui' = [ui EXCEPT ![w].prompt = FALSE, ![w].back = None]
    <3>1. ui'[w].leaving = ui[w].leaving /\ \A v \in Documents \ {w} : ui'[v] = ui[v]
      BY <1>1, <2>3 DEF Dialogs
    <3> QED BY <3>1, NobodyLeaves
  <2> QED BY <1>2, <2>1, <2>2, <2>3 DEF RequestClose
<1>3. CASE CloseHost(w)
  BY <1>2, <1>3 DEF CloseHost
<1>4. CASE CloseTab(w)
  BY <1>2, <1>4 DEF CloseTab
<1>5. CASE Discard(w)
  BY <1>5, ApprovedUnanimous DEF Discard
<1>6. CASE CancelClose(w)
  <2>1. ui' = [ui EXCEPT ![w].prompt = FALSE, ![w].frozen = FALSE, ![w].back = None]
    BY <1>6 DEF CancelClose
  <2>2. ui'[w].leaving = ui[w].leaving /\ \A v \in Documents \ {w} : ui'[v] = ui[v]
    BY <1>1, <2>1 DEF Dialogs
  <2> QED BY <2>2, NobodyLeaves
<1>7. CASE SaveBeforeClosing(w)
  <2>1. CASE ui' = [ui EXCEPT ![w].prompt = FALSE]
    <3>1. ui'[w].leaving = ui[w].leaving /\ \A v \in Documents \ {w} : ui'[v] = ui[v]
      BY <1>1, <2>1 DEF Dialogs
    <3> QED BY <3>1, NobodyLeaves
  <2>2. CASE Approved(w, ui[w].back)
    BY <2>2, ApprovedUnanimous
  <2> QED BY <1>7, <2>1, <2>2 DEF SaveBeforeClosing
<1> QED BY <1>3, <1>4, <1>5, <1>6, <1>7 DEF Closing

LEMMA PollUnanimous ==
  ASSUME Invariant, NEW w \in Documents, Poll(w)
  PROVE  Unanimous
<1>1. ui \in [Documents -> Dialogs]
  BY DEF Invariant, PartsSound
<1>2. CASE \E frozen \in BOOLEAN :
             ui' = [ui EXCEPT ![w].asked = registry.id, ![w].finished = FALSE,
                              ![w].frozen = frozen]
  <2>1. ui'[w].leaving = ui[w].leaving /\ \A v \in Documents \ {w} : ui'[v] = ui[v]
    BY <1>1, <1>2, AskedDialogs
  <2> QED BY <2>1, NobodyLeaves
<1>3. CASE Cancel(w)
  <2>1. ui' = [ui EXCEPT ![w].finished = TRUE, ![w].frozen = FALSE]
    BY <1>3 DEF Cancel
  <2>2. ui'[w].leaving = ui[w].leaving /\ \A v \in Documents \ {w} : ui'[v] = ui[v]
    BY <1>1, <2>1 DEF Dialogs
  <2> QED BY <2>2, NobodyLeaves
<1>4. CASE Close(w)
  <2>1. CASE registry.state = "confirming" /\ Awaited = <<>>
    BY <2>1, AllHaveVoted DEF Unanimous
  <2>2. CASE registry.state = "closing"
    BY <2>2 DEF Invariant, PartsSound, WindowSound, Unanimous
  <2> QED BY <1>4, <2>1, <2>2 DEF Close
<1> QED BY <1>2, <1>3, <1>4 DEF Poll, Confirm, Refuse

LEMMA OpenedUnanimous ==
  ASSUME Invariant, NEW m, NEW h, NEW welcome, Opened(m, h, welcome)
  PROVE  Unanimous
<1>1. PICK w \in Fresh : ui' = With(ui, w, Idle)
  BY DEF Opened
<1>2. w \notin Documents
  BY DEF Fresh, Invariant, DeskSound
<1>3. ui \in [Documents -> Dialogs]
  BY DEF Invariant, PartsSound
<1>4. \A v \in Documents : ui'[v] = ui[v]
  BY <1>1, <1>2, <1>3 DEF With
<1> QED BY <1>4 DEF Unanimous

LEMMA NextUnanimous ==
  ASSUME Invariant, [Next]_vars
  PROVE  Unanimous
<1>1. CASE UNCHANGED ui
  BY <1>1 DEF Unanimous
<1>2. CASE Starting
  BY <1>2 DEF Starting, Start, StartHome, StartWith, Begin, Unanimous, Invariant, ShellSound
<1>3. CASE \E m, h, welcome : Opened(m, h, welcome)
  BY <1>3, OpenedUnanimous
<1>4. CASE Crash
  <2>1. Documents' = {}
    BY <1>4 DEF Crash, NoDesk, Documents, ToSet
  <2> QED BY <2>1 DEF Unanimous
<1>5. ASSUME NEW w \in Documents, RemoveWindow(w) PROVE Unanimous
  <2>1. ui' = Without(ui, w) /\ desk' = Removed(w)
    BY <1>5 DEF RemoveWindow
  <2>2. Documents' = Documents \ {w}
    BY <2>1, RemovedDesk DEF Invariant, DeskSound, Windows, Documents
  <2>3. \A v \in Documents \ {w} : ui'[v] = ui[v]
    BY <2>1 DEF Without, Invariant, PartsSound
  <2> QED BY <2>2, <2>3 DEF Unanimous
<1>6. ASSUME NEW w \in Documents, Working(w) PROVE Unanimous
  <2>1. CASE OpenDialog(w) \/ EndDialog(w)
    <3>1. PICK kind \in {"none", "popup", "entry"} : ui' = [ui EXCEPT ![w].dialog = kind]
      BY <2>1 DEF OpenDialog, EndDialog
    <3>2. ui \in [Documents -> Dialogs]
      BY DEF Invariant, PartsSound
    <3>3. ui'[w].leaving = ui[w].leaving /\ \A v \in Documents \ {w} : ui'[v] = ui[v]
      BY <3>1, <3>2 DEF Dialogs
    <3> QED BY <3>3, NobodyLeaves
  <2>2. CASE Edit(w) \/ Save(w) \/ Checkpoint(w) \/ Activate(w)
    BY <1>1, <2>2 DEF Edit, Save, Checkpoint, Activate
  <2> QED BY <1>6, <2>1, <2>2 DEF Working
<1>7. CASE Open \/ OpenNew \/ Reopen
  <2>1. UNCHANGED ui \/ \E m, h, welcome : Opened(m, h, welcome)
    BY <1>7 DEF Open, OpenNew, Reopen, Welcomed
  <2> QED BY <1>1, <1>3, <2>1
<1>8. CASE Tabbing
  <2>1. UNCHANGED ui \/ \E m, h, welcome : Opened(m, h, welcome)
    BY <1>8 DEF Tabbing, NewTab, SwitchTab, MergeTabs, DetachTab, MoveTab, Rearranged, SaveTabs
  <2> QED BY <1>1, <1>3, <2>1
<1>9. CASE RequestQuit \/ QuitAlone
  BY <1>1, <1>9 DEF RequestQuit, QuitAlone
<1>10. CASE UNCHANGED vars
  BY <1>1, <1>10 DEF vars
<1>11. ASSUME NEW w \in Documents, Closing(w) \/ Poll(w) PROVE Unanimous
  BY <1>11, ClosingUnanimous, PollUnanimous
<1> QED BY <1>1, <1>2, <1>4, <1>5, <1>6, <1>7, <1>8, <1>9, <1>10, <1>11 DEF Next

-----------------------------------------------------------------------------
(***************************************************************************)
(* The theorems.                                                           *)
(***************************************************************************)
LEMMA NextKeeps ==
  ASSUME Invariant, [Next]_vars
  PROVE  Invariant' /\ HostsKept
<1>1. CASE Starting
  BY <1>1, StartKeeps, BeginAnewKeeps DEF Starting
<1>2. CASE Open \/ OpenNew \/ Reopen
  BY <1>2, OpenKeeps, OpenNewKeeps, ReopenKeeps
<1>3. CASE Tabbing
  BY <1>3, NewTabKeeps, RearrangedKeeps, SaveTabsKeeps DEF Tabbing
<1>4. CASE RequestQuit \/ QuitAlone \/ Crash
  BY <1>4, RequestQuitKeeps, QuitAloneKeeps, CrashKeeps
<1>5. ASSUME NEW w \in Documents, Working(w) PROVE Invariant' /\ HostsKept
  BY <1>5, EditKeeps, SaveKeeps, DialogKeeps, CheckpointKeeps, ActivateKeeps DEF Working
<1>6. ASSUME NEW w \in Documents, Closing(w) PROVE Invariant' /\ HostsKept
  BY <1>6, CloseHostKeeps, CloseTabKeeps, DiscardKeeps, CancelCloseKeeps,
     SaveBeforeClosingKeeps DEF Closing
<1>7. ASSUME NEW w \in Documents, RemoveWindow(w) \/ Poll(w) PROVE Invariant' /\ HostsKept
  BY <1>7, RemoveWindowKeeps, ConfirmKeeps, RefuseKeeps, CloseKeeps, CancelKeeps DEF Poll
<1>8. CASE UNCHANGED vars
  <2>1. Documents' = Documents
    BY <1>8 DEF vars, Documents
  <2>2. PartsSound'
    BY <1>8, <2>1, FrameKeepsParts DEF vars
  <2>3. Shifted /\ HostsKept
    BY <1>8, StillShifts DEF vars
  <2>4. ShellSound' /\ DeskSound'
    BY <1>8, <2>1, <2>3, ShiftKeepsDesk DEF vars, Invariant, ShellSound
  <2>5. TabsSound'
    BY <1>8, <2>1 DEF vars, Invariant, TabsSound
  <2> QED BY <2>2, <2>3, <2>4, <2>5 DEF Invariant
<1> QED BY <1>1, <1>2, <1>3, <1>4, <1>5, <1>6, <1>7, <1>8 DEF Next

\* Whatever users do, however often the process dies and however quits go, the windows
\* are in order (IsDesk), tabs.ini keeps those together that a quit closed, and every
\* window can rely on its registration, its snapshot and the others' votes
\* (src/macapplication.cpp, src/documentsession.h, src/documentrecovery.h).
THEOREM DesktopIsSound == Spec => []Invariant
<1>1. Invariant /\ [Next]_vars => Invariant'
  BY NextKeeps
<1> QED BY InitInvariant, <1>1, PTL DEF Spec

\* Every variable of the application keeps its type.
THEOREM DesktopTypeCorrect == Spec => []TypeOK
<1>1. Invariant => TypeOK
  BY InvariantParts
<1> QED BY DesktopIsSound, <1>1, PTL

\* A window that agreed to quit (voteQuit) has what no file has in its snapshot.
THEOREM VotesAreKept == Spec => []VotedIsKept
<1>1. Invariant => VotedIsKept
  BY InvariantParts
<1> QED BY DesktopIsSound, <1>1, PTL

\* What its user closed (approveClose) leaves no snapshot and does not come back.
THEOREM ClosedWindowsStay == Spec => []ClosedStaysClosed
<1>1. Invariant => ClosedStaysClosed
  BY InvariantParts
<1> QED BY DesktopIsSound, <1>1, PTL

\* A host that shows one of its tabs, or opens, does so after every step of the
\* application (activate, remove, moveDocument), whatever dialogs are open; unless
\* one of its tabs closes while something blocks it (remove ignores that activate
\* refuses), or is detached with something open behind another tab.
THEOREM HostsNeverBlank == Spec => NoHostGoesBlank
<1>1. Invariant /\ [Next]_vars
        => \A h \in Hosts(desk') :
             (h \in Hosts(desk) => Shows(desk, h))
               => \/ Shows(desk', h)
                  \/ ~quitting /\ \E w \in Documents : desk.host[w] = h /\ Exempt(w)
  BY NextKeeps DEF HostsKept, Excused
<1> QED BY DesktopIsSound, <1>1, PTL DEF Spec, NoHostGoesBlank

\* No window closes for a quit (pollQuit) before all have agreed to it.
THEOREM QuitsAreUnanimous == Spec => QuitIsUnanimous
<1>1. Invariant /\ [Next]_vars
        => \A w \in Documents \cap Documents' :
             quitting /\ ui'[w].leaving /\ ~ui[w].leaving /\ ~ui'[w].removed
               => \A v \in Documents : ui[v].removed \/ v \in registry.votes
  BY NextUnanimous DEF Unanimous
<1> QED BY DesktopIsSound, <1>1, PTL DEF Spec, QuitIsUnanimous

\* Windows that come back after a quit (restoreTabs) share a host as they did.
THEOREM QuitsKeepTabs == Spec => QuitKeepsTabs
<1>1. Invariant /\ [Next]_vars
        => (Start => \A v, w \in Documents' \cap DOMAIN left :
                       desk'.host[v] = desk'.host[w] <=> left[v] = left[w])
  BY StartKeeps DEF TabsComeBack
<1> QED BY DesktopIsSound, <1>1, PTL DEF Spec, QuitKeepsTabs

=============================================================================
