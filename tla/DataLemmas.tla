----------------------------- MODULE DataLemmas -----------------------------
(***************************************************************************)
(* Facts about numbers and sequences that the proofs need and the provers  *)
(* do not know.  A set of numbers has a least element, and what holds of   *)
(* zero and with every number of the next one holds of all: the library    *)
(* states them with an operator as parameter; here it is a set.            *)
(***************************************************************************)
EXTENDS Integers, Sequences, SequencesExt, FiniteSetsExt, SequenceTools,
        FiniteSetTheorems, SequenceTheorems, TLAPS


\* The least element is found among the initial segments below one.
LEMMA LeastExists ==
  ASSUME NEW S \in SUBSET Nat, NEW k \in S
  PROVE  Min(S) \in S /\ \A y \in S : Min(S) <= y
<1> DEFINE Below == {0..n : n \in {m \in S : m <= k}}
           R     == StrictSubsetOrdering(0..k)
<1>1. Below \subseteq FiniteSubsetsOf(0..k) /\ 0..k \in Below
  <2>1. \A n \in Nat : IsFiniteSet(0..n)
    BY FS_Interval
  <2> QED BY <2>1 DEF FiniteSubsetsOf
<1>2. IsWellFoundedOn(R, FiniteSubsetsOf(0..k))
  BY FS_StrictSubsetOrderingWellFounded
<1>3. PICK x \in Below : \A y \in Below : <<y, x>> \notin R
  <2> HIDE DEF Below, R
  <2> QED BY <1>1, <1>2, WFMin
<1>4. PICK n \in S : n <= k /\ x = 0..n
  OBVIOUS
<1>5. ASSUME NEW m \in S PROVE n <= m
  <2>1. SUFFICES ASSUME m < n PROVE FALSE
    OBVIOUS
  <2>2. 0..m \in Below /\ m <= k
    BY <1>4, <2>1
  <2>3. 0..m \subseteq 0..n /\ n \notin 0..m /\ n \in 0..n
    BY <2>1
  <2>4. <<0..m, 0..n>> \in R
    BY <1>4, <2>2, <2>3 DEF StrictSubsetOrdering
  <2> QED BY <1>3, <1>4, <2>2, <2>4
<1> QED BY <1>5 DEF Min

LEMMA InductiveSet ==
  ASSUME NEW S \in SUBSET Nat, 0 \in S, \A n \in S : n + 1 \in S
  PROVE  S = Nat
<1>1. SUFFICES ASSUME NEW k \in Nat \ S PROVE FALSE
  OBVIOUS
<1> DEFINE m == Min(Nat \ S)
<1>2. m \in Nat \ S /\ \A y \in Nat \ S : m <= y
  BY <1>1, LeastExists
<1> HIDE DEF m
<1>3. m # 0 /\ m - 1 \in Nat /\ m - 1 \notin Nat \ S
  BY <1>2
<1> QED BY <1>2, <1>3

-----------------------------------------------------------------------------
(***************************************************************************)
(* Sequences and what is in them.                                          *)
(***************************************************************************)
LEMMA MembersOf ==
  ASSUME NEW T, NEW s \in Seq(T)
  PROVE  /\ ToSet(s) = {s[k] : k \in 1 .. Len(s)} /\ ToSet(s) \subseteq T /\ Len(s) \in Nat
         /\ s \in Seq(ToSet(s)) /\ ToSet(<<>>) = {}
         /\ s # <<>> => Head(s) \in ToSet(s) /\ Last(s) \in ToSet(s) /\ Len(s) > 0
         /\ (s = <<>>) <=> (ToSet(s) = {})
<1>1. ToSet(s) = {s[k] : k \in 1 .. Len(s)} /\ ToSet(s) \subseteq T /\ Len(s) \in Nat
  BY LenProperties DEF ToSet
<1>2. ToSet(<<>>) = {}
  BY DEF ToSet
<1>3. s \in [1 .. Len(s) -> ToSet(s)]
  BY <1>1, LenProperties
<1>4. s \in Seq(ToSet(s))
  BY <1>1, <1>3
<1>5. ASSUME s # <<>> PROVE Head(s) \in ToSet(s) /\ Last(s) \in ToSet(s) /\ Len(s) > 0
  <2>1. Len(s) \in Nat \ {0}
    BY <1>5, EmptySeq
  <2>2. 1 \in 1 .. Len(s) /\ Len(s) \in 1 .. Len(s)
    BY <2>1
  <2>3. Head(s) \in ToSet(s)
    BY <1>4, <1>5, HeadTailProperties
  <2> QED BY <1>1, <2>1, <2>2, <2>3 DEF Last
<1> QED BY <1>1, <1>2, <1>4, <1>5

LEMMA AppendMembers ==
  ASSUME NEW T, NEW s \in Seq(T), NEW e \in T
  PROVE  /\ Append(s, e) \in Seq(T) /\ ToSet(Append(s, e)) = ToSet(s) \cup {e}
         /\ IsInjective(s) /\ e \notin ToSet(s) => IsInjective(Append(s, e))
<1> DEFINE t == Append(s, e)
<1>1. /\ t \in Seq(T) /\ Len(t) = Len(s) + 1 /\ Len(s) \in Nat
      /\ \A k \in 1 .. Len(s) : t[k] = s[k]
      /\ t[Len(s) + 1] = e /\ DOMAIN t = 1 .. Len(s) + 1 /\ DOMAIN s = 1 .. Len(s)
  BY AppendProperties, LenProperties
<1>2. ToSet(s) = {s[k] : k \in 1 .. Len(s)} /\ ToSet(t) = {t[k] : k \in 1 .. Len(s) + 1}
  BY <1>1 DEF ToSet
<1> HIDE DEF t
<1>3. ToSet(t) = ToSet(s) \cup {e}
  BY <1>1, <1>2
<1>4. ASSUME IsInjective(s), e \notin ToSet(s) PROVE IsInjective(t)
  <2>1. \A k \in 1 .. Len(s) : t[k] # e
    BY <1>1, <1>2, <1>4
  <2>2. SUFFICES ASSUME NEW j \in 1 .. Len(s) + 1, NEW k \in 1 .. Len(s) + 1, t[j] = t[k]
                 PROVE  j = k
    BY <1>1 DEF IsInjective
  <2>3. CASE j = Len(s) + 1 \/ k = Len(s) + 1
    BY <1>1, <2>1, <2>2, <2>3
  <2>4. CASE j \in 1 .. Len(s) /\ k \in 1 .. Len(s)
    BY <1>1, <1>4, <2>2, <2>4 DEF IsInjective
  <2> QED BY <1>1, <2>3, <2>4
<1> QED BY <1>1, <1>3, <1>4 DEF t

LEMMA ConcatMembers ==
  ASSUME NEW T, NEW s \in Seq(T), NEW t \in Seq(T)
  PROVE  /\ s \o t \in Seq(T) /\ ToSet(s \o t) = ToSet(s) \cup ToSet(t)
         /\ IsInjective(s) /\ IsInjective(t) /\ ToSet(s) \cap ToSet(t) = {}
              => IsInjective(s \o t)
<1> DEFINE u == s \o t
<1>1. /\ u \in Seq(T) /\ Len(u) = Len(s) + Len(t) /\ Len(s) \in Nat /\ Len(t) \in Nat
      /\ \A k \in 1 .. Len(s) + Len(t) : u[k] = IF k <= Len(s) THEN s[k] ELSE t[k - Len(s)]
      /\ DOMAIN u = 1 .. Len(s) + Len(t) /\ DOMAIN s = 1 .. Len(s) /\ DOMAIN t = 1 .. Len(t)
  BY ConcatProperties, LenProperties
<1>2. /\ ToSet(s) = {s[k] : k \in 1 .. Len(s)} /\ ToSet(t) = {t[k] : k \in 1 .. Len(t)}
      /\ ToSet(u) = {u[k] : k \in 1 .. Len(s) + Len(t)}
  BY <1>1 DEF ToSet
<1> HIDE DEF u
<1>3. ASSUME NEW k \in 1 .. Len(s) + Len(t)
      PROVE  \/ k \in 1 .. Len(s) /\ u[k] = s[k] /\ u[k] \in ToSet(s)
             \/ k - Len(s) \in 1 .. Len(t) /\ u[k] = t[k - Len(s)] /\ u[k] \in ToSet(t)
  <2>1. CASE k <= Len(s)
    <3>1. k \in 1 .. Len(s)
      BY <1>1, <2>1
    <3> QED BY <1>1, <1>2, <2>1, <3>1
  <2>2. CASE ~(k <= Len(s))
    <3>1. k - Len(s) \in 1 .. Len(t)
      BY <1>1, <2>2
    <3> QED BY <1>1, <1>2, <2>2, <3>1
  <2> QED BY <2>1, <2>2
<1>4. \A k \in 1 .. Len(s) : k \in 1 .. Len(s) + Len(t) /\ u[k] = s[k]
  BY <1>1
<1>5. ASSUME NEW k \in 1 .. Len(t)
      PROVE  k + Len(s) \in 1 .. Len(s) + Len(t) /\ u[k + Len(s)] = t[k]
  <2>1. k + Len(s) \in 1 .. Len(s) + Len(t) /\ ~(k + Len(s) <= Len(s)) /\ k + Len(s) - Len(s) = k
    BY <1>1
  <2> QED BY <1>1, <2>1
<1>6. ToSet(u) = ToSet(s) \cup ToSet(t)
  <2>1. ToSet(u) \subseteq ToSet(s) \cup ToSet(t)
    BY <1>2, <1>3
  <2>2. ToSet(s) \subseteq ToSet(u)
    BY <1>2, <1>4
  <2>3. ToSet(t) \subseteq ToSet(u)
    BY <1>2, <1>5
  <2> QED BY <2>1, <2>2, <2>3
<1>7. ASSUME IsInjective(s), IsInjective(t), ToSet(s) \cap ToSet(t) = {} PROVE IsInjective(u)
  <2>1. SUFFICES ASSUME NEW j \in 1 .. Len(s) + Len(t), NEW k \in 1 .. Len(s) + Len(t),
                        u[j] = u[k]
                 PROVE  j = k
    BY <1>1 DEF IsInjective
  <2>2. CASE u[j] \in ToSet(s)
    <3>1. j \in 1 .. Len(s) /\ k \in 1 .. Len(s) /\ s[j] = s[k]
      BY <1>3, <1>7, <2>1, <2>2
    <3> QED BY <1>1, <1>7, <3>1 DEF IsInjective
  <2>3. CASE u[j] \notin ToSet(s)
    <3>1. j - Len(s) \in 1 .. Len(t) /\ k - Len(s) \in 1 .. Len(t) /\ t[j - Len(s)] = t[k - Len(s)]
      BY <1>3, <1>7, <2>1, <2>3
    <3>2. j - Len(s) = k - Len(s)
      BY <1>1, <1>7, <3>1 DEF IsInjective
    <3> QED BY <1>1, <3>2
  <2> QED BY <2>2, <2>3
<1> QED BY <1>1, <1>6, <1>7 DEF u

\* Only: the recursion that it is defined by has a solution, and what that is.
Selecting(s, set, f, n) ==
  f = [k \in 0 .. n |-> IF k = 0 THEN <<>>
                        ELSE IF s[k] \in set THEN Append(f[k - 1], s[k]) ELSE f[k - 1]]

LEMMA SelectionExists ==
  ASSUME NEW s, NEW set, NEW n \in Nat
  PROVE  \E f : Selecting(s, set, f, n)
<1> DEFINE Solved == {k \in Nat : \E f : Selecting(s, set, f, k)}
<1>1. 0 \in Solved
  <2>1. Selecting(s, set, [k \in 0 .. 0 |-> <<>>], 0)
    BY DEF Selecting
  <2> QED BY <2>1
<1>2. ASSUME NEW k \in Solved PROVE k + 1 \in Solved
  <2>1. PICK f : Selecting(s, set, f, k)
    OBVIOUS
  <2> DEFINE last == IF s[k + 1] \in set THEN Append(f[k], s[k + 1]) ELSE f[k]
             g    == [m \in 0 .. k + 1 |-> IF m = k + 1 THEN last ELSE f[m]]
  <2>2. \A m \in 0 .. k : f[m] = IF m = 0 THEN <<>>
                                 ELSE IF s[m] \in set THEN Append(f[m - 1], s[m]) ELSE f[m - 1]
    BY <2>1 DEF Selecting
  <2>3. ASSUME NEW m \in 0 .. k + 1
        PROVE  g[m] = IF m = 0 THEN <<>>
                      ELSE IF s[m] \in set THEN Append(g[m - 1], s[m]) ELSE g[m - 1]
    <3>1. CASE m = k + 1
      BY <3>1
    <3>2. CASE m \in 0 .. k
      <4>1. g[m] = f[m] /\ (m # 0 => g[m - 1] = f[m - 1])
        BY <3>2
      <4> HIDE DEF g
      <4> QED BY <2>2, <3>2, <4>1
    <3> QED BY <3>1, <3>2
  <2>4. Selecting(s, set, g, k + 1)
    <3>1. g = [m \in 0 .. k + 1 |-> g[m]]
      OBVIOUS
    <3> HIDE DEF g
    <3> QED BY <2>3, <3>1 DEF Selecting
  <2> QED BY <2>4
<1> QED
  <2> HIDE DEF Solved
  <2>1. Solved \in SUBSET Nat
    BY DEF Solved
  <2>2. Solved = Nat
    BY <1>1, <1>2, <2>1, InductiveSet
  <2> QED BY <2>2 DEF Solved

\* What is in the set comes once.
Once(s, set) == \A j, k \in DOMAIN s : s[j] \in set /\ s[j] = s[k] => j = k

LEMMA OnlyMembers ==
  ASSUME NEW T, NEW s \in Seq(T), NEW set
  PROVE  /\ Only(s, set) \in Seq(T) /\ ToSet(Only(s, set)) = ToSet(s) \cap set
         /\ Once(s, set) => IsInjective(Only(s, set))
         /\ IsInjective(s) => IsInjective(Only(s, set))
<1> DEFINE f == CHOOSE g : Selecting(s, set, g, Len(s))
<1>1. Len(s) \in Nat /\ DOMAIN s = 1 .. Len(s) /\ \A k \in 1 .. Len(s) : s[k] \in T
  BY LenProperties
<1>2. Only(s, set) = f[Len(s)]
  BY DEF Only, Selecting
<1>3. Selecting(s, set, f, Len(s))
  BY <1>1, SelectionExists
<1> HIDE DEF f
<1>4. \A k \in 0 .. Len(s) : f[k] = IF k = 0 THEN <<>>
                                    ELSE IF s[k] \in set THEN Append(f[k - 1], s[k]) ELSE f[k - 1]
  BY <1>1, <1>3 DEF Selecting
<1> DEFINE Upto(k) == {s[j] : j \in 1 .. k}
           Done == {k \in Nat : k <= Len(s) =>
                      /\ f[k] \in Seq(T) /\ ToSet(f[k]) = Upto(k) \cap set
                      /\ Once(s, set) => IsInjective(f[k])}
<1>5. 0 \in Done
  <2>1. 0 \in 0 .. Len(s) /\ Upto(0) = {}
    BY <1>1
  <2>2. f[0] = <<>> /\ <<>> \in Seq(T) /\ ToSet(<<>>) = {} /\ IsInjective(<<>>)
    BY <1>4, <2>1, EmptySeq DEF ToSet, IsInjective
  <2> QED BY <2>1, <2>2
<1>6. ASSUME NEW k \in Done PROVE k + 1 \in Done
  <2>1. SUFFICES ASSUME k + 1 <= Len(s)
                 PROVE  /\ f[k + 1] \in Seq(T) /\ ToSet(f[k + 1]) = Upto(k + 1) \cap set
                        /\ Once(s, set) => IsInjective(f[k + 1])
    OBVIOUS
  <2>2. k \in Nat /\ k + 1 \in 0 .. Len(s) /\ k + 1 \in 1 .. Len(s) /\ k + 1 # 0 /\ k + 1 - 1 = k
    BY <1>1, <2>1
  <2>3. f[k + 1] = IF s[k + 1] \in set THEN Append(f[k], s[k + 1]) ELSE f[k]
    BY <1>4, <2>2
  <2>4. /\ f[k] \in Seq(T) /\ ToSet(f[k]) = Upto(k) \cap set
        /\ Once(s, set) => IsInjective(f[k])
    BY <1>1, <2>1, <2>2
  <2>5. Upto(k + 1) = Upto(k) \cup {s[k + 1]}
    BY <2>2
  <2>6. Once(s, set) /\ s[k + 1] \in set => s[k + 1] \notin Upto(k)
    <3> SUFFICES ASSUME Once(s, set), s[k + 1] \in set, NEW j \in 1 .. k PROVE s[k + 1] # s[j]
      OBVIOUS
    <3>1. j \in 1 .. Len(s) /\ j # k + 1
      BY <1>1, <2>1, <2>2
    <3> QED BY <1>1, <2>2, <3>1 DEF Once
  <2>7. s[k + 1] \in T
    BY <1>1, <2>2
  <2>8. /\ Append(f[k], s[k + 1]) \in Seq(T)
        /\ ToSet(Append(f[k], s[k + 1])) = ToSet(f[k]) \cup {s[k + 1]}
        /\ IsInjective(f[k]) /\ s[k + 1] \notin ToSet(f[k]) => IsInjective(Append(f[k], s[k + 1]))
    BY <2>4, <2>7, AppendMembers
  <2> HIDE DEF Upto, Done
  <2> QED BY <2>3, <2>4, <2>5, <2>6, <2>8
<1>7. Len(s) \in Done
  <2> HIDE DEF Done
  <2>1. Done \in SUBSET Nat
    BY DEF Done
  <2>2. Done = Nat
    BY <1>5, <1>6, <2>1, InductiveSet
  <2> QED BY <1>1, <2>2
<1>8. ToSet(s) = Upto(Len(s))
  BY <1>1 DEF ToSet
<1>9. IsInjective(s) => Once(s, set)
  BY DEF IsInjective, Once
<1> HIDE DEF Upto
<1> QED BY <1>1, <1>2, <1>7, <1>8, <1>9

\* FlattenSeq: what the sequences have together, and once if no two share it.
Flattening(ss, f, n) ==
  f = [k \in 1 .. n |-> IF k = 1 THEN ss[k] ELSE f[k - 1] \o ss[k]]

LEMMA FlatExists ==
  ASSUME NEW ss, NEW n \in Nat
  PROVE  \E f : Flattening(ss, f, n)
<1> DEFINE Solved == {k \in Nat : \E f : Flattening(ss, f, k)}
<1>1. 0 \in Solved
  <2>1. Flattening(ss, [k \in 1 .. 0 |-> <<>>], 0)
    BY DEF Flattening
  <2> QED BY <2>1
<1>2. ASSUME NEW k \in Solved PROVE k + 1 \in Solved
  <2>1. PICK f : Flattening(ss, f, k)
    OBVIOUS
  <2> DEFINE last == IF k + 1 = 1 THEN ss[k + 1] ELSE f[k] \o ss[k + 1]
             g    == [m \in 1 .. k + 1 |-> IF m = k + 1 THEN last ELSE f[m]]
  <2>2. \A m \in 1 .. k : f[m] = IF m = 1 THEN ss[m] ELSE f[m - 1] \o ss[m]
    BY <2>1 DEF Flattening
  <2>3. ASSUME NEW m \in 1 .. k + 1
        PROVE  g[m] = IF m = 1 THEN ss[m] ELSE g[m - 1] \o ss[m]
    <3>1. CASE m = k + 1
      BY <3>1
    <3>2. CASE m \in 1 .. k
      <4>1. g[m] = f[m] /\ (m # 1 => g[m - 1] = f[m - 1])
        BY <3>2
      <4> HIDE DEF g
      <4> QED BY <2>2, <3>2, <4>1
    <3> QED BY <3>1, <3>2
  <2>4. Flattening(ss, g, k + 1)
    <3>1. g = [m \in 1 .. k + 1 |-> g[m]]
      OBVIOUS
    <3> HIDE DEF g
    <3> QED BY <2>3, <3>1 DEF Flattening
  <2> QED BY <2>4
<1> QED
  <2> HIDE DEF Solved
  <2>1. Solved \in SUBSET Nat
    BY DEF Solved
  <2>2. Solved = Nat
    BY <1>1, <1>2, <2>1, InductiveSet
  <2> QED BY <2>2 DEF Solved

\* No two of the sequences share a member, and none repeats one.
Apart(ss) ==
  \A j, k \in DOMAIN ss :
    IsInjective(ss[k]) /\ (j # k => ToSet(ss[j]) \cap ToSet(ss[k]) = {})

LEMMA FlatMembers ==
  ASSUME NEW T, NEW ss \in Seq(Seq(T))
  PROVE  /\ FlattenSeq(ss) \in Seq(T)
         /\ ToSet(FlattenSeq(ss)) = UNION {ToSet(ss[k]) : k \in 1 .. Len(ss)}
         /\ Apart(ss) => IsInjective(FlattenSeq(ss))
<1>1. Len(ss) \in Nat /\ DOMAIN ss = 1 .. Len(ss) /\ \A k \in 1 .. Len(ss) : ss[k] \in Seq(T)
  BY LenProperties
<1>2. CASE Len(ss) = 0
  <2>1. ss = <<>>
    BY <1>2, EmptySeq
  <2>2. FlattenSeq(ss) = <<>>
    BY <1>2, <2>1 DEF FlattenSeq
  <2>3. <<>> \in Seq(T) /\ ToSet(<<>>) = {} /\ IsInjective(<<>>)
    BY EmptySeq DEF ToSet, IsInjective
  <2>4. 1 .. Len(ss) = {}
    BY <1>2
  <2> QED BY <2>2, <2>3, <2>4
<1>3. CASE Len(ss) # 0
  <2> DEFINE f == CHOOSE g : Flattening(ss, g, Len(ss))
  <2>1. FlattenSeq(ss) = f[Len(ss)]
    BY <1>3 DEF FlattenSeq, Flattening
  <2>2. Flattening(ss, f, Len(ss))
    BY <1>1, FlatExists
  <2> HIDE DEF f
  <2>3. \A k \in 1 .. Len(ss) : f[k] = IF k = 1 THEN ss[k] ELSE f[k - 1] \o ss[k]
    BY <1>1, <2>2 DEF Flattening
  <2> DEFINE Upto(k) == UNION {ToSet(ss[j]) : j \in 1 .. k}
             Done == {k \in Nat : k + 1 <= Len(ss) =>
                        /\ f[k + 1] \in Seq(T) /\ ToSet(f[k + 1]) = Upto(k + 1)
                        /\ Apart(ss) => IsInjective(f[k + 1])}
  <2>4. 0 \in Done
    <3>1. 1 \in 1 .. Len(ss) /\ 0 + 1 = 1
      BY <1>1, <1>3
    <3>2. f[1] = ss[1] /\ ss[1] \in Seq(T) /\ (Apart(ss) => IsInjective(ss[1]))
      BY <1>1, <2>3, <3>1 DEF Apart
    <3>3. Upto(1) = ToSet(ss[1])
      OBVIOUS
    <3> HIDE DEF Upto
    <3> QED BY <3>1, <3>2, <3>3
  <2>5. ASSUME NEW k \in Done PROVE k + 1 \in Done
    <3>1. SUFFICES ASSUME k + 1 + 1 <= Len(ss)
                   PROVE  /\ f[k + 1 + 1] \in Seq(T) /\ ToSet(f[k + 1 + 1]) = Upto(k + 1 + 1)
                          /\ Apart(ss) => IsInjective(f[k + 1 + 1])
      OBVIOUS
    <3> DEFINE n == k + 1
    <3>2. n \in Nat /\ n >= 1 /\ n + 1 \in 1 .. Len(ss) /\ n + 1 # 1 /\ n + 1 - 1 = n /\ n <= Len(ss)
      BY <1>1, <3>1
    <3>3. f[n + 1] = f[n] \o ss[n + 1] /\ ss[n + 1] \in Seq(T)
      <4>1. \A m \in 1 .. Len(ss) : m # 1 => f[m] = f[m - 1] \o ss[m]
        BY <2>3
      <4> HIDE DEF n, Done, Upto
      <4>2. PICK m \in 1 .. Len(ss) : m = n + 1 /\ m - 1 = n /\ m # 1
        BY <3>2
      <4>3. f[m] = f[m - 1] \o ss[m] /\ ss[m] \in Seq(T)
        BY <1>1, <4>1, <4>2
      <4> QED BY <4>2, <4>3
    <3>4. /\ f[n] \in Seq(T) /\ ToSet(f[n]) = Upto(n)
          /\ Apart(ss) => IsInjective(f[n])
      BY <1>1, <3>1
    <3>5. Upto(n + 1) = Upto(n) \cup ToSet(ss[n + 1])
      <4>1. 1 .. n + 1 = (1 .. n) \cup {n + 1}
        BY <3>2
      <4> QED BY <4>1
    <3>6. Apart(ss) => Upto(n) \cap ToSet(ss[n + 1]) = {} /\ IsInjective(ss[n + 1])
      <4> SUFFICES ASSUME Apart(ss), NEW j \in 1 .. n
                   PROVE  ToSet(ss[j]) \cap ToSet(ss[n + 1]) = {} /\ IsInjective(ss[n + 1])
        BY <3>2
      <4>1. j \in 1 .. Len(ss) /\ j # n + 1
        BY <1>1, <3>2
      <4> QED BY <1>1, <3>2, <4>1 DEF Apart
    <3>7. /\ f[n] \o ss[n + 1] \in Seq(T)
          /\ ToSet(f[n] \o ss[n + 1]) = ToSet(f[n]) \cup ToSet(ss[n + 1])
          /\ IsInjective(f[n]) /\ IsInjective(ss[n + 1]) /\ ToSet(f[n]) \cap ToSet(ss[n + 1]) = {}
               => IsInjective(f[n] \o ss[n + 1])
      BY <3>3, <3>4, ConcatMembers
    <3> HIDE DEF Upto, Done
    <3> QED BY <3>3, <3>4, <3>5, <3>6, <3>7
  <2>6. Len(ss) - 1 \in Done
    <3> HIDE DEF Done
    <3>1. Done \in SUBSET Nat
      BY DEF Done
    <3>2. Done = Nat
      BY <2>4, <2>5, <3>1, InductiveSet
    <3> QED BY <1>1, <1>3, <3>2
  <2>7. Len(ss) - 1 + 1 = Len(ss)
    BY <1>1
  <2> HIDE DEF Upto
  <2> QED BY <1>1, <2>1, <2>6, <2>7 DEF Upto
<1> QED BY <1>2, <1>3

LEMMA PositionOf ==
  ASSUME NEW T, NEW s \in Seq(T), NEW e \in ToSet(s)
  PROVE  Position(s, e) \in 1 .. Len(s) /\ s[Position(s, e)] = e
<1>1. \E k \in DOMAIN s : s[k] = e
  BY DEF ToSet
<1>2. Position(s, e) \in DOMAIN s /\ s[Position(s, e)] = e
  BY <1>1 DEF Position
<1> QED BY <1>2, LenProperties
=============================================================================
