---------------------------- MODULE ConsoleProofs ----------------------------
(***************************************************************************)
(* Console, for a text screen of any size, any messages and any leftovers: *)
(* the screen shows the end of the text, only the top line is ever lost,   *)
(* and a log call leaves its line, once and whole, at both its readers.    *)
(*                                                                         *)
(* The screen is followed by position: all visible cells of the text lie   *)
(* before the place of the next character, so a character comes last and   *)
(* a scroll takes the first row. A log call is followed by place: what it  *)
(* has left to do is always the rest of one of its parts and all of the    *)
(* parts after it, and what it has done is the beginning of that part.     *)
(***************************************************************************)
EXTENDS Console, FiniteSetTheorems, SequenceTheorems, TLAPS

---------------------------------------------------------------------------
(* Positions in order *)

UpTo(S, i) == {j \in S : j <= i}

\* A set of numbers has a least one (the library's induction rules take a predicate,
\* which the provers cannot instantiate; this one takes a set).
LEMMA LeastOne ==
    ASSUME NEW T \in SUBSET Nat, T # {}
    PROVE  \E n \in T : \A m \in T : n <= m
<1> DEFINE R == OpToRel(<, Nat)
<1>1. IsWellFoundedOn(R, Nat)
  BY NatLessThanWellFounded
<1>2. \E x \in T : \A y \in T : ~ (<<y, x>> \in R)
  <2> HIDE DEF R
  <2> QED BY <1>1, WFMin
<1>3. \A x, y \in Nat : y < x => <<y, x>> \in R
  BY DEF OpToRel
<1> HIDE DEF R
<1>4. PICK x \in T : \A y \in T : ~ (<<y, x>> \in R)
  BY <1>2
<1>5. \A y \in T : x \in Nat /\ y \in Nat /\ ~ (y < x)
  BY <1>3, <1>4
<1>6. \A y \in T : x <= y
  BY <1>5
<1> QED
  BY <1>6

\* A larger position has more positions below it.
LEMMA RankGrows ==
    ASSUME NEW S \in SUBSET Nat, IsFiniteSet(S), NEW i \in S, NEW j \in S, i < j
    PROVE  /\ Cardinality(UpTo(S, i)) \in Nat /\ Cardinality(UpTo(S, j)) \in Nat
           /\ Cardinality(UpTo(S, i)) < Cardinality(UpTo(S, j))
<1>0. i \in Nat /\ j \in Nat /\ \A x \in S : x \in Nat
  OBVIOUS
<1>1. /\ UpTo(S, i) \in SUBSET UpTo(S, j) /\ UpTo(S, j) \in SUBSET S
      /\ j \in UpTo(S, j) /\ j \notin UpTo(S, i)
  <2>1. \A x \in S : x <= i => x <= j  BY <1>0
  <2>2. j <= j /\ ~ (j <= i)  BY <1>0
  <2> QED BY <2>1, <2>2 DEF UpTo
<1>2. IsFiniteSet(UpTo(S, j))
  BY <1>1, FS_Subset
<1>3. IsFiniteSet(UpTo(S, i)) /\ Cardinality(UpTo(S, i)) <= Cardinality(UpTo(S, j))
      /\ (Cardinality(UpTo(S, j)) = Cardinality(UpTo(S, i)) => UpTo(S, j) = UpTo(S, i))
  BY <1>1, <1>2, FS_Subset
<1>4. Cardinality(UpTo(S, j)) # Cardinality(UpTo(S, i))
  BY <1>1, <1>3
<1> QED
  BY <1>2, <1>3, <1>4, FS_CardinalityType

\* The position with k positions up to it is the k-th.
LEMMA NthIs ==
    ASSUME NEW S \in SUBSET Nat, IsFiniteSet(S), NEW i \in S
    PROVE  /\ Cardinality(UpTo(S, i)) \in 1 .. Cardinality(S)
           /\ Nth(S, Cardinality(UpTo(S, i))) = i
<1> DEFINE k == Cardinality(UpTo(S, i))
<1>1. UpTo(S, i) \in SUBSET S /\ i \in UpTo(S, i)
  BY DEF UpTo
<1>2. k \in Nat /\ Cardinality(S) \in Nat /\ k <= Cardinality(S) /\ k # 0
  <2>1. IsFiniteSet(UpTo(S, i)) /\ k <= Cardinality(S)  BY <1>1, FS_Subset
  <2>2. k # 0  BY <1>1, <2>1, FS_EmptySet
  <2> QED BY <2>1, <2>2, FS_CardinalityType
<1>3. \A j \in S : Cardinality(UpTo(S, j)) = k => j = i
  <2> SUFFICES ASSUME NEW j \in S, Cardinality(UpTo(S, j)) = k, j # i PROVE FALSE
    OBVIOUS
  <2>1. CASE i < j  BY <2>1, RankGrows
  <2>2. CASE j < i  BY <2>2, RankGrows
  <2> QED BY <2>1, <2>2
<1>4. Nth(S, k) = CHOOSE j \in S : Cardinality(UpTo(S, j)) = k
  BY DEF Nth, UpTo
<1> QED
  BY <1>2, <1>3, <1>4

\* Every number up to the size of the set is the rank of a position.
LEMMA NthExists ==
    ASSUME NEW S \in SUBSET Nat, IsFiniteSet(S), NEW k \in 1 .. Cardinality(S)
    PROVE  /\ Nth(S, k) \in S
           /\ Cardinality(UpTo(S, Nth(S, k))) = k
<1> DEFINE T == {n \in 1 .. Cardinality(S) : \A i \in S : Cardinality(UpTo(S, i)) # n}
<1>0. Cardinality(S) \in Nat
  BY FS_CardinalityType
<1>1. T = {}
  <2> SUFFICES ASSUME T # {} PROVE FALSE
    OBVIOUS
  <2>1. PICK n \in T : \A m \in T : n <= m
    <3>1. T \in SUBSET Nat  BY <1>0
    <3> HIDE DEF T
    <3> QED BY <3>1, LeastOne
  <2>2. n \in 1 .. Cardinality(S) /\ \A i \in S : Cardinality(UpTo(S, i)) # n
    OBVIOUS
  <2> DEFINE low == IF n = 1 THEN {} ELSE UpTo(S, Nth(S, n - 1))
             high == S \ low
  <2>3. low \in SUBSET S /\ IsFiniteSet(low) /\ Cardinality(low) = n - 1
        /\ \A i \in low, j \in high : i < j
    <3>1. CASE n = 1
      BY <3>1, FS_EmptySet
    <3>2. CASE n # 1
      <4>1. n - 1 \in 1 .. Cardinality(S) /\ ~ (n <= n - 1)  BY <2>2, <1>0, <3>2
      <4>2. n - 1 \notin T  BY <2>1, <4>1
      <4>3. PICK i \in S : Cardinality(UpTo(S, i)) = n - 1  BY <4>1, <4>2
      <4>4. Nth(S, n - 1) = i  BY <4>3, NthIs
      <4>5. low = UpTo(S, i)  BY <4>4, <3>2
      <4>6. low \in SUBSET S /\ \A x \in low, y \in high : x < y
        <5>1. \A x \in low : x \in S /\ x <= i  BY <4>5 DEF UpTo
        <5>2. \A y \in high : y \in S /\ ~ (y <= i)  BY <4>5 DEF UpTo
        <5>3. \A x \in low, y \in high : x \in Nat /\ y \in Nat /\ x <= i /\ ~ (y <= i)
          BY <5>1, <5>2
        <5>4. i \in Nat  OBVIOUS
        <5> HIDE DEF low, high
        <5> QED BY <5>1, <5>3, <5>4
      <4> QED BY <4>3, <4>5, <4>6, FS_Subset
    <3> QED BY <3>1, <3>2
  <2>4. high # {}
    <3>1. high = {} => low = S  BY <2>3
    <3> HIDE DEF low, high
    <3> QED BY <3>1, <2>2, <2>3, <1>0
  <2>5. PICK m \in high : \A j \in high : m <= j
    <3>1. high \in SUBSET Nat  OBVIOUS
    <3> HIDE DEF high
    <3> QED BY <3>1, <2>4, LeastOne
  <2>6. UpTo(S, m) = low \cup {m}
    <3>1. m \in S /\ high \subseteq S /\ \A j \in S : j \in low \/ j \in high
      OBVIOUS
    <3> HIDE DEF low, high
    <3>2. \A i \in low : i \in Nat /\ m \in Nat /\ i < m  BY <2>3, <2>5, <3>1
    <3>3. \A j \in S : j <= m => j \in low \/ j = m
      <4>1. \A j \in high : j \in Nat /\ m \in Nat /\ m <= j  BY <2>5, <3>1
      <4> QED BY <3>1, <4>1
    <3>4. \A j \in low \cup {m} : j \in S /\ j <= m  BY <2>3, <3>1, <3>2
    <3> QED BY <3>3, <3>4 DEF UpTo
  <2>7. Cardinality(UpTo(S, m)) = n - 1 + 1
    <3>1. m \notin low  BY <2>5
    <3> HIDE DEF low, high
    <3> QED BY <2>3, <2>6, <3>1, FS_AddElement
  <2> QED BY <2>2, <2>5, <2>7
<1>2. PICK i \in S : Cardinality(UpTo(S, i)) = k
  BY <1>1
<1>3. Nth(S, k) = i
  BY <1>2, NthIs
<1> QED
  BY <1>2, <1>3

\* A further position after all the others is the last.
LEMMA AddLast ==
    ASSUME NEW S \in SUBSET Nat, IsFiniteSet(S), NEW m \in Nat, \A i \in S : i < m
    PROVE  /\ IsFiniteSet(S \cup {m}) /\ Cardinality(S) \in Nat
           /\ Cardinality(S \cup {m}) = Cardinality(S) + 1
           /\ \A k \in 1 .. Cardinality(S) : Nth(S \cup {m}, k) = Nth(S, k)
           /\ Nth(S \cup {m}, Cardinality(S) + 1) = m
<1> DEFINE U == S \cup {m}
           n == Cardinality(S)
<1>1. IsFiniteSet(U) /\ Cardinality(U) = n + 1 /\ n \in Nat
  BY FS_AddElement, FS_CardinalityType
<1>2. U \in SUBSET Nat /\ m \in U
  OBVIOUS
<1>3. UpTo(U, m) = U
  <2>1. \A i \in U : i <= m
    <3>1. \A i \in S : i \in Nat /\ i < m  OBVIOUS
    <3> QED BY <3>1
  <2> HIDE DEF U
  <2> QED BY <2>1 DEF UpTo
<1>4. Nth(U, n + 1) = m
  BY <1>1, <1>2, <1>3, NthIs
<1>5. ASSUME NEW k \in 1 .. n PROVE Nth(U, k) = Nth(S, k)
  <2>1. Nth(S, k) \in S /\ Cardinality(UpTo(S, Nth(S, k))) = k
    BY NthExists
  <2> DEFINE i == Nth(S, k)
  <2>2. UpTo(U, i) = UpTo(S, i)
    <3>1. i < m /\ i \in Nat  BY <2>1
    <3>2. ~ (m <= i)  BY <3>1
    <3> HIDE DEF i
    <3> QED BY <3>2 DEF UpTo
  <2>3. i \in U /\ Cardinality(UpTo(U, i)) = k  BY <2>1, <2>2
  <2> HIDE DEF i, U
  <2>4. Nth(U, k) = i  BY <1>1, <1>2, <2>3, NthIs
  <2> QED BY <2>4 DEF i
<1> QED
  BY <1>1, <1>4, <1>5

\* Positions that all move by c keep their order.
LEMMA MovedDown ==
    ASSUME NEW S \in SUBSET Nat, IsFiniteSet(S), NEW c \in Nat, NEW U,
           U = {i \in Nat : i + c \in S}, \A i \in S : i >= c,
           NEW f, NEW g, \A i \in U : g[i] = f[i + c]
    PROVE  IsFiniteSet(U) /\ InOrder(g, U) = InOrder(f, S)
<1> DEFINE down == [i \in S |-> i - c]
<1>1. U \in SUBSET Nat
  OBVIOUS
<1>2. /\ \A i \in S : i \in Nat /\ i - c \in U /\ (i - c) + c = i
      /\ \A i \in U : i \in Nat /\ i + c \in S /\ (i + c) - c = i
  OBVIOUS
<1>3. ASSUME NEW V \in SUBSET S, NEW W \in SUBSET U,
             \A i \in V : i - c \in W, \A i \in W : i + c \in V
      PROVE  IsFiniteSet(W) /\ Cardinality(W) = Cardinality(V)
  <2> DEFINE h == [i \in V |-> i - c]
  <2>1. IsFiniteSet(V)  BY FS_Subset
  <2>2. h \in [V -> W]  BY <1>3
  <2>3. \A i, j \in V : h[i] = h[j] => i = j  BY <1>2
  <2>4. \A j \in W : \E i \in V : h[i] = j
    <3> TAKE j \in W
    <3>1. j + c \in V /\ (j + c) - c = j  BY <1>2, <1>3
    <3> QED BY <3>1
  <2> HIDE DEF h
  <2>5. h \in Bijection(V, W)
    BY <2>2, <2>3, <2>4 DEF Bijection, Injection, Surjection, IsInjective
  <2>6. ExistsBijection(V, W)  BY <2>5 DEF ExistsBijection
  <2> QED BY <2>1, <2>6, FS_Bijection
<1>4. IsFiniteSet(U) /\ Cardinality(U) = Cardinality(S)
  BY <1>2, <1>3
<1>5. ASSUME NEW k \in 1 .. Cardinality(S) PROVE Nth(U, k) + c = Nth(S, k) /\ Nth(U, k) \in U
  <2> DEFINE i == Nth(S, k)
  <2>1. i \in S /\ Cardinality(UpTo(S, i)) = k  BY NthExists
  <2> HIDE DEF i
  <2>2. i - c \in U  BY <1>2, <2>1
  <2>3. Cardinality(UpTo(U, i - c)) = Cardinality(UpTo(S, i))
    <3>1. UpTo(S, i) \in SUBSET S /\ UpTo(U, i - c) \in SUBSET U  BY DEF UpTo
    <3>2. \A j \in UpTo(S, i) : j - c \in UpTo(U, i - c)
      BY <1>2, <2>1 DEF UpTo
    <3>3. \A j \in UpTo(U, i - c) : j + c \in UpTo(S, i)
      <4>1. i \in Nat  BY <2>1
      <4> QED BY <1>2, <2>1, <4>1 DEF UpTo
    <3> QED BY <3>1, <3>2, <3>3, <1>3
  <2>4. Nth(U, k) = i - c
    BY <1>1, <1>4, <2>1, <2>2, <2>3, NthIs
  <2>5. i \in Nat  BY <2>1
  <2> QED BY <1>2, <2>1, <2>2, <2>4, <2>5 DEF i
<1>6. \A k \in 1 .. Cardinality(S) : g[Nth(U, k)] = f[Nth(S, k)]
  BY <1>5
<1>7. InOrder(g, U) = [k \in 1 .. Cardinality(S) |-> g[Nth(U, k)]]
  BY <1>4 DEF InOrder
<1> QED
  BY <1>4, <1>6, <1>7 DEF InOrder

\* What a sequence of positions gives is a sequence of values.
LEMMA InOrderType ==
    ASSUME NEW S \in SUBSET Nat, IsFiniteSet(S), NEW V, NEW f, \A i \in S : f[i] \in V
    PROVE  InOrder(f, S) \in Seq(V) /\ Len(InOrder(f, S)) = Cardinality(S)
<1>1. Cardinality(S) \in Nat
  BY FS_CardinalityType
<1>2. \A k \in 1 .. Cardinality(S) : f[Nth(S, k)] \in V
  BY NthExists
<1> DEFINE n == Cardinality(S)
           s == InOrder(f, S)
<1>3. s = [k \in 1 .. n |-> f[Nth(S, k)]]
  BY DEF InOrder
<1> HIDE DEF s, n
<1>4. s \in [1 .. n -> V]
  BY <1>2, <1>3 DEF n
<1>5. s \in Seq(V) /\ Len(s) = n
  BY <1>1, <1>4 DEF n
<1> QED
  BY <1>5 DEF s, n

---------------------------------------------------------------------------
(* Suffixes *)

\* The library defines IsSuffix with Reverse; item by item it is this.
LEMMA SuffixMeans ==
    ASSUME NEW V, NEW s \in Seq(V), NEW t \in Seq(V)
    PROVE  IsSuffix(s, t) <=>
             /\ Len(s) <= Len(t)
             /\ \A k \in 1 .. Len(s) : s[k] = t[Len(t) - Len(s) + k]
<1> DEFINE m == Len(s)
           n == Len(t)
           rs == Reverse(s)
           rt == Reverse(t)
<1>1. m \in Nat /\ n \in Nat /\ (\A k \in 1 .. m : s[k] \in V) /\ (\A k \in 1 .. n : t[k] \in V)
  BY LenProperties, ElementOfSeq
<1>2. rs = [i \in 1 .. m |-> s[(m - i) + 1]] /\ rt = [i \in 1 .. n |-> t[(n - i) + 1]]
  BY DEF Reverse
<1> HIDE DEF m, n, rs, rt
<1>3. /\ \A i \in 1 .. m : rs[i] = s[(m - i) + 1] /\ rs[i] \in V
      /\ \A i \in 1 .. n : rt[i] = t[(n - i) + 1] /\ rt[i] \in V
  BY <1>1, <1>2
<1>4. Len(rs) = m /\ Len(rt) = n
  BY <1>1, <1>2
<1>5. IsSuffix(s, t) <=> m <= n /\ SubSeq(rs, 1, m) = SubSeq(rt, 1, m)
  BY <1>4 DEF IsSuffix, IsPrefix, rs, rt
<1>6. ASSUME m <= n
      PROVE  SubSeq(rs, 1, m) = SubSeq(rt, 1, m) <=> \A i \in 1 .. m : rs[i] = rt[i]
  <2> DEFINE a == SubSeq(rs, 1, m)
             b == SubSeq(rt, 1, m)
  <2>0. \A i \in 1 .. m : rs[i] \in V /\ rt[i] \in V /\ m \in Int
    BY <1>1, <1>3, <1>6
  <2>1. a \in Seq(V) /\ Len(a) = m /\ \A i \in 1 .. m : a[i] = rs[i]
    BY <1>1, <2>0, SubSeqProperties
  <2>2. b \in Seq(V) /\ Len(b) = m /\ \A i \in 1 .. m : b[i] = rt[i]
    BY <1>1, <2>0, SubSeqProperties
  <2> HIDE DEF a, b
  <2>3. (\A i \in 1 .. m : a[i] = b[i]) => a = b
    BY <2>1, <2>2, SeqEqual
  <2>4. (\A i \in 1 .. m : rs[i] = rt[i]) => a = b
    BY <2>1, <2>2, <2>3
  <2>5. a = b => \A i \in 1 .. m : rs[i] = rt[i]
    BY <2>1, <2>2
  <2> QED BY <2>4, <2>5 DEF a, b
<1>7. ASSUME m <= n
      PROVE  (\A i \in 1 .. m : rs[i] = rt[i]) <=> (\A k \in 1 .. m : s[k] = t[n - m + k])
  <2>1. ASSUME \A i \in 1 .. m : rs[i] = rt[i], NEW k \in 1 .. m PROVE s[k] = t[n - m + k]
    <3> DEFINE i == m - k + 1
    <3>1. i \in 1 .. m /\ i \in 1 .. n /\ (m - i) + 1 = k /\ (n - i) + 1 = n - m + k
      BY <1>1, <1>7
    <3> HIDE DEF i
    <3> QED BY <2>1, <3>1, <1>3
  <2>2. ASSUME \A k \in 1 .. m : s[k] = t[n - m + k], NEW i \in 1 .. m PROVE rs[i] = rt[i]
    <3> DEFINE k == m - i + 1
    <3>1. k \in 1 .. m /\ i \in 1 .. n /\ k = (m - i) + 1 /\ n - m + k = (n - i) + 1
      BY <1>1, <1>7
    <3> HIDE DEF k
    <3> QED BY <2>2, <3>1, <1>3
  <2> QED BY <2>1, <2>2
<1> QED
  BY <1>5, <1>6, <1>7 DEF m, n

\* A suffix of a suffix is a suffix.
LEMMA SuffixTransitive ==
    ASSUME NEW V, NEW s \in Seq(V), NEW t \in Seq(V), NEW u \in Seq(V),
           IsSuffix(s, t), IsSuffix(t, u)
    PROVE  IsSuffix(s, u)
<1>1. Len(s) \in Nat /\ Len(t) \in Nat /\ Len(u) \in Nat
  BY LenProperties
<1>2. Len(s) <= Len(t) /\ \A k \in 1 .. Len(s) : s[k] = t[Len(t) - Len(s) + k]
  BY SuffixMeans
<1>3. Len(t) <= Len(u) /\ \A k \in 1 .. Len(t) : t[k] = u[Len(u) - Len(t) + k]
  BY SuffixMeans
<1>4. ASSUME NEW k \in 1 .. Len(s) PROVE s[k] = u[Len(u) - Len(s) + k]
  <2> DEFINE i == Len(t) - Len(s) + k
  <2>1. i \in 1 .. Len(t) /\ Len(u) - Len(t) + i = Len(u) - Len(s) + k  BY <1>1, <1>2
  <2>2. s[k] = t[i]  BY <1>2
  <2> HIDE DEF i
  <2> QED BY <1>3, <2>1, <2>2
<1>5. Len(s) <= Len(u)
  BY <1>1, <1>2, <1>3
<1> QED
  BY <1>4, <1>5, SuffixMeans

\* What Extended gives.
IsExtended(u, t, c, n) ==
    /\ Len(u) <= n
    /\ Len(u) = IF Len(t) = n THEN n ELSE Len(t) + 1
    /\ u[Len(u)] = c
    /\ \A k \in 1 .. Len(u) - 1 : u[k] = t[Len(t) - Len(u) + 1 + k]

\* A text that has been extended ends in the new character and is no longer than a page.
LEMMA ExtendedIs ==
    ASSUME NEW V, NEW t \in Seq(V), NEW c \in V, NEW n \in Nat \ {0}, Len(t) <= n
    PROVE  /\ Extended(t, c, n) \in Seq(V)
           /\ IsExtended(Extended(t, c, n), t, c, n)
<1> DEFINE a == Append(t, c)
           m == Len(t)
           u == Extended(t, c, n)
           o == IF m + 1 > n THEN 2 ELSE 1
<1>1. m \in Nat /\ a \in Seq(V) /\ Len(a) = m + 1 /\ (\A k \in 1 .. m : a[k] = t[k]) /\ a[m + 1] = c
  BY LenProperties, AppendProperties
<1>2. m <= n
  OBVIOUS
<1>3. o \in 1 .. 2 /\ o = (IF m = n THEN 2 ELSE 1) /\ o <= m + 1
  BY <1>1, <1>2
<1>4. u = SubSeq(a, o, m + 1)
  BY <1>1 DEF Extended
<1> HIDE DEF m, a, u, o
<1>5. \A i \in o .. m + 1 : a[i] \in V
  BY <1>1, <1>3, ElementOfSeq
<1>6. /\ u \in Seq(V) /\ Len(u) = m + 1 - o + 1
      /\ \A i \in 1 .. m + 1 - o + 1 : u[i] = a[o + i - 1]
  <2>1. o \in Int /\ m + 1 \in Int  BY <1>1, <1>3
  <2> QED BY <1>1, <1>3, <1>4, <1>5, <2>1, SubSeqProperties
<1>7. Len(u) = IF m = n THEN n ELSE m + 1
  BY <1>1, <1>3, <1>6
<1>8. u[Len(u)] = c
  <2>1. Len(u) \in 1 .. m + 1 - o + 1 /\ o + Len(u) - 1 = m + 1  BY <1>1, <1>3, <1>6
  <2> QED BY <1>1, <1>6, <2>1
<1>9. ASSUME NEW k \in 1 .. Len(u) - 1 PROVE u[k] = t[m - Len(u) + 1 + k]
  <2>1. k \in 1 .. m + 1 - o + 1 /\ o + k - 1 = m - Len(u) + 1 + k /\ o + k - 1 \in 1 .. m
    BY <1>1, <1>3, <1>6
  <2> QED BY <1>1, <1>6, <2>1
<1>10. Len(u) <= n
  BY <1>1, <1>2, <1>7
<1>11. IsExtended(u, t, c, n)
  BY <1>7, <1>8, <1>9, <1>10 DEF IsExtended, m
<1> QED
  BY <1>6, <1>11 DEF u

\* What is the end of a text still is when both get a further character.
LEMMA SuffixGrows ==
    ASSUME NEW V, NEW s \in Seq(V), NEW t \in Seq(V), NEW c \in V, NEW n \in Nat \ {0},
           Len(t) <= n, IsSuffix(s, t), NEW r \in Seq(V),
           Len(r) = Len(s) + 1, Len(r) <= n, r[Len(s) + 1] = c, \A k \in 1 .. Len(s) : r[k] = s[k]
    PROVE  IsSuffix(r, Extended(t, c, n))
<1> DEFINE u == Extended(t, c, n)
<1>1. Len(s) \in Nat /\ Len(t) \in Nat
  BY LenProperties
<1>2. Len(s) <= Len(t) /\ \A k \in 1 .. Len(s) : s[k] = t[Len(t) - Len(s) + k]
  BY SuffixMeans
<1>3. u \in Seq(V) /\ IsExtended(u, t, c, n)
  BY ExtendedIs
<1> HIDE DEF u
<1>4. Len(u) \in Nat /\ Len(r) <= Len(u)
  BY <1>1, <1>2, <1>3 DEF IsExtended
<1>5. ASSUME NEW k \in 1 .. Len(r) PROVE r[k] = u[Len(u) - Len(r) + k]
  <2>1. CASE k = Len(s) + 1
    <3>1. Len(u) - Len(r) + k = Len(u)  BY <1>1, <1>4, <2>1
    <3> QED BY <1>3, <2>1, <3>1 DEF IsExtended
  <2>2. CASE k \in 1 .. Len(s)
    <3> DEFINE i == Len(u) - Len(r) + k
    <3>1. i \in 1 .. Len(u) - 1 /\ Len(t) - Len(u) + 1 + i = Len(t) - Len(s) + k
      BY <1>1, <1>4, <2>2
    <3> HIDE DEF i
    <3>2. u[i] = t[Len(t) - Len(s) + k]  BY <1>3, <3>1 DEF IsExtended
    <3> QED BY <1>2, <2>2, <3>2 DEF i
  <2> QED BY <1>1, <2>1, <2>2
<1> QED
  BY <1>3, <1>4, <1>5, SuffixMeans DEF u

\* What the later positions give is the end of what all give.
LEMMA LaterOnesAreTheEnd ==
    ASSUME NEW S \in SUBSET Nat, IsFiniteSet(S), NEW c \in Nat, NEW U, U = {i \in S : i >= c},
           NEW V, NEW f, \A i \in S : f[i] \in V
    PROVE  IsFiniteSet(U) /\ IsSuffix(InOrder(f, U), InOrder(f, S))
<1> DEFINE L == S \ U
           m == Cardinality(U)
           n == Cardinality(S)
           d == Cardinality(L)
<1>1. U \in SUBSET S /\ L \in SUBSET S /\ U \in SUBSET Nat /\ U \cap L = {} /\ S = U \cup L
  OBVIOUS
<1>2. IsFiniteSet(U) /\ IsFiniteSet(L) /\ m \in Nat /\ n \in Nat /\ d \in Nat /\ m + d = n
  <2>1. IsFiniteSet(U) /\ IsFiniteSet(L)  BY <1>1, FS_Subset
  <2>2. Cardinality(U \cup L) = m + d - Cardinality(U \cap L)  BY <2>1, FS_Union
  <2>3. Cardinality(U \cap L) = 0  BY <1>1, FS_EmptySet
  <2>4. m \in Nat /\ n \in Nat /\ d \in Nat  BY <2>1, FS_CardinalityType
  <2>5. n = m + d - 0
    <3> HIDE DEF L
    <3> QED BY <1>1, <2>2, <2>3
  <2> HIDE DEF m, n, d
  <2> QED BY <2>1, <2>4, <2>5
<1>3. ASSUME NEW k \in 1 .. m PROVE Nth(U, k) = Nth(S, n - m + k)
  <2> DEFINE i == Nth(U, k)
  <2>1. i \in U /\ Cardinality(UpTo(U, i)) = k  BY <1>1, <1>2, NthExists
  <2> HIDE DEF i
  <2>2. UpTo(S, i) = UpTo(U, i) \cup L /\ UpTo(U, i) \cap L = {}
    <3>1. i \in Nat /\ i >= c  BY <2>1
    <3>2. \A j \in L : j \in Nat /\ j < c  OBVIOUS
    <3>3. \A j \in L : j <= i  BY <3>1, <3>2
    <3> HIDE DEF L
    <3> QED BY <1>1, <3>3 DEF UpTo
  <2>3. Cardinality(UpTo(S, i)) = k + d
    <3>1. UpTo(U, i) \in SUBSET U  BY DEF UpTo
    <3>2. IsFiniteSet(UpTo(U, i))  BY <1>2, <3>1, FS_Subset
    <3> DEFINE W == UpTo(U, i)
    <3>3. Cardinality(W \cup L) = Cardinality(W) + Cardinality(L) - Cardinality(W \cap L)
      BY <1>2, <3>2, FS_Union
    <3>4. Cardinality(W \cap L) = 0  BY <2>2, FS_EmptySet
    <3> HIDE DEF W, L
    <3> QED BY <1>2, <2>1, <2>2, <3>3, <3>4 DEF W
  <2>4. i \in S /\ k + d = n - m + k  BY <1>1, <1>2, <2>1
  <2> QED BY <2>3, <2>4, NthIs DEF i
<1>4. InOrder(f, U) \in Seq(V) /\ Len(InOrder(f, U)) = m
  BY <1>1, <1>2, InOrderType
<1>5. InOrder(f, S) \in Seq(V) /\ Len(InOrder(f, S)) = n
  BY InOrderType
<1>6. ASSUME NEW k \in 1 .. m PROVE InOrder(f, U)[k] = InOrder(f, S)[n - m + k]
  <2>1. n - m + k \in 1 .. n  BY <1>2
  <2>2. InOrder(f, U)[k] = f[Nth(U, k)]  BY DEF InOrder
  <2>3. InOrder(f, S)[n - m + k] = f[Nth(S, n - m + k)]  BY <2>1 DEF InOrder
  <2> QED BY <2>2, <2>3, <1>3
<1> HIDE DEF m, n
<1>7. m <= n
  BY <1>2
<1> QED
  BY <1>2, <1>4, <1>5, <1>6, <1>7, SuffixMeans

---------------------------------------------------------------------------
(* Rows and cells *)

\* The sizes of the screen, for arithmetic.
LEMMA Sizes ==
    /\ TEXT_ROWS \in Nat /\ TEXT_COLS \in Nat /\ TEXT_ROWS > 3 /\ TEXT_COLS > 0
    /\ Bottom \in Nat /\ Bottom = TEXT_ROWS - 2 /\ Bottom > 1
    /\ TEXT_ROWS * TEXT_COLS \in Nat /\ Page \in Nat \ {0} /\ Page = Bottom * TEXT_COLS
<1>1. TEXT_ROWS \in Nat /\ TEXT_COLS \in Nat /\ TEXT_ROWS > 3 /\ TEXT_COLS > 0
  BY ConstantsAreSane
<1>2. Bottom \in Nat /\ Bottom = TEXT_ROWS - 2 /\ Bottom > 1
  BY <1>1 DEF Bottom
<1>3. TEXT_ROWS * TEXT_COLS \in Nat /\ Bottom * TEXT_COLS \in Nat /\ Bottom * TEXT_COLS > 0
  BY <1>1, <1>2
<1> QED
  BY <1>1, <1>2, <1>3 DEF Page

LEMMA Products ==
    ASSUME NEW a \in Nat, NEW b \in Nat, NEW c \in Nat
    PROVE  /\ a * c \in Nat /\ b * c \in Nat /\ (a + 1) * c = a * c + c
           /\ a <= b => a * c <= b * c
           /\ a < b => a * c + c <= b * c
<1>1. a * c \in Nat /\ b * c \in Nat /\ (a + 1) * c = a * c + c
  OBVIOUS
<1>2. a <= b => a * c <= b * c
  OBVIOUS
<1>3. a < b => (a + 1) * c <= b * c
  <2>1. a < b => a + 1 <= b  OBVIOUS
  <2>2. a + 1 <= b => (a + 1) * c <= b * c  OBVIOUS
  <2> QED BY <2>1, <2>2
<1> QED
  BY <1>1, <1>2, <1>3

\* A cell is in the row whose cells its number is among.
LEMMA RowOfCell ==
    ASSUME NEW i \in Nat
    PROVE  /\ Row(i) \in Nat
           /\ \A r \in Nat : r <= Row(i) <=> r * TEXT_COLS <= i
           /\ \A r \in Nat : Row(i) <= r <=> i < r * TEXT_COLS + TEXT_COLS
           /\ Row(i + TEXT_COLS) = Row(i) + 1
<1> DEFINE C == TEXT_COLS
           q == i \div C
<1>1. C \in Nat /\ C > 0
  BY Sizes
<1>2. q \in Nat /\ q * C <= i /\ i < q * C + C
  BY <1>1
<1>3. (i + C) \div C = q + 1
  BY <1>1
<1> HIDE DEF C, q
<1>4. ASSUME NEW r \in Nat
      PROVE  (r <= q <=> r * C <= i) /\ (q <= r <=> i < r * C + C)
  <2>1. r * C \in Nat /\ q * C \in Nat  BY <1>1, <1>2, Products
  <2>2. r <= q => r * C <= q * C  BY <1>1, <1>2, Products
  <2>3. q < r => q * C + C <= r * C  BY <1>1, <1>2, Products
  <2>4. q <= r => q * C <= r * C  BY <1>1, <1>2, Products
  <2>5. r < q => r * C + C <= q * C  BY <1>1, <1>2, Products
  <2> QED BY <1>1, <1>2, <2>1, <2>2, <2>3, <2>4, <2>5
<1> QED
  BY <1>2, <1>3, <1>4 DEF Row, C, q

\* The cells of the text that f has something visible in, from a row on.
InkedIn(f, r) == {i \in Cells : Row(i) \in r .. Bottom /\ f[i] \in Ink}

LEMMA InkedIsFinite ==
    ASSUME NEW f, NEW r \in Nat, r >= 1
    PROVE  /\ InkedIn(f, r) \in SUBSET Nat /\ IsFiniteSet(InkedIn(f, r))
           /\ Cardinality(InkedIn(f, r)) \in Nat /\ Cardinality(InkedIn(f, r)) <= Page
           /\ InkedIn(f, r) \subseteq Cells
           /\ \A i \in InkedIn(f, r) : f[i] \in Ink
<1> DEFINE S == InkedIn(f, r)
           C == TEXT_COLS
           J == C .. Bottom * C + C - 1
<1>1. S \subseteq Cells /\ (\A i \in S : i \in Nat /\ Row(i) \in r .. Bottom /\ f[i] \in Ink)
  BY DEF InkedIn, Cells
<1>2. C \in Nat /\ C > 0 /\ Bottom \in Nat /\ Bottom * C \in Nat /\ Page = Bottom * C
  BY Sizes
<1>3. ASSUME NEW i \in S PROVE i \in J
  <2>1. i \in Nat /\ Row(i) \in Nat /\ 1 <= Row(i) /\ Row(i) <= Bottom  BY <1>1, <1>2, RowOfCell
  <2>2. 1 * C <= i /\ i < Bottom * C + C  BY <1>2, <2>1, RowOfCell
  <2> QED BY <1>2, <2>1, <2>2
<1> HIDE DEF S
<1>4. IsFiniteSet(J) /\ Cardinality(J) = Bottom * C
  <2> DEFINE e == Bottom * C + C - 1
  <2>1. e \in Int /\ C \in Int /\ e - C + 1 = Bottom * C /\ (C > e => Bottom * C = 0)  BY <1>2
  <2> HIDE DEF e, C
  <2>2. IsFiniteSet(C .. e) /\ Cardinality(C .. e) = IF C > e THEN 0 ELSE e - C + 1
    BY <2>1, FS_Interval
  <2> QED BY <2>1, <2>2 DEF e
<1>5. S \in SUBSET J
  BY <1>3
<1> HIDE DEF J
<1>6. IsFiniteSet(S) /\ Cardinality(S) <= Cardinality(J)
  BY <1>4, <1>5, FS_Subset
<1>7. Cardinality(S) \in Nat
  BY <1>6, FS_CardinalityType
<1> QED
  BY <1>1, <1>2, <1>4, <1>6, <1>7 DEF S

\* Positions whose values are the same give the same.
LEMMA SameInOrder ==
    ASSUME NEW S \in SUBSET Nat, IsFiniteSet(S), NEW f, NEW g, \A i \in S : f[i] = g[i]
    PROVE  InOrder(f, S) = InOrder(g, S)
<1>1. \A k \in 1 .. Cardinality(S) : f[Nth(S, k)] = g[Nth(S, k)]
  BY NthExists
<1> QED
  BY <1>1 DEF InOrder

\* One more position gives one more value.
LEMMA OneMore ==
    ASSUME NEW S \in SUBSET Nat, IsFiniteSet(S), NEW m \in Nat, \A i \in S : i < m,
           NEW V, NEW f, \A i \in S \cup {m} : f[i] \in V
    PROVE  InOrder(f, S \cup {m}) = InOrder(f, S) \o <<f[m]>>
<1> DEFINE n == Cardinality(S)
           s == InOrder(f, S)
           r == InOrder(f, S \cup {m})
           e == <<f[m]>>
<1>1. IsFiniteSet(S \cup {m}) /\ n \in Nat /\ Len(r) = n + 1
      /\ (\A k \in 1 .. n : r[k] = s[k]) /\ r[n + 1] = f[m]
  <2> DEFINE U == S \cup {m}
  <2>1. IsFiniteSet(U) /\ n \in Nat /\ Cardinality(U) = n + 1 /\ Nth(U, n + 1) = m
        /\ \A k \in 1 .. n : Nth(U, k) = Nth(S, k)
    BY AddLast
  <2>2. r = [k \in 1 .. n + 1 |-> f[Nth(U, k)]] /\ s = [k \in 1 .. n |-> f[Nth(S, k)]]
    BY <2>1 DEF InOrder
  <2> HIDE DEF r, s, n, U
  <2>3. \A k \in 1 .. n : r[k] = s[k]  BY <2>1, <2>2
  <2>4. r[n + 1] = f[m] /\ Len(r) = n + 1  BY <2>1, <2>2
  <2> QED BY <2>1, <2>3, <2>4 DEF U
<1>2. s \in Seq(V) /\ Len(s) = n
  BY InOrderType
<1>3. r \in Seq(V)
  <2>1. S \cup {m} \in SUBSET Nat  OBVIOUS
  <2> QED BY <1>1, <2>1, InOrderType
<1>4. e \in Seq(V) /\ Len(e) = 1 /\ e[1] = f[m]
  OBVIOUS
<1> HIDE DEF s, r, e, n
<1>5. /\ s \o e \in Seq(V) /\ Len(s \o e) = n + 1
      /\ \A k \in 1 .. n + 1 : (s \o e)[k] = IF k <= n THEN s[k] ELSE e[k - n]
  <2>1. /\ s \o e \in Seq(V) /\ Len(s \o e) = Len(s) + Len(e)
        /\ \A k \in 1 .. Len(s) + Len(e) : (s \o e)[k] = IF k <= Len(s) THEN s[k] ELSE e[k - Len(s)]
    BY <1>2, <1>4, ConcatProperties
  <2> QED BY <2>1, <1>2, <1>4
<1>6. \A k \in 1 .. n + 1 : r[k] = (s \o e)[k]
  <2> TAKE k \in 1 .. n + 1
  <2>1. CASE k \in 1 .. n  BY <1>1, <1>5, <2>1
  <2>2. CASE k = n + 1
    <3>1. ~ (k <= n) /\ k - n = 1  BY <1>1, <2>2
    <3> QED BY <1>1, <1>4, <1>5, <2>2, <3>1
  <2>3. k \in 1 .. n \/ k = n + 1
    <3>1. n \in Nat  BY <1>1
    <3> QED BY <3>1
  <2> QED BY <2>1, <2>2, <2>3
<1>7. r = s \o e
  BY <1>1, <1>3, <1>5, <1>6, SeqEqual
<1> QED
  BY <1>7 DEF r, s, e

\* Every number in the rows of the screen is a cell.
LEMMA InTheRows ==
    ASSUME NEW i \in Nat, Row(i) <= TEXT_ROWS - 1
    PROVE  i \in Cells
<1>1. TEXT_ROWS - 1 \in Nat /\ TEXT_COLS \in Nat /\ TEXT_ROWS * TEXT_COLS \in Nat
  BY Sizes
<1>2. i < (TEXT_ROWS - 1) * TEXT_COLS + TEXT_COLS
  BY <1>1, RowOfCell
<1>3. (TEXT_ROWS - 1 + 1) * TEXT_COLS = (TEXT_ROWS - 1) * TEXT_COLS + TEXT_COLS
  BY <1>1, Products
<1>4. TEXT_ROWS - 1 + 1 = TEXT_ROWS
  BY Sizes
<1> QED
  BY <1>1, <1>2, <1>3, <1>4 DEF Cells

\* A column of a row is a cell of this row.
LEMMA CellOf ==
    ASSUME NEW r \in Nat, NEW c \in Nat, c < TEXT_COLS
    PROVE  r * TEXT_COLS + c \in Nat /\ Row(r * TEXT_COLS + c) = r
<1> DEFINE C == TEXT_COLS
           i == r * C + c
<1>1. C \in Nat /\ r * C \in Nat /\ (r + 1) * C = r * C + C
  BY Sizes, Products
<1>2. i \in Nat /\ r * C <= i /\ i < r * C + C
  BY <1>1
<1> HIDE DEF i
<1>3. Row(i) \in Nat /\ r <= Row(i) /\ Row(i) <= r
  BY <1>2, RowOfCell
<1> QED
  BY <1>2, <1>3 DEF i

\* Scrolling leaves the text without its top line.
LEMMA ScrollMovesTheText ==
    ASSUME NEW f \in [Cells -> Char \cup Leftover]
    PROVE  /\ Scroll(f) \in [Cells -> Char \cup Leftover]
           /\ InOrder(Scroll(f), InkedIn(Scroll(f), Top)) = InOrder(f, InkedIn(f, Top + 1))
           /\ \A i \in InkedIn(Scroll(f), Top) : i + TEXT_COLS \in InkedIn(f, Top)
<1> DEFINE C == TEXT_COLS
           g == Scroll(f)
           S == InkedIn(f, Top + 1)
           U == InkedIn(g, Top)
<1>1. C \in Nat /\ C > 0 /\ Bottom \in Nat /\ Bottom = TEXT_ROWS - 2 /\ Bottom > 1
      /\ TEXT_ROWS \in Nat /\ Top = 1 /\ Cells \subseteq Nat
  BY Sizes DEF Top, Cells
<1>2. \A i \in Cells : g[i] = IF Row(i) \in Top .. Bottom - 1 THEN f[i + C]
                               ELSE IF Row(i) = Bottom THEN Blank ELSE f[i]
  BY DEF Scroll
<1>3. DOMAIN g = Cells /\ g = [i \in Cells |-> g[i]]
  BY DEF Scroll
<1> HIDE DEF g, C
<1>4. ASSUME NEW i \in Cells, Row(i) \in Top .. Bottom - 1
      PROVE  i + C \in Cells /\ Row(i + C) \in Top + 1 .. Bottom /\ g[i] = f[i + C]
  <2>1. i \in Nat /\ Row(i) \in Nat /\ Row(i + C) = Row(i) + 1  BY <1>1, RowOfCell DEF C
  <2>2. Row(i + C) \in Top + 1 .. Bottom  BY <1>1, <1>4, <2>1
  <2>3. i + C \in Nat /\ Row(i + C) <= TEXT_ROWS - 1  BY <1>1, <2>1, <2>2
  <2> QED BY <1>2, <1>4, <2>2, <2>3, InTheRows
<1>5. \A i \in Cells : g[i] \in Char \cup Leftover
  <2> TAKE i \in Cells
  <2>1. CASE Row(i) \in Top .. Bottom - 1  BY <1>4, <2>1
  <2>2. CASE Row(i) \notin Top .. Bottom - 1  BY <1>2, <2>2, ConstantsAreSane
  <2> QED BY <2>1, <2>2
<1>6. ASSUME NEW i \in U PROVE i \in Nat /\ i + C \in S /\ g[i] = f[i + C]
  <2>1. i \in Cells /\ Row(i) \in Top .. Bottom /\ g[i] \in Ink  BY DEF InkedIn
  <2>2. Blank \notin Ink  BY DEF Ink
  <2>3. Row(i) # Bottom
    <3>1. Row(i) = Bottom => Row(i) \notin Top .. Bottom - 1  BY <1>1
    <3> QED BY <1>2, <2>1, <2>2, <3>1
  <2>4. Row(i) \in Top .. Bottom - 1  BY <1>1, <2>1, <2>3
  <2>5. i + C \in Cells /\ Row(i + C) \in Top + 1 .. Bottom /\ g[i] = f[i + C]
    BY <1>4, <2>1, <2>4
  <2>6. i \in Nat  BY <1>1, <2>1
  <2> QED BY <2>1, <2>5, <2>6 DEF InkedIn
<1>7. ASSUME NEW i \in Nat, i + C \in S PROVE i \in U
  <2>1. i + C \in Cells /\ Row(i + C) \in Top + 1 .. Bottom /\ f[i + C] \in Ink  BY <1>7 DEF InkedIn
  <2>2. Row(i) \in Nat /\ Row(i + C) = Row(i) + 1  BY RowOfCell DEF C
  <2>3. Row(i) \in Top .. Bottom - 1  BY <1>1, <2>1, <2>2
  <2>4. Row(i) <= TEXT_ROWS - 1 /\ Row(i) \in Top .. Bottom  BY <1>1, <2>3
  <2>5. i \in Cells  BY <2>4, InTheRows
  <2>6. g[i] = f[i + C]  BY <1>4, <2>3, <2>5
  <2> QED BY <2>1, <2>4, <2>5, <2>6 DEF InkedIn
<1>8. ASSUME NEW i \in S PROVE i >= C
  <2>1. i \in Cells /\ Row(i) \in Top + 1 .. Bottom  BY DEF InkedIn
  <2>2. i \in Nat /\ Row(i) \in Nat /\ 1 <= Row(i)  BY <1>1, <2>1
  <2>3. 1 * TEXT_COLS <= i  BY <2>2, RowOfCell
  <2> QED BY <1>1, <2>2, <2>3 DEF C
<1>9. S \in SUBSET Nat /\ IsFiniteSet(S)
  BY <1>1, InkedIsFinite
<1>10. S \subseteq InkedIn(f, Top)
  BY <1>1 DEF InkedIn
<1> HIDE DEF U, S
<1>11. U = {i \in Nat : i + C \in S}
  BY <1>6, <1>7
<1>12. InOrder(g, U) = InOrder(f, S)
  BY <1>1, <1>6, <1>8, <1>9, <1>11, MovedDown
<1>13. g \in [Cells -> Char \cup Leftover]
  BY <1>3, <1>5
<1> QED
  BY <1>6, <1>10, <1>12, <1>13 DEF g, U, S, C

\* A character put after all of the text is what the text gets.
LEMMA WrittenAfterTheText ==
    ASSUME NEW f \in [Cells -> Char \cup Leftover], NEW c \in Ink \cup {Blank},
           NEW o \in Nat, Row(o) \in Top .. Bottom, \A i \in InkedIn(f, Top) : i < o
    PROVE  LET g == [f EXCEPT ![o] = c]
           IN  /\ g \in [Cells -> Char \cup Leftover]
               /\ InOrder(g, InkedIn(g, Top)) = InOrder(f, InkedIn(f, Top))
                                                 \o (IF c \in Ink THEN <<c>> ELSE << >>)
               /\ \A i \in InkedIn(g, Top) : i < o + 1
<1> DEFINE g == [f EXCEPT ![o] = c]
           S == InkedIn(f, Top)
           U == InkedIn(g, Top)
<1>1. Top = 1 /\ Bottom \in Nat /\ Bottom = TEXT_ROWS - 2 /\ TEXT_ROWS \in Nat
  BY Sizes DEF Top
<1>2. o \in Cells
  BY <1>1, RowOfCell, InTheRows
<1>3. c \in Char \cup Leftover /\ Ink \subseteq Char
  BY ConstantsAreSane DEF Ink
<1>4. /\ g \in [Cells -> Char \cup Leftover] /\ g[o] = c
      /\ \A i \in Cells : i # o => g[i] = f[i]
  BY <1>2, <1>3
<1>5. S \in SUBSET Nat /\ IsFiniteSet(S) /\ (\A i \in S : f[i] \in Ink) /\ S \subseteq Cells
  BY <1>1, InkedIsFinite
<1>6. \A i \in S : i \in Nat /\ i < o /\ i # o
  BY <1>5
<1> HIDE DEF g
<1>7. U = IF c \in Ink THEN S \cup {o} ELSE S
  <2>1. o \notin S  BY <1>6
  <2>2. \A i \in Cells : i # o => (i \in U <=> i \in S)  BY <1>4 DEF InkedIn
  <2>3. o \in U <=> c \in Ink  BY <1>2, <1>4 DEF InkedIn
  <2>4. U \subseteq Cells /\ S \subseteq Cells  BY DEF InkedIn
  <2> HIDE DEF U, S
  <2>5. c \in Ink => U = S \cup {o}  BY <1>2, <2>2, <2>3, <2>4
  <2>6. c \notin Ink => U = S  BY <2>1, <2>2, <2>3, <2>4
  <2> QED BY <2>5, <2>6
<1>8. InOrder(g, S) = InOrder(f, S)
  <2>1. \A i \in S : g[i] = f[i]  BY <1>4, <1>5, <1>6
  <2> HIDE DEF S
  <2> QED BY <1>5, <2>1, SameInOrder
<1>9. CASE c \in Ink
  <2>1. \A i \in S \cup {o} : g[i] \in Ink
    BY <1>4, <1>5, <1>6, <1>9
  <2> HIDE DEF S, U
  <2>2. InOrder(g, S \cup {o}) = InOrder(g, S) \o <<g[o]>>
    BY <1>5, <1>6, <2>1, OneMore
  <2>3. \A i \in S \cup {o} : i < o + 1
    BY <1>6
  <2>4. U = S \cup {o}
    BY <1>7, <1>9
  <2> QED BY <1>4, <1>8, <1>9, <2>2, <2>3, <2>4 DEF g, S, U
<1>10. CASE c \notin Ink
  <2>1. InOrder(f, S) \in Seq(Ink)
    BY <1>5, InOrderType
  <2>2. InOrder(f, S) \o << >> = InOrder(f, S)
    <3> DEFINE s == InOrder(f, S)
    <3> HIDE DEF s
    <3>1. s \in Seq(Ink)  BY <2>1 DEF s
    <3>2. s \o << >> = s  BY <3>1, ConcatEmptySeq
    <3> QED BY <3>2 DEF s
  <2>3. U = S
    BY <1>7, <1>10
  <2> HIDE DEF S, U
  <2>4. \A i \in U : i < o + 1
    BY <1>6, <2>3
  <2> QED BY <1>4, <1>8, <1>10, <2>2, <2>3, <2>4 DEF g, S, U
<1> QED
  BY <1>9, <1>10

---------------------------------------------------------------------------
(* What one character does to the screen *)

\* All of the text is before the place where the next character goes.
ScreenInv ==
    /\ pc # "log" => s_row = 0 /\ s_col = 0 /\ todo = << >>
    /\ pc = "log" => s_row >= 1
    /\ \A i \in Inked(Top) : i < s_row * TEXT_COLS + s_col
    /\ ScreenShowsTheText

NewOnScreen(c) == IF c \in Ink THEN <<c>> ELSE << >>

\* ConsolePutChar, for every character and place: the character goes behind all of the text,
\* the place after it is on the screen, and only a full page loses its top line.
LEMMA CharacterIsPut ==
    ASSUME TypeOK, ScreenInv, pc = "log", NEW c \in Char, ConsolePutChar(c)
    PROVE  /\ screen' \in [Cells -> Char \cup Leftover]
           /\ s_row' \in 1 .. TEXT_ROWS - 1 /\ s_col' \in 0 .. TEXT_COLS - 1 /\ cursor' \in Cells
           /\ \A i \in InkedIn(screen', Top) : i < s_row' * TEXT_COLS + s_col'
           /\ \/ ShownFrom(Top)' = ShownFrom(Top) \o NewOnScreen(c)
              \/ s_row >= Bottom /\ ShownFrom(Top)' = ShownFrom(Top + 1) \o NewOnScreen(c)
           /\ c = Break => s_col' = 0
<1> DEFINE C      == TEXT_COLS
           col    == IF c = Break THEN 0 ELSE s_col
           down   == IF c = Break THEN s_row + 1 ELSE s_row
           page   == IF Full(down) THEN Scroll(screen) ELSE screen
           row    == IF Full(down) THEN down - 1 ELSE down
           offset == row * C + col
           next   == NextCol(c, col)
           base   == InOrder(page, InkedIn(page, Top))
<1>1. /\ screen' = IF Visible(c) /\ row > 0 THEN [page EXCEPT ![offset] = c] ELSE page
      /\ s_col' = IF next >= C THEN 0 ELSE next
      /\ s_row' = IF next >= C THEN row + 1 ELSE row
      /\ cursor' = offset
  BY DEF ConsolePutChar
<1>2. /\ C \in Nat /\ C > 0 /\ TEXT_ROWS \in Nat /\ Bottom \in Nat /\ Bottom = TEXT_ROWS - 2
      /\ Bottom > 1 /\ Top = 1 /\ TabStop \in Nat \ {0}
  BY Sizes, ConstantsAreSane DEF Top
<1>3. /\ screen \in [Cells -> Char \cup Leftover]
      /\ s_row \in 1 .. TEXT_ROWS - 1 /\ s_col \in 0 .. C - 1
      /\ \A i \in InkedIn(screen, Top) : i < s_row * C + s_col
  <2>1. \A i \in InkedIn(screen, Top) : i < s_row * C + s_col
    BY DEF ScreenInv, Inked, InkedIn
  <2>2. s_row >= 1 /\ s_row \in 0 .. TEXT_ROWS - 1 /\ s_col \in 0 .. C - 1
        /\ screen \in [Cells -> Char \cup Leftover]
    BY DEF ScreenInv, TypeOK
  <2> QED BY <1>2, <2>1, <2>2
<1>4. /\ down \in 1 .. TEXT_ROWS /\ col \in 0 .. C - 1
      /\ (c # Break => down <= TEXT_ROWS - 1) /\ (down = s_row \/ down = s_row + 1)
  BY <1>2, <1>3
<1>5. /\ row \in 1 .. TEXT_ROWS - 1 /\ (c # Break => row <= Bottom)
      /\ (Full(down) => row = down - 1 /\ s_row >= Bottom) /\ (~ Full(down) => row = down)
  <2>1. Full(down) <=> down >= TEXT_ROWS - 1  BY DEF Full
  <2> HIDE DEF down
  <2> QED BY <1>2, <1>3, <1>4, <2>1
<1>6. s_row * C + s_col <= down * C + col
  <2>1. s_row \in Nat /\ (s_row + 1) * C = s_row * C + C /\ s_row * C \in Nat
    BY <1>2, <1>3, Products
  <2>2. CASE c = Break
    <3>1. down * C + col = s_row * C + C
      <4>1. down = s_row + 1 /\ col = 0  BY <2>2
      <4>2. down * C = s_row * C + C  BY <2>1, <4>1
      <4> QED BY <1>2, <2>1, <4>1, <4>2
    <3> QED BY <1>2, <1>3, <2>1, <3>1
  <2>3. CASE c # Break
    <3>1. down = s_row /\ col = s_col  BY <2>3
    <3> QED BY <1>2, <1>3, <2>1, <3>1
  <2> QED BY <2>2, <2>3
<1> HIDE DEF down, col, row
<1>7. ShownFrom(Top) = InOrder(screen, InkedIn(screen, Top))
      /\ ShownFrom(Top + 1) = InOrder(screen, InkedIn(screen, Top + 1))
      /\ ShownFrom(Top)' = InOrder(screen', InkedIn(screen', Top))
  BY DEF ShownFrom, Inked, InkedIn
<1>8. /\ page \in [Cells -> Char \cup Leftover]
      /\ \A i \in InkedIn(page, Top) : i < offset
      /\ base = ShownFrom(Top) \/ (s_row >= Bottom /\ base = ShownFrom(Top + 1))
  <2>1. row \in Nat /\ row * C \in Nat /\ (row + 1) * C = row * C + C /\ down \in Nat /\ col \in Nat
        /\ down * C \in Nat /\ s_row * C + s_col \in Nat
    <3>1. row \in Nat /\ down \in Nat /\ col \in Nat /\ s_row \in Nat /\ s_col \in Nat
      BY <1>2, <1>3, <1>4, <1>5
    <3>2. s_row * C \in Nat  BY <1>2, <3>1, Products
    <3> QED BY <1>2, <3>1, <3>2, Products
  <2>2. CASE ~ Full(down)
    <3>1. page = screen /\ row = down  BY <1>5, <2>2
    <3> HIDE DEF page
    <3>2. \A i \in InkedIn(screen, Top) : i \in Nat
      BY <1>2, InkedIsFinite
    <3>3. \A i \in InkedIn(page, Top) : i < offset
      BY <1>3, <1>6, <2>1, <3>1, <3>2
    <3> QED BY <1>3, <1>7, <3>1, <3>3
  <2>3. CASE Full(down)
    <3>1. page = Scroll(screen) /\ down = row + 1 /\ s_row >= Bottom
      BY <1>2, <1>4, <1>5, <2>3
    <3>2. down * C = row * C + C  BY <2>1, <3>1
    <3>3. /\ page \in [Cells -> Char \cup Leftover]
          /\ base = InOrder(screen, InkedIn(screen, Top + 1))
          /\ \A i \in InkedIn(page, Top) : i + C \in InkedIn(screen, Top)
      BY <1>3, <3>1, ScrollMovesTheText
    <3>4. \A i \in InkedIn(page, Top) : i \in Nat
      BY <1>2, InkedIsFinite
    <3> HIDE DEF page
    <3>5. \A i \in InkedIn(page, Top) : i < offset
      <4> TAKE i \in InkedIn(page, Top)
      <4>1. i \in Nat /\ i + C < s_row * C + s_col  BY <1>3, <3>3, <3>4
      <4> QED BY <1>2, <1>6, <2>1, <3>2, <4>1
    <3> QED BY <1>7, <3>1, <3>3, <3>5
  <2> QED BY <2>2, <2>3
<1>9. /\ offset \in Nat /\ Row(offset) = row /\ offset \in Cells
      /\ row * C \in Nat /\ (row + 1) * C = row * C + C
  <2>1. row \in Nat /\ col \in Nat /\ col < C  BY <1>2, <1>4, <1>5
  <2>2. offset \in Nat /\ Row(offset) = row  BY <2>1, CellOf
  <2>3. Row(offset) <= TEXT_ROWS - 1  BY <1>2, <1>5, <2>2
  <2> QED BY <1>2, <2>1, <2>2, <2>3, InTheRows, Products
<1> HIDE DEF page, base
<1>10. CASE c \in Ink \cup {Blank}
  <2>1. c # Break /\ c # Tab /\ Visible(c)  BY <1>10 DEF Ink, Visible, Blank, Tab, Break
  <2>2. next = col + 1  BY <2>1 DEF NextCol
  <2>3. screen' = [page EXCEPT ![offset] = c]  BY <1>1, <1>2, <1>5, <2>1
  <2>4. Row(offset) \in Top .. Bottom  BY <1>2, <1>5, <1>9, <2>1
  <2> HIDE DEF offset, next
  <2>5. /\ screen' \in [Cells -> Char \cup Leftover]
        /\ InOrder(screen', InkedIn(screen', Top)) = base \o NewOnScreen(c)
        /\ \A i \in InkedIn(screen', Top) : i < offset + 1
    BY <1>8, <1>9, <1>10, <2>3, <2>4, WrittenAfterTheText DEF base, NewOnScreen
  <2>6. /\ s_row' \in 1 .. TEXT_ROWS - 1 /\ s_col' \in 0 .. C - 1
        /\ s_row' * C + s_col' = offset + 1
    <3>1. CASE col + 1 >= C
      <4>1. s_row' = row + 1 /\ s_col' = 0 /\ col + 1 = C
        BY <1>1, <1>2, <1>4, <2>2, <3>1
      <4>2. s_row' * C = row * C + C  BY <1>9, <4>1
      <4>3. s_row' \in 1 .. TEXT_ROWS - 1 /\ s_col' \in 0 .. C - 1
        BY <1>2, <1>5, <2>1, <4>1
      <4>4. s_row' * C + s_col' = row * C + col + 1
        <5> DEFINE x == row * C
                   y == s_row' * C
        <5>1. x \in Nat /\ col \in Nat /\ y = x + C  BY <1>2, <1>4, <1>9, <4>2
        <5> HIDE DEF x, y
        <5>2. y + 0 = x + col + 1  BY <1>2, <4>1, <5>1
        <5> QED BY <4>1, <5>2 DEF x, y
      <4> QED BY <4>3, <4>4 DEF offset
    <3>2. CASE ~ (col + 1 >= C)
      <4>1. s_row' = row /\ s_col' = col + 1
        BY <1>1, <2>2, <3>2
      <4> QED BY <1>2, <1>4, <1>5, <1>9, <3>2, <4>1 DEF offset
    <3> QED BY <3>1, <3>2
  <2> QED BY <1>1, <1>7, <1>8, <1>9, <2>1, <2>5, <2>6
<1>11. CASE c \in {Tab, Break}
  <2>1. ~ Visible(c) /\ c \notin Ink  BY <1>11 DEF Ink, Visible
  <2>2. screen' = page  BY <1>1, <2>1
  <2>3. base \in Seq(Ink)
    <3> DEFINE S == InkedIn(page, Top)
    <3>1. S \in SUBSET Nat /\ IsFiniteSet(S) /\ \A i \in S : page[i] \in Ink
      BY <1>2, InkedIsFinite
    <3> HIDE DEF S
    <3> QED BY <3>1, InOrderType DEF base, S
  <2>4. InOrder(screen', InkedIn(screen', Top)) = base \o NewOnScreen(c)
    <3>1. base \o << >> = base  BY <2>3, ConcatEmptySeq
    <3> QED BY <2>1, <2>2, <3>1 DEF base, NewOnScreen
  <2>5. CASE c = Break
    <3>1. next = 0 /\ col = 0  BY <2>5 DEF NextCol, Break, Tab, col
    <3>2. s_col' = 0 /\ s_row' = row  BY <1>1, <1>2, <3>1
    <3>3. s_row' * C + s_col' = offset  BY <3>1, <3>2
    <3>4. \A i \in InkedIn(screen', Top) : i < s_row' * C + s_col'  BY <1>8, <2>2, <3>3
    <3>5. s_row' \in 1 .. TEXT_ROWS - 1 /\ s_col' \in 0 .. C - 1  BY <1>2, <1>5, <3>2
    <3> QED BY <1>1, <1>7, <1>8, <1>9, <2>2, <2>4, <3>2, <3>4, <3>5
  <2>6. CASE c = Tab
    <3>0. c # Break  BY <2>6 DEF Tab, Break
    <3>1. next \in Nat /\ next > col
      <4>1. next = ((col + TabStop) \div TabStop) * TabStop  BY <2>6, <3>0 DEF NextCol
      <4>2. col \in Nat  BY <1>2, <1>4
      <4> DEFINE q == (col + TabStop) \div TabStop
      <4>3. q \in Nat /\ col + TabStop < q * TabStop + TabStop  BY <1>2, <4>2
      <4> HIDE DEF q
      <4>4. q * TabStop \in Nat  BY <1>2, <4>3
      <4>5. q * TabStop > col  BY <1>2, <4>2, <4>3, <4>4
      <4> QED BY <4>1, <4>4, <4>5 DEF q
    <3> HIDE DEF next
    <3>2. s_row' \in 1 .. TEXT_ROWS - 1 /\ s_col' \in 0 .. C - 1
          /\ s_row' * C + s_col' \in Nat /\ s_row' * C + s_col' > offset
      <4>1. CASE next >= C
        <5>1. s_row' = row + 1 /\ s_col' = 0  BY <1>1, <4>1
        <5>2. s_row' * C = row * C + C  BY <1>9, <5>1
        <5> QED BY <1>2, <1>4, <1>5, <1>9, <3>0, <5>1, <5>2
      <4>2. CASE ~ (next >= C)
        <5>1. s_row' = row /\ s_col' = next  BY <1>1, <4>2
        <5> QED BY <1>2, <1>4, <1>5, <1>9, <3>1, <4>2, <5>1
      <4> QED BY <4>1, <4>2
    <3>3. \A i \in InkedIn(screen', Top) : i < s_row' * C + s_col'
      <4>1. \A i \in InkedIn(page, Top) : i \in Nat  BY <1>2, InkedIsFinite
      <4> HIDE DEF offset
      <4> QED BY <1>8, <1>9, <2>2, <3>2, <4>1
    <3> QED BY <1>1, <1>7, <1>8, <1>9, <2>2, <2>4, <3>0, <3>2, <3>3
  <2> QED BY <1>11, <2>5, <2>6
<1> QED
  BY <1>10, <1>11 DEF Ink

---------------------------------------------------------------------------
(* The places of a log call *)

\* What a message is on the serial port, and what a log call does after it.
Serial(m)     == Prefix \o m.text \o LineEnd(m)
Body(m)       == Prefix \o m.text
Ending(m)     == IF m.type \in Blinking THEN Dots \o SetNewLine(TRUE) ELSE << >>
LineAndEnd(m) == Body(m) \o (<<"NewLineIfEnabled">> \o Ending(m))
ToConsole(m)  == <<"InitOnlyCons">> \o LineAndEnd(m)
Then(m)       == (IF m.type \in Blinking THEN SetNewLine(FALSE) ELSE << >>) \o ToConsole(m)

\* What is left of s after k characters.
From(s, k) == SubSeq(s, k + 1, Len(s))

\* The first k characters of the line can be read on the console.
InkOf(s, k) == InOrder(s, {i \in 1 .. k : s[i] \in Ink})
Readable(k) == IsSuffix(InkOf(Line(call), k), text) \/ Len(InkOf(Line(call), k)) > Page

\* The serial port has got its first k.
Sent(k) == port = IF gPort THEN SubSeq(Serial(call), 1, k) ELSE << >>
SentAll == port = IF gPort THEN Serial(call) ELSE << >>

BlinkingCall == call.type \in Blinking

\* The places a log call can be at.
AtInit ==
    /\ todo = <<"Init">> \o (Serial(call) \o Then(call))
    /\ port = << >> /\ gNewLineEnabled
AtSerial(k) ==
    /\ todo = From(Serial(call), k) \o Then(call)
    /\ out = (IF gPort THEN "serial" ELSE "console") /\ Sent(k) /\ gNewLineEnabled
AtHold ==
    /\ BlinkingCall /\ todo = <<"NewLineOff">> \o ToConsole(call) /\ SentAll
AtSwitch ==
    /\ BlinkingCall /\ todo = ToConsole(call) /\ SentAll /\ ~ gNewLineEnabled
AtLine(k) ==
    /\ todo = From(Body(call), k) \o (<<"NewLineIfEnabled">> \o Ending(call))
    /\ out = "console" /\ Readable(k) /\ SentAll
    /\ gNewLineEnabled <=> ~ BlinkingCall
AtDots(k) ==
    /\ BlinkingCall /\ todo = From(Dots, k) \o SetNewLine(TRUE)
    /\ out = "console" /\ Readable(Len(Body(call)) + k) /\ SentAll
AtRelease ==
    /\ BlinkingCall /\ todo = <<"NewLineOn", Break>>
    /\ out = "console" /\ Readable(Len(Line(call))) /\ SentAll
AtBreak ==
    /\ todo = <<Break>>
    /\ out = "console" /\ Readable(Len(Line(call))) /\ SentAll /\ gNewLineEnabled
Idle ==
    /\ todo = << >> /\ s_col = 0 /\ gNewLineEnabled
    /\ call # NoCall => SentAll /\ Readable(Len(Line(call)))

Busy ==
    \/ AtInit \/ AtHold \/ AtSwitch \/ AtRelease \/ AtBreak
    \/ \E k \in 0 .. Len(Serial(call)) : AtSerial(k)
    \/ \E k \in 0 .. Len(Body(call)) : AtLine(k)
    \/ \E k \in 0 .. Len(Dots) : AtDots(k)

LogInv ==
    /\ todo = << >> => Idle
    /\ todo # << >> => pc = "log" /\ call \in Messages /\ Busy

---------------------------------------------------------------------------
(* Taking sequences apart *)

\* Taking the first item off.
LEMMA FirstOf ==
    ASSUME NEW V, NEW x \in V, NEW r \in Seq(V)
    PROVE  /\ <<x>> \o r \in Seq(V) /\ <<x>> \o r # << >>
           /\ Head(<<x>> \o r) = x /\ Tail(<<x>> \o r) = r
<1> DEFINE e == <<x>>
           s == e \o r
           n == Len(r)
<1>1. e \in Seq(V) /\ Len(e) = 1 /\ e[1] = x
  OBVIOUS
<1>2. n \in Nat
  BY LenProperties
<1> HIDE DEF e
<1>3. /\ s \in Seq(V) /\ Len(s) = 1 + n
      /\ \A i \in 1 .. 1 + n : s[i] = IF i <= 1 THEN e[i] ELSE r[i - 1]
  <2>1. /\ s \in Seq(V) /\ Len(s) = Len(e) + Len(r)
        /\ \A i \in 1 .. Len(e) + Len(r) : s[i] = IF i <= Len(e) THEN e[i] ELSE r[i - Len(e)]
    BY <1>1, ConcatProperties
  <2> QED BY <1>1, <2>1
<1> HIDE DEF s, n
<1>4. s # << >> /\ s[1] = x
  <2>1. 1 \in 1 .. 1 + n  BY <1>2
  <2>2. s[1] = x  BY <1>1, <1>3, <2>1
  <2>3. Len(s) # 0  BY <1>2, <1>3
  <2> QED BY <2>2, <2>3, EmptySeq
<1>5. Head(s) = x
  BY <1>4
<1>6. Tail(s) \in Seq(V) /\ Len(Tail(s)) = n /\ \A i \in 1 .. n : Tail(s)[i] = r[i]
  <2>1. Tail(s) \in Seq(V) /\ Len(Tail(s)) = Len(s) - 1
        /\ \A i \in 1 .. Len(Tail(s)) : Tail(s)[i] = s[i + 1]
    BY <1>3, <1>4, HeadTailProperties
  <2>2. Len(Tail(s)) = n  BY <1>2, <1>3, <2>1
  <2>3. ASSUME NEW i \in 1 .. n PROVE Tail(s)[i] = r[i]
    <3>1. Tail(s)[i] = s[i + 1]  BY <2>1, <2>2
    <3>2. i + 1 \in 1 .. 1 + n /\ ~ (i + 1 <= 1) /\ i + 1 - 1 = i  BY <1>2
    <3> QED BY <1>3, <3>1, <3>2
  <2> QED BY <2>1, <2>2, <2>3
<1>7. Tail(s) = r
  BY <1>6, SeqEqual DEF n
<1> QED
  BY <1>3, <1>4, <1>5, <1>7 DEF s, e

\* Taking the next item off what is left.
LEMMA FromIs ==
    ASSUME NEW V, NEW s \in Seq(V), NEW k \in 0 .. Len(s)
    PROVE  /\ From(s, k) \in Seq(V)
           /\ From(s, 0) = s /\ From(s, Len(s)) = << >>
           /\ k < Len(s) => s[k + 1] \in V /\ From(s, k) = <<s[k + 1]>> \o From(s, k + 1)
<1> DEFINE n == Len(s)
<1>1. n \in Nat /\ k \in Nat /\ k <= n
  BY LenProperties
<1>2. From(s, k) \in Seq(V)
  <2>1. \A i \in k + 1 .. n : s[i] \in V
    <3>1. \A i \in k + 1 .. n : i \in 1 .. n  BY <1>1
    <3> QED BY <3>1, ElementOfSeq
  <2>2. k + 1 \in Int /\ n \in Int  BY <1>1
  <2> QED BY <2>1, <2>2, SubSeqProperties DEF From
<1>3. From(s, 0) = s
  <2>1. SubSeq(s, 1, Len(s)) = s  BY SubSeqFull
  <2> QED BY <2>1 DEF From
<1>4. From(s, Len(s)) = << >>
  <2>1. n + 1 \in Int /\ n \in Int /\ n < n + 1  BY <1>1
  <2>2. SubSeq(s, n + 1, n) = << >>  BY <2>1, SubSeqEmpty
  <2> QED BY <2>2 DEF From
<1>5. ASSUME k < n PROVE s[k + 1] \in V /\ From(s, k) = <<s[k + 1]>> \o From(s, k + 1)
  <2>1. k + 1 \in 1 .. n /\ n \in k + 1 .. n  BY <1>1, <1>5
  <2>2. SubSeq(s, k + 1, n) = <<s[k + 1]>> \o SubSeq(s, k + 1 + 1, n)
    BY <2>1, SubSeqRecursiveFirst
  <2>3. s[k + 1] \in V  BY <2>1, ElementOfSeq
  <2> QED BY <2>2, <2>3 DEF From
<1> QED
  BY <1>2, <1>3, <1>4, <1>5

\* A part of a sequence is consumed item by item, then the next part is.
LEMMA GoesOn ==
    ASSUME NEW V, NEW s \in Seq(V), NEW r \in Seq(V), NEW k \in 0 .. Len(s)
    PROVE  /\ k = Len(s) => From(s, k) \o r = r
           /\ k < Len(s) => /\ From(s, k) \o r # << >> /\ Head(From(s, k) \o r) = s[k + 1]
                            /\ Tail(From(s, k) \o r) = From(s, k + 1) \o r
                            /\ s[k + 1] \in V
<1>1. ASSUME k = Len(s) PROVE From(s, k) \o r = r
  <2>1. From(s, k) = << >>  BY <1>1, FromIs
  <2>2. << >> \o r = r  BY ConcatEmptySeq
  <2> QED BY <2>1, <2>2
<1>2. ASSUME k < Len(s)
      PROVE  /\ From(s, k) \o r # << >> /\ Head(From(s, k) \o r) = s[k + 1]
             /\ Tail(From(s, k) \o r) = From(s, k + 1) \o r
             /\ s[k + 1] \in V
  <2> DEFINE x == s[k + 1]
             u == From(s, k + 1)
             e == <<x>>
  <2>1. x \in V /\ From(s, k) = e \o u  BY <1>2, FromIs
  <2>2. u \in Seq(V)
    <3>1. k + 1 \in 0 .. Len(s)  BY <1>2, LenProperties
    <3> QED BY <3>1, FromIs
  <2>3. e \in Seq(V)  BY <2>1
  <2> HIDE DEF u, x
  <2>4. (e \o u) \o r = e \o (u \o r)
    <3> HIDE DEF e
    <3> QED BY <2>2, <2>3, ConcatAssociative
  <2>5. u \o r \in Seq(V)  BY <2>2, ConcatProperties
  <2>6. e \o (u \o r) # << >> /\ Head(e \o (u \o r)) = x /\ Tail(e \o (u \o r)) = u \o r
    <3> DEFINE w == u \o r
    <3> HIDE DEF w
    <3>1. w \in Seq(V)  BY <2>5 DEF w
    <3>2. <<x>> \o w # << >> /\ Head(<<x>> \o w) = x /\ Tail(<<x>> \o w) = w
      BY <2>1, <3>1, FirstOf
    <3> QED BY <3>2 DEF w
  <2> QED BY <2>1, <2>4, <2>6 DEF u, x
<1> QED
  BY <1>1, <1>2

\* What is left of s, then r.
Left(s, k, r) == From(s, k) \o r

\* The same, with what comes next kept together for the provers.
LEMMA LeftIs ==
    ASSUME NEW V, NEW s \in Seq(V), NEW r \in Seq(V), NEW k \in 0 .. Len(s)
    PROVE  /\ k = Len(s) => Left(s, k, r) = r
           /\ k < Len(s) => /\ Head(Left(s, k, r)) = s[k + 1]
                            /\ Tail(Left(s, k, r)) = Left(s, k + 1, r)
<1>1. k = Len(s) => Left(s, k, r) = r
  BY GoesOn DEF Left
<1>2. k < Len(s) => Head(Left(s, k, r)) = s[k + 1]
  BY GoesOn DEF Left
<1>3. k < Len(s) => Tail(Left(s, k, r)) = Left(s, k + 1, r)
  BY GoesOn DEF Left
<1> QED
  BY <1>1, <1>2, <1>3

\* What has been consumed grows by the item.
LEMMA TakenGrows ==
    ASSUME NEW V, NEW s \in Seq(V), NEW k \in 0 .. Len(s)
    PROVE  /\ SubSeq(s, 1, 0) = << >> /\ SubSeq(s, 1, Len(s)) = s
           /\ k < Len(s) => SubSeq(s, 1, k + 1) = Append(SubSeq(s, 1, k), s[k + 1])
<1> DEFINE n == Len(s)
<1>1. n \in Nat /\ k \in Nat /\ k <= n
  BY LenProperties
<1>2. SubSeq(s, 1, 0) = << >>
  BY SubSeqEmpty
<1>3. SubSeq(s, 1, Len(s)) = s
  BY SubSeqFull
<1>4. ASSUME k < n PROVE SubSeq(s, 1, k + 1) = Append(SubSeq(s, 1, k), s[k + 1])
  <2> DEFINE u == SubSeq(s, 1, k)
  <2>1. 1 \in 1 .. n /\ k + 1 \in 1 .. n /\ k + 1 - 1 = k  BY <1>1, <1>4
  <2>2. SubSeq(s, 1, k + 1) = SubSeq(s, 1, k + 1 - 1) \o <<s[k + 1]>>
    <3>1. k + 1 \in 1 .. Len(s)  BY <2>1
    <3> QED BY <2>1, <3>1, SubSeqRecursiveSecond
  <2>3. s[k + 1] \in V  BY <2>1, ElementOfSeq
  <2>4. u \in Seq(V)
    <3>1. \A i \in 1 .. k : s[i] \in V
      <4>1. \A i \in 1 .. k : i \in 1 .. n  BY <1>1
      <4> QED BY <4>1, ElementOfSeq
    <3> QED BY <1>1, <3>1, SubSeqProperties
  <2> HIDE DEF u
  <2>5. Append(u, s[k + 1]) = u \o <<s[k + 1]>>  BY <2>3, <2>4, AppendIsConcat
  <2> QED BY <2>1, <2>2, <2>5 DEF u
<1> QED
  BY <1>2, <1>3, <1>4

---------------------------------------------------------------------------
(* The parts of a log call *)

Item == Char \cup Switches

\* The parts of a call are sequences of characters, or of what a call is made of.
LEMMA Parts ==
    ASSUME NEW m \in Messages
    PROVE  /\ Prefix \in Seq(Char) /\ Dots \in Seq(Char) /\ m.text \in Seq(Char)
           /\ Body(m) \in Seq(Char) /\ LineEnd(m) \in Seq(Char) /\ Serial(m) \in Seq(Char)
           /\ Line(m) \in Seq(Char)
           /\ Serial(m) \in Seq(Item) /\ Body(m) \in Seq(Item) /\ Dots \in Seq(Item)
           /\ Ending(m) \in Seq(Item) /\ <<"NewLineIfEnabled">> \o Ending(m) \in Seq(Item)
           /\ SetNewLine(TRUE) \in Seq(Item) /\ SetNewLine(FALSE) \in Seq(Item)
           /\ LineAndEnd(m) \in Seq(Item) /\ ToConsole(m) \in Seq(Item) /\ Then(m) \in Seq(Item)
<1>1. /\ Prefix \in Seq(Char) /\ Dots \in Seq(Char) /\ Break \in Char
      /\ m \in [type: Types, text: Seq(Char)]
  BY ConstantsAreSane
<1>2. m.text \in Seq(Char)
  BY <1>1
<1>3. Body(m) \in Seq(Char)
  BY <1>1, <1>2, ConcatProperties DEF Body
<1>4. LineEnd(m) \in Seq(Char)
  BY <1>1 DEF LineEnd
<1>5. Serial(m) \in Seq(Char)
  <2>1. Serial(m) = Body(m) \o LineEnd(m)  BY DEF Serial, Body
  <2> QED BY <1>3, <1>4, <2>1, ConcatProperties
<1>6. Line(m) \in Seq(Char)
  <2> DEFINE d == IF m.type \in Blinking THEN Dots ELSE << >>
  <2>1. d \in Seq(Char)  BY <1>1
  <2>2. Line(m) = Body(m) \o d  BY DEF Line, Body
  <2> HIDE DEF d
  <2> QED BY <1>3, <2>1, <2>2, ConcatProperties
<1>7. Char \subseteq Item /\ Switches \subseteq Item /\ Break \in Item
  BY <1>1 DEF Item
<1>8. Serial(m) \in Seq(Item) /\ Body(m) \in Seq(Item) /\ Dots \in Seq(Item)
  <2>1. \A s \in Seq(Char) : s \in Seq(Item)
    <3> TAKE s \in Seq(Char)
    <3> QED BY <1>7, SeqMonotonic
  <2> QED BY <1>1, <1>3, <1>5, <2>1
<1>9. SetNewLine(TRUE) \in Seq(Item) /\ SetNewLine(FALSE) \in Seq(Item)
      /\ <<"NewLineIfEnabled">> \in Seq(Item) /\ <<"InitOnlyCons">> \in Seq(Item)
  <2>1. /\ "InitOnlyCons" \in Item /\ "NewLineOn" \in Item /\ "NewLineOff" \in Item
        /\ "NewLineIfEnabled" \in Item /\ Break \in Item
    BY <1>7 DEF Switches
  <2> QED BY <2>1 DEF SetNewLine
<1>10. Ending(m) \in Seq(Item)
  <2>1. CASE m.type \in Blinking
    BY <2>1, <1>8, <1>9, ConcatProperties DEF Ending
  <2>2. CASE m.type \notin Blinking
    BY <2>2 DEF Ending
  <2> QED BY <2>1, <2>2
<1>11. <<"NewLineIfEnabled">> \o Ending(m) \in Seq(Item)
  BY <1>9, <1>10, ConcatProperties
<1>12. LineAndEnd(m) \in Seq(Item)
  BY <1>8, <1>11, ConcatProperties DEF LineAndEnd
<1>13. ToConsole(m) \in Seq(Item)
  BY <1>9, <1>12, ConcatProperties DEF ToConsole
<1>14. Then(m) \in Seq(Item)
  <2> DEFINE h == IF m.type \in Blinking THEN SetNewLine(FALSE) ELSE << >>
  <2>1. h \in Seq(Item)
    <3>1. CASE m.type \in Blinking  BY <1>9, <3>1
    <3>2. CASE m.type \notin Blinking
      <4>1. h = << >>  BY <3>2
      <4>2. << >> \in Seq(Item)  OBVIOUS
      <4> QED BY <4>1, <4>2
    <3> QED BY <3>1, <3>2
  <2>2. Then(m) = h \o ToConsole(m)  BY DEF Then
  <2> HIDE DEF h
  <2> QED BY <1>13, <2>1, <2>2, ConcatProperties
<1> QED
  BY <1>1, <1>2, <1>3, <1>4, <1>5, <1>6, <1>8, <1>9, <1>10, <1>11, <1>12, <1>13, <1>14

\* One sequence after another.
Cat(u, v) == u \o v

\* Sequences put together, and that it does not matter how they are grouped.
LEMMA Joined ==
    ASSUME NEW u \in Seq(Item), NEW v \in Seq(Item)
    PROVE  Cat(u, v) \in Seq(Item)
BY ConcatProperties DEF Cat

LEMMA Regroup ==
    ASSUME NEW u \in Seq(Item), NEW v \in Seq(Item), NEW w \in Seq(Item)
    PROVE  Cat(Cat(u, v), w) = Cat(u, Cat(v, w))
BY ConcatAssociative DEF Cat

\* A new call begins with the serial port.
LEMMA CallBegins ==
    ASSUME NEW m \in Messages, DbgDebugLog(m)
    PROVE  todo' = <<"Init">> \o (Serial(m) \o Then(m))
<1> DEFINE i == <<"Init">>
           p == Prefix
           q == m.text
           x == LineEnd(m)
           h == IF m.type \in Blinking THEN SetNewLine(FALSE) ELSE << >>
           j == <<"InitOnlyCons">>
           z == <<"NewLineIfEnabled">>
           e == Ending(m)
           b == Cat(p, q)
           s == Cat(b, x)
           c == Cat(j, Cat(b, z))
           r == Cat(s, h)
<1>1. /\ i \in Seq(Item) /\ p \in Seq(Item) /\ q \in Seq(Item) /\ x \in Seq(Item)
      /\ h \in Seq(Item) /\ j \in Seq(Item) /\ z \in Seq(Item) /\ e \in Seq(Item)
  <2>1. Char \subseteq Item /\ Switches \subseteq Item  BY DEF Item
  <2>2. \A l \in Seq(Char) : l \in Seq(Item)
    <3> TAKE l \in Seq(Char)
    <3> QED BY <2>1, SeqMonotonic
  <2>3. i \in Seq(Item) /\ j \in Seq(Item) /\ z \in Seq(Item)
    <3>1. "Init" \in Item /\ "InitOnlyCons" \in Item /\ "NewLineIfEnabled" \in Item
      BY <2>1 DEF Switches
    <3> QED BY <3>1
  <2>4. p \in Seq(Item) /\ q \in Seq(Item) /\ x \in Seq(Item)
    BY <2>2, Parts
  <2>5. e \in Seq(Item)  BY Parts
  <2>6. h \in Seq(Item)
    <3>1. CASE m.type \in Blinking  BY <3>1, Parts
    <3>2. CASE m.type \notin Blinking
      <4>1. h = << >>  BY <3>2
      <4>2. << >> \in Seq(Item)  OBVIOUS
      <4> QED BY <4>1, <4>2
    <3> QED BY <3>1, <3>2
  <2> QED BY <2>3, <2>4, <2>5, <2>6
<1>2. todo' = Cat(Cat(Cat(Cat(Cat(Cat(i, p), q), x), h), Cat(Cat(Cat(j, p), q), z)), e)
  BY DEF DbgDebugLog, SerialLog, ConsolePrint, Ending, Cat
<1>3. <<"Init">> \o (Serial(m) \o Then(m))
      = Cat(i, Cat(s, Cat(h, Cat(j, Cat(b, Cat(z, e))))))
  BY DEF Serial, Then, ToConsole, LineAndEnd, Body, Cat
<1> HIDE DEF i, p, q, x, h, j, z, e
<1>4. b \in Seq(Item)  BY <1>1, Joined
<1>5. s \in Seq(Item)  BY <1>1, <1>4, Joined
<1>6. Cat(b, z) \in Seq(Item)  BY <1>1, <1>4, Joined
<1>7. c \in Seq(Item)  BY <1>1, <1>6, Joined
<1>8. r \in Seq(Item)  BY <1>1, <1>5, Joined
<1>9. Cat(r, c) \in Seq(Item)  BY <1>7, <1>8, Joined
<1>10. Cat(Cat(i, p), q) = Cat(i, b) /\ Cat(Cat(j, p), q) = Cat(j, b)
  BY <1>1, Regroup
<1> HIDE DEF b
<1>11. Cat(Cat(i, b), x) = Cat(i, s)  BY <1>1, <1>4, Regroup
<1>12. Cat(Cat(j, b), z) = c  BY <1>1, <1>4, Regroup
<1>13. Cat(c, e) = Cat(j, Cat(b, Cat(z, e)))
  <2>1. Cat(Cat(j, Cat(b, z)), e) = Cat(j, Cat(Cat(b, z), e))  BY <1>1, <1>6, Regroup
  <2>2. Cat(Cat(b, z), e) = Cat(b, Cat(z, e))  BY <1>1, <1>4, Regroup
  <2> QED BY <2>1, <2>2
<1> HIDE DEF s, c
<1>14. Cat(Cat(i, s), h) = Cat(i, r)  BY <1>1, <1>5, Regroup
<1>15. Cat(r, Cat(c, e)) = Cat(s, Cat(h, Cat(c, e)))
  <2>1. Cat(c, e) \in Seq(Item)  BY <1>1, <1>7, Joined
  <2> QED BY <1>1, <1>5, <2>1, Regroup
<1> HIDE DEF r
<1>16. Cat(Cat(i, r), c) = Cat(i, Cat(r, c))  BY <1>1, <1>7, <1>8, Regroup
<1>17. Cat(Cat(i, Cat(r, c)), e) = Cat(i, Cat(Cat(r, c), e))  BY <1>1, <1>9, Regroup
<1>18. Cat(Cat(r, c), e) = Cat(r, Cat(c, e))  BY <1>1, <1>7, <1>8, Regroup
<1> QED
  BY <1>2, <1>3, <1>10, <1>11, <1>12, <1>13, <1>14, <1>15, <1>16, <1>17, <1>18

\* One more character of the line is one more to be read, if it is visible.
LEMMA InkGrows ==
    ASSUME NEW s \in Seq(Char), NEW k \in 0 .. Len(s)
    PROVE  /\ InkOf(s, k) \in Seq(Ink)
           /\ k = 0 => InkOf(s, k) = << >>
           /\ k < Len(s) => InkOf(s, k + 1) = InkOf(s, k) \o NewOnScreen(s[k + 1])
<1> DEFINE n == Len(s)
           S(j) == {i \in 1 .. j : s[i] \in Ink}
<1>1. n \in Nat /\ k \in Nat /\ k <= n
  BY LenProperties
<1>2. ASSUME NEW j \in Nat
      PROVE  S(j) \in SUBSET Nat /\ IsFiniteSet(S(j)) /\ InkOf(s, j) = InOrder(s, S(j))
             /\ \A i \in S(j) : s[i] \in Ink
  <2>1. S(j) \in SUBSET (1 .. j) /\ S(j) \in SUBSET Nat  OBVIOUS
  <2>2. IsFiniteSet(1 .. j)
    <3>1. 1 \in Int /\ j \in Int  OBVIOUS
    <3> QED BY <3>1, FS_Interval
  <2>3. IsFiniteSet(S(j))  BY <2>1, <2>2, FS_Subset
  <2> QED BY <2>1, <2>3 DEF InkOf
<1>3. InkOf(s, k) \in Seq(Ink) /\ Len(InkOf(s, k)) = Cardinality(S(k))
  <2> DEFINE T == S(k)
  <2>1. /\ T \in SUBSET Nat /\ IsFiniteSet(T) /\ InkOf(s, k) = InOrder(s, T)
        /\ \A i \in T : s[i] \in Ink
    BY <1>1, <1>2
  <2> HIDE DEF T
  <2>2. InOrder(s, T) \in Seq(Ink) /\ Len(InOrder(s, T)) = Cardinality(T)  BY <2>1, InOrderType
  <2> QED BY <2>1, <2>2 DEF T
<1>4. k = 0 => InkOf(s, k) = << >>
  <2>1. k = 0 => S(k) = {}  OBVIOUS
  <2>2. k = 0 => Len(InkOf(s, k)) = 0  BY <1>3, <2>1, FS_EmptySet
  <2> QED BY <1>3, <2>2, EmptySeq
<1>5. ASSUME k < n PROVE InkOf(s, k + 1) = InkOf(s, k) \o NewOnScreen(s[k + 1])
  <2>0. \A i \in 1 .. k + 1 : i \in 1 .. k \/ i = k + 1
    BY <1>1
  <2>1. InkOf(s, k) = InOrder(s, S(k)) /\ InkOf(s, k + 1) = InOrder(s, S(k + 1))
    BY DEF InkOf
  <2>2. CASE s[k + 1] \in Ink
    <3>1. S(k + 1) = S(k) \cup {k + 1}
      BY <1>1, <2>0, <2>2
    <3> DEFINE T == S(k)
    <3>2. T \in SUBSET Nat /\ IsFiniteSet(T) /\ (\A i \in T : i < k + 1)
          /\ \A i \in T \cup {k + 1} : s[i] \in Ink
      BY <1>1, <1>2, <2>2
    <3>3. k + 1 \in Nat  BY <1>1
    <3> HIDE DEF T
    <3>4. InOrder(s, T \cup {k + 1}) = InOrder(s, T) \o <<s[k + 1]>>
      BY <3>2, <3>3, OneMore
    <3> QED BY <2>1, <2>2, <3>1, <3>4 DEF T, NewOnScreen
  <2>3. CASE s[k + 1] \notin Ink
    <3>1. S(k + 1) = S(k)
      BY <1>1, <2>0, <2>3
    <3> DEFINE t == InkOf(s, k)
    <3>2. t \in Seq(Ink)  BY <1>3
    <3> HIDE DEF t
    <3>3. t \o << >> = t  BY <3>2, ConcatEmptySeq
    <3>4. InkOf(s, k + 1) = InkOf(s, k)  BY <2>1, <3>1
    <3> QED BY <2>3, <3>3, <3>4 DEF t, NewOnScreen
  <2> QED BY <2>2, <2>3
<1> QED
  BY <1>3, <1>4, <1>5
LEMMA NotEmpty ==
    ASSUME NEW u \in Seq(Item), NEW v \in Seq(Item), v # << >>
    PROVE  u \o v # << >>
<1>1. Len(v) # 0 /\ Len(v) \in Nat /\ Len(u) \in Nat
  BY EmptySeq, LenProperties
<1>2. Len(u \o v) = Len(u) + Len(v) /\ u \o v \in Seq(Item)
  BY ConcatProperties
<1> DEFINE w == u \o v
<1> HIDE DEF w
<1>3. Len(w) # 0 /\ w \in Seq(Item)
  BY <1>1, <1>2 DEF w
<1>4. w # << >>
  BY <1>3, EmptySeq
<1> QED
  BY <1>4 DEF w

\* What is done after the serial port, and at the end.
LEMMA ThenIs ==
    ASSUME NEW m \in Messages
    PROVE  /\ <<"NewLineOff">> \o ToConsole(m) \in Seq(Item)
           /\ m.type \in Blinking =>
                Then(m) = <<"InitOnlyCons">> \o (<<"NewLineOff">> \o ToConsole(m))
           /\ m.type \notin Blinking => Then(m) = ToConsole(m)
           /\ m.type \in Blinking => Ending(m) = Dots \o SetNewLine(TRUE)
           /\ m.type \notin Blinking => Ending(m) = << >>
<1> DEFINE t == ToConsole(m)
           a == <<"InitOnlyCons">>
           f == <<"NewLineOff">>
<1>1. t \in Seq(Item)
  BY Parts
<1>2. a \in Seq(Item) /\ f \in Seq(Item) /\ SetNewLine(FALSE) = Cat(a, f)
  <2>1. "InitOnlyCons" \in Item /\ "NewLineOff" \in Item  BY DEF Item, Switches
  <2> QED BY <2>1 DEF SetNewLine, Cat
<1> HIDE DEF t, a, f
<1>3. Cat(Cat(a, f), t) = Cat(a, Cat(f, t)) /\ Cat(f, t) \in Seq(Item)
  BY <1>1, <1>2, Regroup, Joined
<1>4. m.type \in Blinking => Then(m) = Cat(Cat(a, f), t)
  BY <1>2 DEF Then, t, Cat
<1>5. << >> \o t = t
  BY <1>1, ConcatEmptySeq
<1>6. m.type \notin Blinking => Then(m) = t
  BY <1>5 DEF Then, t
<1>7. m.type \in Blinking => Ending(m) = Dots \o SetNewLine(TRUE)
  BY DEF Ending
<1>8. m.type \notin Blinking => Ending(m) = << >>
  BY DEF Ending
<1> QED
  BY <1>3, <1>4, <1>6, <1>7, <1>8 DEF Cat, t, a, f

\* The line is the body, with the dots after it.
LEMMA LineIs ==
    ASSUME NEW m \in Messages
    PROVE  /\ Len(Body(m)) \in Nat /\ Len(Line(m)) \in Nat /\ Len(Body(m)) <= Len(Line(m))
           /\ \A i \in 1 .. Len(Body(m)) : Line(m)[i] = Body(m)[i]
           /\ m.type \notin Blinking => Line(m) = Body(m)
           /\ m.type \in Blinking =>
                /\ Len(Line(m)) = Len(Body(m)) + Len(Dots)
                /\ \A i \in 1 .. Len(Dots) : Line(m)[Len(Body(m)) + i] = Dots[i]
<1> DEFINE b == Body(m)
           d == IF m.type \in Blinking THEN Dots ELSE << >>
           s == b \o d
<1>1. b \in Seq(Char) /\ Dots \in Seq(Char) /\ Len(Dots) \in Nat /\ Len(b) \in Nat
  BY Parts, LenProperties
<1>2. d \in Seq(Char) /\ Len(d) \in Nat
  BY <1>1
<1>3. Line(m) = s
  BY DEF Line, Body
<1>4. m.type \in Blinking => d = Dots
  OBVIOUS
<1>5. m.type \notin Blinking => d = << >>
  OBVIOUS
<1> HIDE DEF b, d
<1>6. /\ Len(s) = Len(b) + Len(d)
      /\ \A i \in 1 .. Len(b) + Len(d) : s[i] = IF i <= Len(b) THEN b[i] ELSE d[i - Len(b)]
  BY <1>1, <1>2, ConcatProperties
<1>7. m.type \notin Blinking => s = b
  <2>1. b \o << >> = b  BY <1>1, ConcatEmptySeq
  <2> QED BY <1>5, <2>1
<1> HIDE DEF s
<1>8. \A i \in 1 .. Len(b) : s[i] = b[i]
  BY <1>1, <1>2, <1>6
<1>9. \A i \in 1 .. Len(d) : s[Len(b) + i] = d[i]
  <2> TAKE i \in 1 .. Len(d)
  <2>1. Len(b) + i \in 1 .. Len(b) + Len(d) /\ ~ (Len(b) + i <= Len(b)) /\ Len(b) + i - Len(b) = i
    BY <1>1, <1>2
  <2> QED BY <1>6, <2>1
<1>10. Len(b) <= Len(s) /\ Len(s) \in Nat
  BY <1>1, <1>2, <1>6
<1> QED
  BY <1>1, <1>3, <1>4, <1>6, <1>7, <1>8, <1>9, <1>10 DEF b

\* Of an empty beginning there is nothing to read.
LEMMA NothingToRead ==
    ASSUME call \in Messages, text \in Seq(Ink)
    PROVE  Readable(0)
<1> DEFINE s == Line(call)
           r == InkOf(s, 0)
<1>1. s \in Seq(Char) /\ 0 \in 0 .. Len(s)
  <2>1. s \in Seq(Char)  BY Parts
  <2> HIDE DEF s
  <2>2. Len(s) \in Nat  BY <2>1, LenProperties
  <2> QED BY <2>1, <2>2
<1>2. r \in Seq(Ink) /\ r = << >>
  <2> HIDE DEF s
  <2> QED BY <1>1, InkGrows
<1> HIDE DEF r
<1>3. Len(r) = 0 /\ Len(text) \in Nat
  BY <1>2, LenProperties
<1>4. IsSuffix(r, text)
  <2>1. Len(r) <= Len(text) /\ \A i \in 1 .. Len(r) : r[i] = text[Len(text) - Len(r) + i]
    BY <1>3
  <2>2. r \in Seq(Ink)  BY <1>2
  <2> QED BY <2>1, <2>2, SuffixMeans
<1> QED
  BY <1>4 DEF Readable, r, s

\* What could be read still can be when the next character of the line is put.
LEMMA ReadableGrows ==
    ASSUME call \in Messages, text \in Seq(Ink), Len(text) <= Page, call' = call,
           NEW k \in Nat, k < Len(Line(call)), Readable(k), NEW c, c = Line(call)[k + 1],
           text' = IF c \in Ink THEN Extended(text, c, Page) ELSE text
    PROVE  Readable(k + 1)'
<1> DEFINE s == Line(call)
           r == InkOf(s, k)
           q == InkOf(s, k + 1)
<1>1. s \in Seq(Char) /\ k \in 0 .. Len(s) /\ k + 1 \in 0 .. Len(s) /\ k < Len(s)
  <2>1. s \in Seq(Char) /\ Len(s) \in Nat  BY Parts, LineIs
  <2> QED BY <2>1
<1>2. r \in Seq(Ink) /\ q \in Seq(Ink) /\ q = r \o NewOnScreen(c)
  <2> HIDE DEF s
  <2>1. r \in Seq(Ink) /\ q \in Seq(Ink)  BY <1>1, InkGrows
  <2>2. q = r \o NewOnScreen(s[k + 1])  BY <1>1, InkGrows
  <2> QED BY <2>1, <2>2 DEF s
<1>3. IsSuffix(r, text) \/ Len(r) > Page
  BY DEF Readable
<1>4. Readable(k + 1)' = (IsSuffix(q, text') \/ Len(q) > Page)
  BY DEF Readable
<1> HIDE DEF r, q
<1>5. Len(r) \in Nat /\ Len(q) \in Nat /\ Page \in Nat \ {0}
  BY <1>2, LenProperties, Sizes
<1>6. CASE c \in Ink
  <2>1. /\ Len(q) = Len(r) + 1 /\ q[Len(r) + 1] = c
        /\ \A i \in 1 .. Len(r) : q[i] = r[i]
    <3> DEFINE e == <<c>>
    <3>1. e \in Seq(Ink) /\ Len(e) = 1 /\ e[1] = c  BY <1>6
    <3>2. q = r \o e  BY <1>2, <1>6 DEF NewOnScreen
    <3> HIDE DEF e
    <3>3. /\ Len(q) = Len(r) + Len(e)
          /\ \A i \in 1 .. Len(r) + Len(e) : q[i] = IF i <= Len(r) THEN r[i] ELSE e[i - Len(r)]
      <4>1. r \in Seq(Ink) /\ e \in Seq(Ink)  BY <1>2, <3>1
      <4>2. /\ Len(r \o e) = Len(r) + Len(e)
            /\ \A i \in 1 .. Len(r) + Len(e) :
                  (r \o e)[i] = IF i <= Len(r) THEN r[i] ELSE e[i - Len(r)]
        BY <4>1, ConcatProperties
      <4> QED BY <3>2, <4>2
    <3>4. Len(r) + 1 \in 1 .. Len(r) + 1 /\ ~ (Len(r) + 1 <= Len(r)) /\ Len(r) + 1 - Len(r) = 1
      BY <1>5
    <3>5. q[Len(r) + 1] = c  BY <3>1, <3>3, <3>4
    <3>6. \A i \in 1 .. Len(r) : q[i] = r[i]  BY <1>5, <3>1, <3>3
    <3> QED BY <3>1, <3>3, <3>5, <3>6
  <2>2. CASE Len(q) > Page  BY <1>4, <2>2
  <2>3. CASE Len(q) <= Page
    <3>1. IsSuffix(r, text)  BY <1>3, <1>5, <2>1, <2>3
    <3>2. IsSuffix(q, Extended(text, c, Page))
      BY <1>2, <1>5, <1>6, <2>1, <2>3, <3>1, SuffixGrows
    <3>3. text' = Extended(text, c, Page)  BY <1>6
    <3> QED BY <1>4, <3>2, <3>3
  <2> QED BY <1>5, <2>2, <2>3
<1>7. CASE c \notin Ink
  <2>1. r \o << >> = r  BY <1>2, ConcatEmptySeq
  <2>2. q = r /\ text' = text  BY <1>2, <1>7, <2>1 DEF NewOnScreen
  <2> QED BY <1>3, <1>4, <2>2
<1> QED
  BY <1>6, <1>7
---------------------------------------------------------------------------
(* From place to place *)

\* A log call goes on by its first item.
Takes ==
    LET item == Head(todo)
    IN  /\ call' = call /\ gPort' = gPort /\ pc' = pc
        /\ item # "NewLineIfEnabled" => todo' = Tail(todo)
        /\ item = "NewLineIfEnabled" =>
             todo' = (IF gNewLineEnabled THEN <<Break>> ELSE << >>) \o Tail(todo)
        /\ item = "Init" => out' = IF gPort THEN "serial" ELSE "console"
        /\ item = "InitOnlyCons" => out' = "console"
        /\ item \notin {"Init", "InitOnlyCons"} => out' = out
        /\ item = "NewLineOn" => gNewLineEnabled' = TRUE
        /\ item = "NewLineOff" => gNewLineEnabled' = FALSE
        /\ item \notin {"NewLineOn", "NewLineOff"} => gNewLineEnabled' = gNewLineEnabled
        /\ item \in Switches => port' = port /\ text' = text /\ UNCHANGED screenVars
        /\ item \notin Switches => IF out = "serial" THEN SerialPut(item) ELSE ConsolePutChar(item)

\* A step while a call is running takes its first item.
LEMMA CallGoesOn ==
    ASSUME TypeOK, ScreenInv, Next, todo # << >>
    PROVE  Takes
<1>1. pc = "log"
  BY DEF ScreenInv
<1>2. ~ VVgaTextInit /\ ~ ConsoleInit /\ ~ SerialFound /\ ~ \E m \in Messages : DbgDebugLog(m)
  BY <1>1 DEF VVgaTextInit, ConsoleInit, SerialFound, DbgDebugLog
<1>3. ASSUME NEW item \in {"Init", "InitOnlyCons"}, InitOutput(item) PROVE Takes
  <2>1. /\ Head(todo) = item /\ item \in Switches /\ item # "NewLineIfEnabled"
        /\ item \notin {"NewLineOn", "NewLineOff"}
    BY <1>3 DEF InitOutput, Goes, Switches
  <2> QED BY <1>3, <2>1 DEF InitOutput, Takes
<1>4. ASSUME NEW item \in {"NewLineOn", "NewLineOff"}, EnableNewLine(item) PROVE Takes
  <2>1. /\ Head(todo) = item /\ item \in Switches /\ item # "NewLineIfEnabled"
        /\ item \notin {"Init", "InitOnlyCons"}
    BY <1>4 DEF EnableNewLine, Goes, Switches
  <2>2. item = "NewLineOn" => gNewLineEnabled' = TRUE
    BY <1>4 DEF EnableNewLine
  <2>3. item = "NewLineOff" => gNewLineEnabled' = FALSE
    BY <1>4 DEF EnableNewLine
  <2> QED BY <1>4, <2>1, <2>2, <2>3 DEF EnableNewLine, Takes
<1>5. ASSUME NewLineIfEnabled PROVE Takes
  <2>1. Head(todo) = "NewLineIfEnabled" /\ Head(todo) \in Switches
    BY <1>5 DEF NewLineIfEnabled, Goes, Switches
  <2> QED BY <1>5, <2>1 DEF NewLineIfEnabled, Takes
<1>6. ASSUME PrintCharacter PROVE Takes
  <2>1. /\ Head(todo) \notin Switches /\ Head(todo) # "NewLineIfEnabled" /\ Head(todo) # "Init"
        /\ Head(todo) \notin {"Init", "InitOnlyCons"}
        /\ Head(todo) \notin {"NewLineOn", "NewLineOff"}
        /\ Head(todo) # "InitOnlyCons" /\ Head(todo) # "NewLineOn" /\ Head(todo) # "NewLineOff"
    BY <1>6 DEF PrintCharacter, Prints, Switches
  <2>2. IF out = "serial" THEN SerialPut(Head(todo)) ELSE ConsolePutChar(Head(todo))
    BY <1>6 DEF PrintCharacter
  <2>3. /\ todo' = Tail(todo) /\ pc' = pc /\ gPort' = gPort /\ out' = out
        /\ gNewLineEnabled' = gNewLineEnabled /\ call' = call
    BY <1>6 DEF PrintCharacter
  <2> QED BY <2>1, <2>2, <2>3 DEF Takes
<1> QED
  BY <1>2, <1>3, <1>4, <1>5, <1>6 DEF Next

\* A log call is running.
Running == TypeOK /\ ScreenInv /\ pc = "log" /\ call \in Messages

\* A character for the console.
LEMMA OnConsole ==
    ASSUME Running, Takes, NEW c \in Char, Head(todo) = c, out = "console"
    PROVE  /\ todo' = Tail(todo) /\ out' = out /\ gNewLineEnabled' = gNewLineEnabled
           /\ port' = port /\ call' = call /\ gPort' = gPort /\ pc' = pc
           /\ text' = IF c \in Ink THEN Extended(text, c, Page) ELSE text
           /\ c = Break => s_col' = 0
<1>1. /\ c \notin Switches /\ c # "NewLineIfEnabled"
      /\ c \notin {"Init", "InitOnlyCons"} /\ c \notin {"NewLineOn", "NewLineOff"}
  BY ConstantsAreSane DEF Switches
<1>2. ConsolePutChar(c)
  BY <1>1 DEF Takes
<1>3. c = Break => s_col' = 0
  BY <1>2, CharacterIsPut DEF Running
<1>4. port' = port /\ text' = IF c \in Ink THEN Extended(text, c, Page) ELSE text
  BY <1>2 DEF ConsolePutChar
<1> QED
  BY <1>1, <1>3, <1>4 DEF Takes

\* A character for the serial port, or where it would be if there were one.
LEMMA OnSerial ==
    ASSUME Running, Takes, NEW c \in Char, Head(todo) = c,
           out = IF gPort THEN "serial" ELSE "console"
    PROVE  /\ todo' = Tail(todo) /\ out' = out /\ gNewLineEnabled' = gNewLineEnabled
           /\ call' = call /\ gPort' = gPort /\ pc' = pc
           /\ port' = IF gPort THEN Append(port, c) ELSE port
<1>1. /\ c \notin Switches /\ c # "NewLineIfEnabled"
      /\ c \notin {"Init", "InitOnlyCons"} /\ c \notin {"NewLineOn", "NewLineOff"}
  BY ConstantsAreSane DEF Switches
<1>2. IF out = "serial" THEN SerialPut(c) ELSE ConsolePutChar(c)
  BY <1>1 DEF Takes
<1>3. port' = IF gPort THEN Append(port, c) ELSE port
  BY <1>2 DEF SerialPut, ConsolePutChar
<1> QED
  BY <1>1, <1>3 DEF Takes
\* The parts of the running call.
LEMMA RunningParts ==
    ASSUME Running
    PROVE  /\ text \in Seq(Ink) /\ Len(text) <= Page
           /\ Serial(call) \in Seq(Char) /\ Len(Serial(call)) \in Nat
           /\ Body(call) \in Seq(Char) /\ Len(Body(call)) \in Nat
           /\ Dots \in Seq(Char) /\ Len(Dots) \in Nat
<1>1. text \in Seq(Ink) /\ Len(text) <= Page /\ call \in Messages
  BY DEF Running, TypeOK
<1>2. Serial(call) \in Seq(Char) /\ Body(call) \in Seq(Char) /\ Dots \in Seq(Char)
  BY <1>1, Parts
<1> QED
  BY <1>1, <1>2, LenProperties

\* The line begins on the console.
LEMMA LineBegins ==
    ASSUME call \in Messages, text \in Seq(Ink), call' = call, text' = text, out' = "console",
           todo' = LineAndEnd(call), port' = IF gPort' THEN Serial(call) ELSE << >>,
           gNewLineEnabled' <=> call.type \notin Blinking
    PROVE  AtLine(0)'
<1> DEFINE b == Body(call)
<1>1. From(b, 0) = b
  <2>1. b \in Seq(Char)  BY Parts
  <2> HIDE DEF b
  <2>2. 0 \in 0 .. Len(b)  BY <2>1, LenProperties
  <2> QED BY <2>1, <2>2, FromIs
<1>2. todo' = From(Body(call'), 0) \o (<<"NewLineIfEnabled">> \o Ending(call'))
  BY <1>1 DEF LineAndEnd
<1>3. Readable(0)'
  <2>1. Readable(0)  BY NothingToRead
  <2> QED BY <2>1 DEF Readable
<1>4. SentAll'
  BY DEF SentAll
<1>5. gNewLineEnabled' <=> ~ BlinkingCall'
  BY DEF BlinkingCall
<1> QED
  BY <1>2, <1>3, <1>4, <1>5 DEF AtLine

\* From the output to the serial port to its first character.
LEMMA AfterInit ==
    ASSUME Running, Takes, AtInit
    PROVE  AtSerial(0)'
<1> DEFINE r == Serial(call) \o Then(call)
<1>1. call \in Messages
  BY DEF Running
<1>2. Serial(call) \in Seq(Item) /\ Then(call) \in Seq(Item)
  BY <1>1, Parts
<1>3. r \in Seq(Item) /\ "Init" \in Item
  <2>1. r \in Seq(Item)  BY <1>2, ConcatProperties
  <2> QED BY <2>1 DEF Item, Switches
<1>4. todo = <<"Init">> \o r
  BY DEF AtInit
<1> HIDE DEF r
<1>5. Head(todo) = "Init" /\ Tail(todo) = r
  BY <1>3, <1>4, FirstOf
<1>6. /\ todo' = r /\ call' = call /\ gPort' = gPort /\ port' = << >> /\ gNewLineEnabled' = TRUE
      /\ out' = IF gPort THEN "serial" ELSE "console"
  BY <1>5 DEF Takes, AtInit, Switches
<1>7. From(Serial(call), 0) = Serial(call) /\ SubSeq(Serial(call), 1, 0) = << >>
  <2> DEFINE s == Serial(call)
  <2>1. s \in Seq(Item) /\ 0 \in 0 .. Len(s)
    <3> HIDE DEF s
    <3>1. s \in Seq(Item)  BY <1>2 DEF s
    <3> QED BY <3>1, LenProperties
  <2> HIDE DEF s
  <2>2. From(s, 0) = s /\ SubSeq(s, 1, 0) = << >>  BY <2>1, FromIs, TakenGrows
  <2> QED BY <2>2 DEF s
<1>8. todo' = From(Serial(call'), 0) \o Then(call')
  BY <1>6, <1>7 DEF r
<1>9. Sent(0)'
  BY <1>6, <1>7 DEF Sent
<1> QED
  BY <1>6, <1>8, <1>9 DEF AtSerial

\* From one character of the serial port to the next, and then to the console.
LEMMA AfterSerial ==
    ASSUME Running, Takes, NEW k \in 0 .. Len(Serial(call)), AtSerial(k)
    PROVE  \/ k + 1 \in 0 .. Len(Serial(call)) /\ AtSerial(k + 1)'
           \/ AtHold' \/ AtLine(0)'
<1> DEFINE s == Serial(call)
           t == Then(call)
<1>1. call \in Messages /\ text \in Seq(Ink) /\ s \in Seq(Char) /\ Len(s) \in Nat
  BY RunningParts DEF Running
<1>2. s \in Seq(Item) /\ t \in Seq(Item)
  BY <1>1, Parts
<1>3. /\ todo = From(s, k) \o t /\ gNewLineEnabled /\ out = IF gPort THEN "serial" ELSE "console"
      /\ port = IF gPort THEN SubSeq(s, 1, k) ELSE << >>
  BY DEF AtSerial, Sent
<1>4. k \in 0 .. Len(s)
  OBVIOUS
<1>5. CASE k < Len(s)
  <2> HIDE DEF s, t
  <2>1. /\ Head(todo) = s[k + 1] /\ Tail(todo) = From(s, k + 1) \o t
        /\ SubSeq(s, 1, k + 1) = Append(SubSeq(s, 1, k), s[k + 1])
    <3>1. Head(todo) = s[k + 1] /\ Tail(todo) = From(s, k + 1) \o t
      BY <1>2, <1>3, <1>4, <1>5, GoesOn
    <3>2. SubSeq(s, 1, k + 1) = Append(SubSeq(s, 1, k), s[k + 1])
      BY <1>2, <1>4, <1>5, TakenGrows
    <3> QED BY <3>1, <3>2
  <2>2. s[k + 1] \in Char
    <3>1. k + 1 \in 1 .. Len(s)  BY <1>1, <1>4, <1>5
    <3> QED BY <1>1, <3>1, ElementOfSeq
  <2>3. /\ todo' = Tail(todo) /\ out' = out /\ gNewLineEnabled' = gNewLineEnabled
        /\ call' = call /\ gPort' = gPort /\ port' = IF gPort THEN Append(port, s[k + 1]) ELSE port
    BY <1>3, <2>1, <2>2, OnSerial
  <2>4. k + 1 \in 0 .. Len(s)  BY <1>1, <1>4, <1>5
  <2>5. port' = IF gPort' THEN SubSeq(s, 1, k + 1) ELSE << >>
    BY <1>3, <2>1, <2>3
  <2>6. todo' = From(s, k + 1) \o t  BY <2>1, <2>3
  <2>7. Sent(k + 1)'  BY <2>3, <2>5 DEF Sent, s
  <2>8. todo' = From(Serial(call'), k + 1) \o Then(call')  BY <2>3, <2>6 DEF s, t
  <2>9. gNewLineEnabled' /\ out' = IF gPort' THEN "serial" ELSE "console"  BY <1>3, <2>3
  <2>10. AtSerial(k + 1)'  BY <2>7, <2>8, <2>9 DEF AtSerial
  <2> QED BY <2>4, <2>10 DEF s
<1>6. CASE k = Len(s)
  <2>1. todo = t /\ port = IF gPort THEN s ELSE << >>
    <3> HIDE DEF s, t
    <3>1. From(s, k) \o t = t /\ SubSeq(s, 1, k) = s  BY <1>2, <1>4, <1>6, GoesOn, TakenGrows
    <3> QED BY <1>3, <3>1
  <2>2. CASE call.type \in Blinking
    <3> DEFINE r == <<"NewLineOff">> \o ToConsole(call)
    <3>1. r \in Seq(Item) /\ t = <<"InitOnlyCons">> \o r  BY <1>1, <2>2, ThenIs
    <3> HIDE DEF r
    <3>2. "InitOnlyCons" \in Item  BY DEF Item, Switches
    <3>3. Head(todo) = "InitOnlyCons" /\ Tail(todo) = r  BY <2>1, <3>1, <3>2, FirstOf
    <3>4. todo' = r /\ port' = port /\ call' = call /\ gPort' = gPort
      BY <3>3 DEF Takes, Switches
    <3>5. AtHold'  BY <2>1, <2>2, <3>4 DEF AtHold, SentAll, BlinkingCall, r
    <3> QED BY <3>5
  <2>3. CASE call.type \notin Blinking
    <3> DEFINE r == LineAndEnd(call)
    <3>1. r \in Seq(Item) /\ t = <<"InitOnlyCons">> \o r
      BY <1>1, <2>3, ThenIs, Parts DEF ToConsole
    <3> HIDE DEF r
    <3>2. "InitOnlyCons" \in Item  BY DEF Item, Switches
    <3>3. Head(todo) = "InitOnlyCons" /\ Tail(todo) = r  BY <2>1, <3>1, <3>2, FirstOf
    <3>4. /\ todo' = r /\ port' = port /\ call' = call /\ gPort' = gPort /\ out' = "console"
          /\ gNewLineEnabled' = gNewLineEnabled /\ text' = text
      BY <3>3 DEF Takes, Switches
    <3>5. AtLine(0)'  BY <1>1, <1>3, <2>1, <2>3, <3>4, LineBegins DEF r
    <3> QED BY <3>5
  <2> QED BY <2>2, <2>3
<1> QED
  BY <1>1, <1>4, <1>5, <1>6
LEMMA AfterHold ==
    ASSUME Running, Takes, AtHold
    PROVE  AtSwitch'
<1> DEFINE r == ToConsole(call)
<1>1. r \in Seq(Item) /\ "NewLineOff" \in Item
  <2>1. r \in Seq(Item)  BY Parts DEF Running
  <2> QED BY <2>1 DEF Item, Switches
<1>2. todo = <<"NewLineOff">> \o r /\ call.type \in Blinking
      /\ port = IF gPort THEN Serial(call) ELSE << >>
  BY DEF AtHold, SentAll, BlinkingCall
<1> HIDE DEF r
<1>3. Head(todo) = "NewLineOff" /\ Tail(todo) = r
  BY <1>1, <1>2, FirstOf
<1>4. todo' = r /\ port' = port /\ call' = call /\ gPort' = gPort /\ gNewLineEnabled' = FALSE
  BY <1>3 DEF Takes, Switches
<1> QED
  BY <1>2, <1>4 DEF AtSwitch, SentAll, BlinkingCall, r

\* From the line break that is held back to the line.
LEMMA AfterSwitch ==
    ASSUME Running, Takes, AtSwitch
    PROVE  AtLine(0)'
<1> DEFINE r == LineAndEnd(call)
<1>1. r \in Seq(Item) /\ "InitOnlyCons" \in Item /\ call \in Messages /\ text \in Seq(Ink)
  <2>1. r \in Seq(Item)  BY Parts DEF Running
  <2> QED BY <2>1, RunningParts DEF Item, Switches, Running
<1>2. todo = <<"InitOnlyCons">> \o r /\ call.type \in Blinking /\ gNewLineEnabled = FALSE
      /\ port = IF gPort THEN Serial(call) ELSE << >>
  <2>1. gNewLineEnabled \in BOOLEAN  BY DEF Running, TypeOK
  <2>2. gNewLineEnabled = FALSE  BY <2>1 DEF AtSwitch
  <2> QED BY <2>2 DEF AtSwitch, SentAll, BlinkingCall, ToConsole
<1> HIDE DEF r
<1>3. Head(todo) = "InitOnlyCons" /\ Tail(todo) = r
  BY <1>1, <1>2, FirstOf
<1>4. /\ todo' = r /\ port' = port /\ call' = call /\ gPort' = gPort /\ out' = "console"
      /\ gNewLineEnabled' = FALSE /\ text' = text
  BY <1>2, <1>3 DEF Takes, Switches
<1> QED
  BY <1>1, <1>2, <1>4, LineBegins DEF r

\* From one character of the line to the next, and then to the dots or to the line break.
LEMMA AfterLine ==
    ASSUME Running, Takes, NEW k \in 0 .. Len(Body(call)), AtLine(k)
    PROVE  \/ k + 1 \in 0 .. Len(Body(call)) /\ AtLine(k + 1)'
           \/ AtDots(0)' \/ AtBreak'
<1> DEFINE s == Body(call)
           e == Ending(call)
           z == <<"NewLineIfEnabled">>
           t == z \o e
<1>1. /\ call \in Messages /\ text \in Seq(Ink) /\ Len(text) <= Page
      /\ s \in Seq(Char) /\ Len(s) \in Nat
  BY RunningParts DEF Running
<1>2. s \in Seq(Item) /\ t \in Seq(Item) /\ e \in Seq(Item)
  BY <1>1, Parts
<1>3. /\ todo = From(s, k) \o t /\ out = "console" /\ Readable(k) /\ SentAll
      /\ gNewLineEnabled = (call.type \notin Blinking)
  <2>1. gNewLineEnabled \in BOOLEAN  BY DEF Running, TypeOK
  <2>2. gNewLineEnabled = (call.type \notin Blinking)  BY <2>1 DEF AtLine, BlinkingCall
  <2> QED BY <2>2 DEF AtLine
<1>4. k \in 0 .. Len(s) /\ k \in Nat
  OBVIOUS
<1>5. CASE k < Len(s)
  <2> HIDE DEF s, t
  <2>1. Head(todo) = s[k + 1] /\ Tail(todo) = From(s, k + 1) \o t
    <3>1. Head(Left(s, k, t)) = s[k + 1] /\ Tail(Left(s, k, t)) = Left(s, k + 1, t)
      BY <1>2, <1>4, <1>5, LeftIs
    <3> QED BY <1>3, <3>1 DEF Left
  <2>2. s[k + 1] \in Char /\ k + 1 \in 1 .. Len(s)
    <3>1. k + 1 \in 1 .. Len(s)  BY <1>1, <1>4, <1>5
    <3> QED BY <1>1, <3>1, ElementOfSeq
  <2>3. /\ todo' = Tail(todo) /\ out' = out /\ gNewLineEnabled' = gNewLineEnabled
        /\ port' = port /\ call' = call /\ gPort' = gPort
        /\ text' = IF s[k + 1] \in Ink THEN Extended(text, s[k + 1], Page) ELSE text
    BY <1>3, <2>1, <2>2, OnConsole
  <2>4. k < Len(Line(call)) /\ s[k + 1] = Line(call)[k + 1]
    <3>1. Len(s) <= Len(Line(call)) /\ Len(Line(call)) \in Nat  BY <1>1, LineIs DEF s
    <3>2. s[k + 1] = Line(call)[k + 1]  BY <1>1, <2>2, LineIs DEF s
    <3> QED BY <1>1, <1>4, <1>5, <3>1, <3>2
  <2>5. Readable(k + 1)'
    <3> DEFINE c == s[k + 1]
    <3>1. c = Line(call)[k + 1] /\ text' = IF c \in Ink THEN Extended(text, c, Page) ELSE text
      BY <2>3, <2>4
    <3> HIDE DEF c
    <3> QED BY <1>1, <1>3, <1>4, <2>3, <2>4, <3>1, ReadableGrows
  <2>6. todo' = From(s, k + 1) \o t  BY <2>1, <2>3
  <2>7. todo' = From(Body(call'), k + 1) \o (<<"NewLineIfEnabled">> \o Ending(call'))
    BY <2>3, <2>6 DEF s, t, z, e
  <2>8. SentAll'  BY <1>3, <2>3 DEF SentAll
  <2>9. gNewLineEnabled' <=> ~ BlinkingCall'  BY <1>3, <2>3 DEF BlinkingCall
  <2>10. AtLine(k + 1)'  BY <1>3, <2>3, <2>5, <2>7, <2>8, <2>9 DEF AtLine
  <2>11. k + 1 \in 0 .. Len(s)  BY <2>2
  <2> QED BY <2>10, <2>11 DEF s
<1>6. CASE k = Len(s)
  <2>1. todo = t
    <3> HIDE DEF s, t
    <3>1. From(s, k) \o t = t  BY <1>2, <1>4, <1>6, GoesOn
    <3> QED BY <1>3, <3>1
  <2>2. Head(todo) = "NewLineIfEnabled" /\ Tail(todo) = e
    <3> HIDE DEF e
    <3>1. "NewLineIfEnabled" \in Item  BY DEF Item, Switches
    <3> QED BY <1>2, <2>1, <3>1, FirstOf
  <2> HIDE DEF s, t, e
  <2>3. /\ todo' = (IF gNewLineEnabled THEN <<Break>> ELSE << >>) \o e
        /\ port' = port /\ call' = call /\ gPort' = gPort /\ out' = out /\ text' = text
        /\ gNewLineEnabled' = gNewLineEnabled
    BY <2>2 DEF Takes, Switches
  <2>4. SentAll'  BY <1>3, <2>3 DEF SentAll
  <2>5. CASE call.type \in Blinking
    <3>1. e = Dots \o SetNewLine(TRUE)  BY <1>1, <2>5, ThenIs DEF e
    <3>2. todo' = e
      <4>1. << >> \o e = e  BY <1>2, ConcatEmptySeq
      <4> QED BY <1>3, <2>3, <2>5, <4>1
    <3>3. From(Dots, 0) = Dots
      <4>1. Dots \in Seq(Char) /\ 0 \in 0 .. Len(Dots)  BY RunningParts
      <4> QED BY <4>1, FromIs
    <3>4. todo' = From(Dots, 0) \o SetNewLine(TRUE)  BY <3>1, <3>2, <3>3
    <3>5. Readable(Len(Body(call)) + 0)
      <4>1. Len(Body(call)) + 0 = k  BY <1>1, <1>6 DEF s
      <4> QED BY <1>3, <4>1
    <3>6. Readable(Len(Body(call)) + 0)'
      <4>1. Body(call') = Body(call)  BY <2>3
      <4>2. Line(call') = Line(call)  BY <2>3
      <4> QED BY <2>3, <3>5, <4>1, <4>2 DEF Readable
    <3>7. AtDots(0)'  BY <1>3, <2>3, <2>4, <2>5, <3>4, <3>6 DEF AtDots, BlinkingCall
    <3> QED BY <3>7
  <2>6. CASE call.type \notin Blinking
    <3>1. e = << >>  BY <1>1, <2>6, ThenIs DEF e
    <3>2. todo' = <<Break>>
      <4> DEFINE l == <<Break>>
      <4>1. l \in Seq(Item)
        <5>1. Break \in Item  BY ConstantsAreSane DEF Item
        <5> QED BY <5>1
      <4> HIDE DEF l
      <4>2. l \o << >> = l  BY <4>1, ConcatEmptySeq
      <4>3. todo' = l \o e  BY <1>3, <2>3, <2>6 DEF l
      <4> QED BY <3>1, <4>2, <4>3 DEF l
    <3>3. Line(call) = s  BY <1>1, <2>6, LineIs DEF s
    <3>4. Readable(Len(Line(call)))  BY <1>3, <1>6, <3>3
    <3>5. Readable(Len(Line(call)))'
      <4>1. Line(call') = Line(call)  BY <2>3
      <4> QED BY <2>3, <3>4, <4>1 DEF Readable
    <3>6. gNewLineEnabled'  BY <1>3, <2>3, <2>6
    <3>7. AtBreak'  BY <1>3, <2>3, <2>4, <3>2, <3>5, <3>6 DEF AtBreak
    <3> QED BY <3>7
  <2> QED BY <2>5, <2>6
<1> QED
  BY <1>1, <1>4, <1>5, <1>6
LEMMA AfterDots ==
    ASSUME Running, Takes, NEW k \in 0 .. Len(Dots), AtDots(k)
    PROVE  \/ k + 1 \in 0 .. Len(Dots) /\ AtDots(k + 1)'
           \/ AtRelease'
<1> DEFINE s == Dots
           t == SetNewLine(TRUE)
           n == Len(Body(call))
<1>1. /\ call \in Messages /\ text \in Seq(Ink) /\ Len(text) <= Page
      /\ s \in Seq(Char) /\ Len(s) \in Nat /\ n \in Nat
  BY RunningParts DEF Running
<1>2. s \in Seq(Item) /\ t \in Seq(Item)
  BY <1>1, Parts
<1>3. /\ todo = From(s, k) \o t /\ out = "console" /\ Readable(n + k) /\ SentAll
      /\ call.type \in Blinking
  BY DEF AtDots, BlinkingCall
<1>4. k \in 0 .. Len(s) /\ k \in Nat
  OBVIOUS
<1>5. /\ Len(Line(call)) = n + Len(s)
      /\ \A i \in 1 .. Len(s) : Line(call)[n + i] = s[i]
  BY <1>1, <1>3, LineIs
<1> HIDE DEF s, t, n
<1>6. CASE k < Len(s)
  <2>1. Head(todo) = s[k + 1] /\ Tail(todo) = From(s, k + 1) \o t
    <3>1. Head(Left(s, k, t)) = s[k + 1] /\ Tail(Left(s, k, t)) = Left(s, k + 1, t)
      BY <1>2, <1>4, <1>6, LeftIs
    <3> QED BY <1>3, <3>1 DEF Left
  <2>2. s[k + 1] \in Char /\ k + 1 \in 1 .. Len(s)
    <3>1. k + 1 \in 1 .. Len(s)  BY <1>1, <1>4, <1>6
    <3> QED BY <1>1, <3>1, ElementOfSeq
  <2>3. /\ todo' = Tail(todo) /\ out' = out /\ port' = port /\ call' = call /\ gPort' = gPort
        /\ text' = IF s[k + 1] \in Ink THEN Extended(text, s[k + 1], Page) ELSE text
    BY <1>3, <2>1, <2>2, OnConsole
  <2>4. n + k < Len(Line(call)) /\ n + k \in Nat /\ s[k + 1] = Line(call)[n + k + 1]
    <3>1. s[k + 1] = Line(call)[n + (k + 1)]  BY <1>5, <2>2
    <3>2. n + (k + 1) = n + k + 1 /\ n + k < n + Len(s) /\ n + k \in Nat  BY <1>1, <1>4, <1>6
    <3> QED BY <1>5, <3>1, <3>2
  <2>5. PICK j \in Nat : j = n + k
    BY <2>4
  <2>6. Readable(j + 1)'
    <3> DEFINE c == s[k + 1]
    <3>1. c = Line(call)[j + 1] /\ text' = IF c \in Ink THEN Extended(text, c, Page) ELSE text
      BY <2>3, <2>4, <2>5
    <3>2. j < Len(Line(call)) /\ Readable(j)  BY <1>3, <2>4, <2>5
    <3> HIDE DEF c
    <3> QED BY <1>1, <2>3, <3>1, <3>2, ReadableGrows
  <2>7. Readable(Len(Body(call)) + (k + 1))'
    <3>1. Body(call') = Body(call)  BY <2>3
    <3>2. n + (k + 1) = j + 1  BY <1>1, <1>4, <2>5
    <3>3. Len(Body(call')) + (k + 1) = j + 1  BY <3>1, <3>2 DEF n
    <3> QED BY <2>6, <3>3 DEF Readable
  <2>8. todo' = From(Dots, k + 1) \o SetNewLine(TRUE)  BY <2>1, <2>3 DEF s, t
  <2>9. SentAll'  BY <1>3, <2>3 DEF SentAll
  <2>10. BlinkingCall'  BY <1>3, <2>3 DEF BlinkingCall
  <2>11. AtDots(k + 1)'  BY <1>3, <2>3, <2>7, <2>8, <2>9, <2>10 DEF AtDots
  <2>12. k + 1 \in 0 .. Len(s)  BY <2>2
  <2> QED BY <2>11, <2>12 DEF s
<1>7. CASE k = Len(s)
  <2> DEFINE r == <<"NewLineOn", Break>>
  <2>1. todo = t
    <3>1. Left(s, k, t) = t  BY <1>2, <1>4, <1>7, LeftIs
    <3> QED BY <1>3, <3>1 DEF Left
  <2>2. Head(todo) = "InitOnlyCons" /\ Tail(todo) = r
    BY <2>1 DEF t, SetNewLine
  <2> HIDE DEF r
  <2>3. /\ todo' = r /\ port' = port /\ call' = call /\ gPort' = gPort /\ out' = "console"
        /\ text' = text
    BY <2>2 DEF Takes, Switches
  <2>4. Readable(Len(Line(call)))
    <3>1. n + k = Len(Line(call))  BY <1>5, <1>7
    <3> QED BY <1>3, <3>1
  <2>5. Readable(Len(Line(call)))'
    <3>1. Line(call') = Line(call)  BY <2>3
    <3> QED BY <2>3, <2>4, <3>1 DEF Readable
  <2>6. SentAll' /\ BlinkingCall'  BY <1>3, <2>3 DEF SentAll, BlinkingCall
  <2> QED BY <2>3, <2>5, <2>6 DEF AtRelease, r
<1> QED
  BY <1>1, <1>4, <1>6, <1>7

\* From the release of the line break to the line break.
LEMMA AfterRelease ==
    ASSUME Running, Takes, AtRelease
    PROVE  AtBreak'
<1> DEFINE r == <<Break>>
<1>1. Head(todo) = "NewLineOn" /\ Tail(todo) = r
  BY DEF AtRelease
<1> HIDE DEF r
<1>2. /\ todo' = r /\ port' = port /\ call' = call /\ gPort' = gPort /\ out' = out
      /\ gNewLineEnabled' = TRUE /\ text' = text
  BY <1>1 DEF Takes, Switches
<1>3. Readable(Len(Line(call)))'
  <2>1. Line(call') = Line(call)  BY <1>2
  <2>2. Readable(Len(Line(call)))  BY DEF AtRelease
  <2> QED BY <1>2, <2>1, <2>2 DEF Readable
<1>4. SentAll'
  BY <1>2 DEF AtRelease, SentAll
<1>5. out' = "console"
  BY <1>2 DEF AtRelease
<1> QED
  BY <1>2, <1>3, <1>4, <1>5 DEF AtBreak, r

\* The line break ends the call, at the beginning of a line.
LEMMA AfterBreak ==
    ASSUME Running, Takes, AtBreak
    PROVE  Idle'
<1>1. todo = <<Break>> /\ out = "console" /\ gNewLineEnabled /\ Break \in Char /\ Break \notin Ink
  BY ConstantsAreSane DEF AtBreak, Ink
<1>2. Head(todo) = Break /\ Tail(todo) = << >>
  BY <1>1
<1>3. /\ todo' = << >> /\ port' = port /\ call' = call /\ gPort' = gPort /\ text' = text
      /\ gNewLineEnabled' = gNewLineEnabled /\ s_col' = 0
  <2>1. /\ todo' = Tail(todo) /\ port' = port /\ call' = call /\ gPort' = gPort
        /\ gNewLineEnabled' = gNewLineEnabled /\ s_col' = 0
        /\ text' = IF Break \in Ink THEN Extended(text, Break, Page) ELSE text
    BY <1>1, <1>2, OnConsole
  <2> QED BY <1>1, <1>2, <2>1
<1>4. Readable(Len(Line(call)))'
  <2>1. Line(call') = Line(call)  BY <1>3
  <2>2. Readable(Len(Line(call)))  BY DEF AtBreak
  <2> QED BY <1>3, <2>1, <2>2 DEF Readable
<1>5. SentAll'
  BY <1>3 DEF AtBreak, SentAll
<1> QED
  BY <1>1, <1>3, <1>4, <1>5 DEF Idle
\* At every place but the last something is left to do.
LEMMA SomethingLeft ==
    ASSUME NEW m \in Messages
    PROVE  /\ <<"Init">> \o (Serial(m) \o Then(m)) # << >>
           /\ <<"NewLineOff">> \o ToConsole(m) # << >> /\ ToConsole(m) # << >>
           /\ \A k \in 0 .. Len(Serial(m)) : From(Serial(m), k) \o Then(m) # << >>
           /\ \A k \in 0 .. Len(Body(m)) :
                 From(Body(m), k) \o (<<"NewLineIfEnabled">> \o Ending(m)) # << >>
           /\ \A k \in 0 .. Len(Dots) : From(Dots, k) \o SetNewLine(TRUE) # << >>
<1>1. /\ Serial(m) \in Seq(Item) /\ Body(m) \in Seq(Item) /\ Dots \in Seq(Item)
      /\ Then(m) \in Seq(Item) /\ ToConsole(m) \in Seq(Item) /\ LineAndEnd(m) \in Seq(Item)
      /\ Ending(m) \in Seq(Item) /\ SetNewLine(TRUE) \in Seq(Item)
      /\ <<"NewLineIfEnabled">> \o Ending(m) \in Seq(Item)
      /\ <<"NewLineOff">> \o ToConsole(m) \in Seq(Item)
  BY Parts, ThenIs
<1>2. /\ "Init" \in Item /\ "NewLineOff" \in Item
      /\ "InitOnlyCons" \in Item /\ "NewLineIfEnabled" \in Item
  BY DEF Item, Switches
<1>3. <<"Init">> \o (Serial(m) \o Then(m)) # << >>
  <2> DEFINE r == Serial(m) \o Then(m)
  <2>1. r \in Seq(Item)  BY <1>1, ConcatProperties
  <2> HIDE DEF r
  <2>2. <<"Init">> \o r # << >>  BY <1>2, <2>1, FirstOf
  <2> QED BY <2>2 DEF r
<1>4. ToConsole(m) # << >>
  <2> DEFINE r == LineAndEnd(m)
  <2>1. r \in Seq(Item)  BY <1>1
  <2> HIDE DEF r
  <2>2. <<"InitOnlyCons">> \o r # << >>  BY <1>2, <2>1, FirstOf
  <2> QED BY <2>2 DEF r, ToConsole
<1>5. <<"NewLineOff">> \o ToConsole(m) # << >>
  <2> DEFINE r == ToConsole(m)
  <2>1. r \in Seq(Item)  BY <1>1
  <2> HIDE DEF r
  <2>2. <<"NewLineOff">> \o r # << >>  BY <1>2, <2>1, FirstOf
  <2> QED BY <2>2 DEF r
<1>6. Then(m) # << >>
  <2>1. CASE m.type \in Blinking
    <3> DEFINE r == <<"NewLineOff">> \o ToConsole(m)
    <3>1. r \in Seq(Item) /\ Then(m) = <<"InitOnlyCons">> \o r  BY <1>1, <2>1, ThenIs
    <3> HIDE DEF r
    <3>2. <<"InitOnlyCons">> \o r # << >>  BY <1>2, <3>1, FirstOf
    <3> QED BY <3>1, <3>2
  <2>2. CASE m.type \notin Blinking
    <3>1. Then(m) = ToConsole(m)  BY <2>2, ThenIs
    <3> QED BY <1>4, <3>1
  <2> QED BY <2>1, <2>2
<1>7. <<"NewLineIfEnabled">> \o Ending(m) # << >>
  <2> DEFINE r == Ending(m)
  <2>1. r \in Seq(Item)  BY <1>1
  <2> HIDE DEF r
  <2>2. <<"NewLineIfEnabled">> \o r # << >>  BY <1>2, <2>1, FirstOf
  <2> QED BY <2>2 DEF r
<1>8. SetNewLine(TRUE) # << >>
  BY DEF SetNewLine
<1>9. ASSUME NEW s \in Seq(Item), NEW r \in Seq(Item), r # << >>, NEW k \in 0 .. Len(s)
      PROVE  From(s, k) \o r # << >>
  <2> DEFINE u == From(s, k)
  <2>1. u \in Seq(Item)  BY FromIs
  <2> HIDE DEF u
  <2> QED BY <1>9, <2>1, NotEmpty DEF u
<1>10. \A k \in 0 .. Len(Serial(m)) : From(Serial(m), k) \o Then(m) # << >>
  <2> DEFINE r == Then(m)
  <2>1. r \in Seq(Item) /\ r # << >>  BY <1>1, <1>6
  <2> HIDE DEF r
  <2> QED BY <1>1, <1>9, <2>1 DEF r
<1>11. \A k \in 0 .. Len(Body(m)) :
          From(Body(m), k) \o (<<"NewLineIfEnabled">> \o Ending(m)) # << >>
  <2> DEFINE r == <<"NewLineIfEnabled">> \o Ending(m)
  <2>1. r \in Seq(Item) /\ r # << >>  BY <1>1, <1>7
  <2> HIDE DEF r
  <2>2. \A k \in 0 .. Len(Body(m)) : From(Body(m), k) \o r # << >>  BY <1>1, <1>9, <2>1
  <2> QED BY <2>2 DEF r
<1>12. \A k \in 0 .. Len(Dots) : From(Dots, k) \o SetNewLine(TRUE) # << >>
  <2> DEFINE r == SetNewLine(TRUE)
  <2>1. r \in Seq(Item) /\ r # << >>  BY <1>1, <1>8
  <2> HIDE DEF r
  <2> QED BY <1>1, <1>9, <2>1 DEF r
<1> QED
  BY <1>3, <1>4, <1>5, <1>10, <1>11, <1>12
LEMMA LogStarts == Init => LogInv
<1> SUFFICES ASSUME Init PROVE LogInv
  OBVIOUS
<1> QED
  BY DEF Init, LogInv, Idle

\* Every step leads from a place of a call to a place of a call.
LEMMA LogStep ==
    ASSUME TypeOK, ScreenInv, LogInv, [Next]_vars
    PROVE  LogInv'
<1>1. ASSUME pc' = "log", call' \in Messages, Busy'
      PROVE  LogInv'
  <2>1. todo' # << >>
    <3> DEFINE m == call'
    <3>1. m \in Messages  BY <1>1
    <3>2. CASE AtInit'
      <4>1. todo' = <<"Init">> \o (Serial(m) \o Then(m))  BY <3>2 DEF AtInit
      <4> HIDE DEF m
      <4> QED BY <3>1, <4>1, SomethingLeft
    <3>3. CASE AtHold'
      <4>1. todo' = <<"NewLineOff">> \o ToConsole(m)  BY <3>3 DEF AtHold
      <4> HIDE DEF m
      <4> QED BY <3>1, <4>1, SomethingLeft
    <3>4. CASE AtSwitch'
      <4>1. todo' = ToConsole(m)  BY <3>4 DEF AtSwitch
      <4> HIDE DEF m
      <4> QED BY <3>1, <4>1, SomethingLeft
    <3>5. CASE AtRelease' \/ AtBreak'
      <4>1. todo' = <<"NewLineOn", Break>> \/ todo' = <<Break>>  BY <3>5 DEF AtRelease, AtBreak
      <4> QED BY <4>1
    <3>6. CASE \E k \in 0 .. Len(Serial(m)) : AtSerial(k)'
      <4>1. PICK k \in 0 .. Len(Serial(m)) : todo' = From(Serial(m), k) \o Then(m)
        BY <3>6 DEF AtSerial
      <4> HIDE DEF m
      <4> QED BY <3>1, <4>1, SomethingLeft
    <3>7. CASE \E k \in 0 .. Len(Body(m)) : AtLine(k)'
      <4>1. PICK k \in 0 .. Len(Body(m)) :
              todo' = From(Body(m), k) \o (<<"NewLineIfEnabled">> \o Ending(m))
        BY <3>7 DEF AtLine
      <4> HIDE DEF m
      <4> QED BY <3>1, <4>1, SomethingLeft
    <3>8. CASE \E k \in 0 .. Len(Dots) : AtDots(k)'
      <4>1. PICK k \in 0 .. Len(Dots) : todo' = From(Dots, k) \o SetNewLine(TRUE)
        BY <3>8 DEF AtDots
      <4> HIDE DEF m
      <4> QED BY <3>1, <4>1, SomethingLeft
    <3> QED BY <1>1, <3>2, <3>3, <3>4, <3>5, <3>6, <3>7, <3>8 DEF Busy
  <2> QED BY <1>1, <2>1 DEF LogInv
<1>2. ASSUME Next, todo # << >> PROVE LogInv'
  <2>1. Running /\ Takes /\ Busy
    <3>1. Takes  BY <1>2, CallGoesOn
    <3> QED BY <1>2, <3>1 DEF Running, LogInv
  <2>2. pc' = "log" /\ call' = call /\ call' \in Messages
    BY <2>1 DEF Running, Takes
  <2>3. Serial(call') = Serial(call) /\ Body(call') = Body(call)
    BY <2>2
  <2>4. /\ Len(Serial(call)) \in Nat /\ Len(Body(call)) \in Nat /\ Len(Dots) \in Nat
    BY <2>1, RunningParts
  <2>5. ASSUME NEW k \in 0 .. Len(Serial(call)), AtSerial(k)' PROVE Busy'
    BY <2>3, <2>5 DEF Busy
  <2>6. ASSUME NEW k \in 0 .. Len(Body(call)), AtLine(k)' PROVE Busy'
    BY <2>3, <2>6 DEF Busy
  <2>7. ASSUME NEW k \in 0 .. Len(Dots), AtDots(k)' PROVE Busy'
    BY <2>7 DEF Busy
  <2>8. CASE AtInit
    <3>1. AtSerial(0)'  BY <2>1, <2>8, AfterInit
    <3>2. 0 \in 0 .. Len(Serial(call))  BY <2>4
    <3> QED BY <1>1, <2>2, <2>5, <3>1, <3>2
  <2>9. CASE \E k \in 0 .. Len(Serial(call)) : AtSerial(k)
    <3>1. PICK k \in 0 .. Len(Serial(call)) : AtSerial(k)  BY <2>9
    <3>2. \/ k + 1 \in 0 .. Len(Serial(call)) /\ AtSerial(k + 1)'
          \/ AtHold' \/ AtLine(0)'
      BY <2>1, <3>1, AfterSerial
    <3>3. 0 \in 0 .. Len(Body(call))  BY <2>4
    <3>4. CASE k + 1 \in 0 .. Len(Serial(call)) /\ AtSerial(k + 1)'
      BY <1>1, <2>2, <2>5, <3>4
    <3>5. CASE AtHold'  BY <1>1, <2>2, <3>5 DEF Busy
    <3>6. CASE AtLine(0)'  BY <1>1, <2>2, <2>6, <3>3, <3>6
    <3> QED BY <3>2, <3>4, <3>5, <3>6
  <2>10. CASE AtHold
    <3>1. AtSwitch'  BY <2>1, <2>10, AfterHold
    <3> QED BY <1>1, <2>2, <3>1 DEF Busy
  <2>11. CASE AtSwitch
    <3>1. AtLine(0)'  BY <2>1, <2>11, AfterSwitch
    <3>2. 0 \in 0 .. Len(Body(call))  BY <2>4
    <3> QED BY <1>1, <2>2, <2>6, <3>1, <3>2
  <2>12. CASE \E k \in 0 .. Len(Body(call)) : AtLine(k)
    <3>1. PICK k \in 0 .. Len(Body(call)) : AtLine(k)  BY <2>12
    <3>2. \/ k + 1 \in 0 .. Len(Body(call)) /\ AtLine(k + 1)'
          \/ AtDots(0)' \/ AtBreak'
      BY <2>1, <3>1, AfterLine
    <3>3. 0 \in 0 .. Len(Dots)  BY <2>4
    <3>4. CASE k + 1 \in 0 .. Len(Body(call)) /\ AtLine(k + 1)'
      BY <1>1, <2>2, <2>6, <3>4
    <3>5. CASE AtDots(0)'  BY <1>1, <2>2, <2>7, <3>3, <3>5
    <3>6. CASE AtBreak'  BY <1>1, <2>2, <3>6 DEF Busy
    <3> QED BY <3>2, <3>4, <3>5, <3>6
  <2>13. CASE \E k \in 0 .. Len(Dots) : AtDots(k)
    <3>1. PICK k \in 0 .. Len(Dots) : AtDots(k)  BY <2>13
    <3>2. (k + 1 \in 0 .. Len(Dots) /\ AtDots(k + 1)') \/ AtRelease'
      BY <2>1, <3>1, AfterDots
    <3>3. CASE k + 1 \in 0 .. Len(Dots) /\ AtDots(k + 1)'
      BY <1>1, <2>2, <2>7, <3>3
    <3>4. CASE AtRelease'  BY <1>1, <2>2, <3>4 DEF Busy
    <3> QED BY <3>2, <3>3, <3>4
  <2>14. CASE AtRelease
    <3>1. AtBreak'  BY <2>1, <2>14, AfterRelease
    <3> QED BY <1>1, <2>2, <3>1 DEF Busy
  <2>15. CASE AtBreak
    <3>1. Idle'  BY <2>1, <2>15, AfterBreak
    <3>2. todo' = << >>  BY <3>1 DEF Idle
    <3> QED BY <3>1, <3>2 DEF LogInv
  <2> QED
    BY <2>1, <2>8, <2>9, <2>10, <2>11, <2>12, <2>13, <2>14, <2>15 DEF Busy
<1>3. ASSUME NEW m \in Messages, DbgDebugLog(m) PROVE LogInv'
  <2>1. Idle  BY <1>3 DEF DbgDebugLog, LogInv
  <2>2. todo' = <<"Init">> \o (Serial(m) \o Then(m))  BY <1>3, CallBegins
  <2>3. /\ call' = m /\ port' = << >> /\ pc' = "log"
        /\ gNewLineEnabled' = gNewLineEnabled /\ gNewLineEnabled
    BY <1>3, <2>1 DEF DbgDebugLog, Idle
  <2>4. AtInit'  BY <2>2, <2>3 DEF AtInit
  <2> QED BY <1>1, <2>3, <2>4 DEF Busy
<1>4. ASSUME UNCHANGED <<todo, s_col, gNewLineEnabled, port, text>>, todo = << >>,
             call' = NoCall \/ (call' = call /\ gPort' = gPort)
      PROVE  LogInv'
  <2>1. Idle  BY <1>4 DEF LogInv
  <2>2. todo' = << >> /\ s_col' = 0 /\ gNewLineEnabled'
    BY <1>4, <2>1 DEF Idle
  <2>3. ASSUME call' # NoCall PROVE SentAll' /\ Readable(Len(Line(call)))'
    <3>1. call' = call /\ gPort' = gPort /\ port' = port /\ text' = text /\ call # NoCall
      BY <1>4, <2>3
    <3>2. SentAll /\ Readable(Len(Line(call)))  BY <2>1, <3>1 DEF Idle
    <3>3. SentAll'  BY <3>1, <3>2 DEF SentAll
    <3>4. Line(call') = Line(call)  BY <3>1
    <3>5. Readable(Len(Line(call)))'  BY <3>1, <3>2, <3>4 DEF Readable
    <3> QED BY <3>3, <3>5
  <2>4. Idle'  BY <2>2, <2>3 DEF Idle
  <2> QED BY <2>2, <2>4 DEF LogInv
<1>5. CASE Next /\ todo = << >>
  <2>1. CASE VVgaTextInit
    BY <1>4, <1>5, <2>1 DEF VVgaTextInit
  <2>2. CASE ConsoleInit
    BY <1>4, <1>5, <2>2 DEF ConsoleInit
  <2>3. CASE SerialFound
    BY <1>4, <1>5, <2>3 DEF SerialFound, screenVars
  <2>4. CASE \E m \in Messages : DbgDebugLog(m)
    BY <1>3, <2>4
  <2> QED
    BY <1>5, <2>1, <2>2, <2>3, <2>4
       DEF Next, InitOutput, EnableNewLine, NewLineIfEnabled, PrintCharacter, Goes, Prints
<1>6. CASE vars' = vars
  <2>1. /\ pc' = pc /\ s_col' = s_col /\ gPort' = gPort /\ out' = out
        /\ gNewLineEnabled' = gNewLineEnabled /\ todo' = todo /\ call' = call
        /\ port' = port /\ text' = text
    BY <1>6 DEF vars
  <2>2. CASE todo = << >>  BY <1>4, <2>1, <2>2
  <2>3. CASE todo # << >>
    <3>1. pc' = "log" /\ call' \in Messages /\ Busy  BY <2>1, <2>3 DEF LogInv
    <3>2. Busy'
      BY <2>1, <3>1
         DEF Busy, AtInit, AtSerial, AtHold, AtSwitch, AtLine, AtDots, AtRelease, AtBreak,
             Sent, SentAll, Readable, BlinkingCall
    <3> QED BY <1>1, <3>1, <3>2
  <2> QED BY <2>2, <2>3
<1> QED
  BY <1>2, <1>5, <1>6
---------------------------------------------------------------------------
(* The screen, step by step *)

\* What the screen shows fits on a page.
LEMMA ShownType ==
    ASSUME NEW f, NEW r \in Nat, r >= 1
    PROVE  /\ InOrder(f, InkedIn(f, r)) \in Seq(Ink)
           /\ Len(InOrder(f, InkedIn(f, r))) \in Nat /\ Len(InOrder(f, InkedIn(f, r))) <= Page
<1> DEFINE S == InkedIn(f, r)
<1>1. /\ S \in SUBSET Nat /\ IsFiniteSet(S) /\ Cardinality(S) \in Nat /\ Cardinality(S) <= Page
      /\ \A i \in S : f[i] \in Ink
  BY InkedIsFinite
<1> HIDE DEF S
<1>2. InOrder(f, S) \in Seq(Ink) /\ Len(InOrder(f, S)) = Cardinality(S)
  BY <1>1, InOrderType
<1> QED
  BY <1>1, <1>2 DEF S

LEMMA NothingShown ==
    ASSUME NEW f, InkedIn(f, Top) = {}
    PROVE  InOrder(f, InkedIn(f, Top)) = << >>
<1>1. Cardinality({}) = 0
  BY FS_EmptySet
<1>2. InOrder(f, {}) = [k \in 1 .. 0 |-> f[Nth({}, k)]]
  BY <1>1 DEF InOrder
<1>3. InOrder(f, {}) = << >>
  BY <1>2
<1> QED
  BY <1>3

\* The lower rows show the end of what all rows show.
LEMMA LowerRows ==
    ASSUME NEW f
    PROVE  IsSuffix(InOrder(f, InkedIn(f, Top + 1)), InOrder(f, InkedIn(f, Top)))
<1> DEFINE S == InkedIn(f, Top)
           U == InkedIn(f, Top + 1)
           c == 2 * TEXT_COLS
<1>1. Top = 1 /\ Top + 1 = 2 /\ Bottom \in Nat /\ c \in Nat
  BY Sizes DEF Top
<1>2. S \in SUBSET Nat /\ IsFiniteSet(S) /\ \A i \in S : f[i] \in Ink
  BY <1>1, InkedIsFinite
<1>3. U = {i \in S : i >= c}
  <2>1. ASSUME NEW i \in Cells PROVE Row(i) \in 2 .. Bottom <=> Row(i) \in 1 .. Bottom /\ i >= c
    <3>1. i \in Nat  BY <2>1, Sizes DEF Cells
    <3>2. Row(i) \in Nat /\ (2 <= Row(i) <=> 2 * TEXT_COLS <= i)  BY <3>1, RowOfCell
    <3> QED BY <1>1, <3>1, <3>2
  <2> QED BY <1>1, <2>1 DEF InkedIn
<1> HIDE DEF S, U, c
<1>4. IsSuffix(InOrder(f, U), InOrder(f, S))
  BY <1>1, <1>2, <1>3, LaterOnesAreTheEnd
<1> QED
  BY <1>4 DEF S, U

LEMMA EmptySuffix ==
    ASSUME NEW t \in Seq(Ink)
    PROVE  IsSuffix(<< >>, t)
<1> DEFINE r == << >>
<1>1. r \in Seq(Ink) /\ Len(r) = 0 /\ Len(t) \in Nat
  BY LenProperties
<1> HIDE DEF r
<1>2. Len(r) <= Len(t) /\ \A i \in 1 .. Len(r) : r[i] = t[Len(t) - Len(r) + i]
  BY <1>1
<1>3. IsSuffix(r, t)
  BY <1>1, <1>2, SuffixMeans
<1> QED
  BY <1>3 DEF r

\* What a step may do to the text on the screen.
OnlyTheTopLine ==
    LET new == IF Prints /\ out = "console" /\ Head(todo) \in Ink THEN <<Head(todo)>> ELSE << >>
    IN  \/ ShownFrom(Top)' = ShownFrom(Top) \o new
        \/ s_row >= Bottom /\ ShownFrom(Top)' = ShownFrom(Top + 1) \o new

\* What the properties say is shown, with the cells it comes from.
LEMMA ShownIs ==
    /\ ShownFrom(Top) = InOrder(screen, InkedIn(screen, Top)) /\ Inked(Top) = InkedIn(screen, Top)
    /\ ShownFrom(Top + 1) = InOrder(screen, InkedIn(screen, Top + 1))
    /\ ShownFrom(Top)' = InOrder(screen', InkedIn(screen', Top))
    /\ Inked(Top)' = InkedIn(screen', Top)
    /\ ShownFrom(Top) \in Seq(Ink) /\ ShownFrom(Top + 1) \in Seq(Ink)
    /\ ShownFrom(Top)' \in Seq(Ink) /\ Len(ShownFrom(Top)') <= Page
    /\ IsSuffix(ShownFrom(Top + 1), ShownFrom(Top))
<1>1. /\ ShownFrom(Top) = InOrder(screen, InkedIn(screen, Top)) /\ Inked(Top) = InkedIn(screen, Top)
      /\ ShownFrom(Top + 1) = InOrder(screen, InkedIn(screen, Top + 1))
      /\ ShownFrom(Top)' = InOrder(screen', InkedIn(screen', Top))
      /\ Inked(Top)' = InkedIn(screen', Top)
  BY DEF ShownFrom, Inked, InkedIn
<1>2. Top \in Nat /\ Top >= 1 /\ Top + 1 \in Nat /\ Top + 1 >= 1
  BY DEF Top
<1>3. ShownFrom(Top) \in Seq(Ink) /\ ShownFrom(Top + 1) \in Seq(Ink)
  BY <1>1, <1>2, ShownType
<1>4. ShownFrom(Top)' \in Seq(Ink) /\ Len(ShownFrom(Top)') <= Page
  BY <1>1, <1>2, ShownType
<1>5. IsSuffix(ShownFrom(Top + 1), ShownFrom(Top))
  BY <1>1, LowerRows
<1> QED
  BY <1>1, <1>3, <1>4, <1>5

\* A step that leaves the screen alone.
LEMMA ScreenStays ==
    ASSUME TypeOK, ScreenInv, UNCHANGED <<screen, s_row, s_col, pc, text>>,
           pc # "log" => todo' = << >>, ~ (Prints /\ out = "console")
    PROVE  ScreenInv' /\ OnlyTheTopLine
<1>1. ShownFrom(Top)' = ShownFrom(Top) /\ Inked(Top)' = Inked(Top)
  BY ShownIs
<1>2. ShownFrom(Top) \o << >> = ShownFrom(Top)
  <2> DEFINE s == ShownFrom(Top)
  <2>1. s \in Seq(Ink)  BY ShownIs
  <2> HIDE DEF s
  <2>2. s \o << >> = s  BY <2>1, ConcatEmptySeq
  <2> QED BY <2>2 DEF s
<1>3. OnlyTheTopLine
  BY <1>1, <1>2 DEF OnlyTheTopLine
<1>4. IsSuffix(ShownFrom(Top), text)
  BY DEF ScreenInv, ScreenShowsTheText
<1>5. ScreenShowsTheText'
  BY <1>1, <1>4 DEF ScreenShowsTheText
<1>6. \A i \in Inked(Top)' : i < s_row' * TEXT_COLS + s_col'
  BY <1>1 DEF ScreenInv
<1> QED
  BY <1>3, <1>5, <1>6 DEF ScreenInv

\* Before the first log call nothing of the text is on the screen.
LEMMA EmptyScreen ==
    ASSUME TypeOK, ScreenInv, pc # "log"
    PROVE  InkedIn(screen, Top) = {} /\ s_row = 0 /\ s_col = 0 /\ todo = << >>
<1>1. s_row = 0 /\ s_col = 0 /\ todo = << >>
  BY DEF ScreenInv
<1>2. \A i \in InkedIn(screen, Top) : i < 0 * TEXT_COLS + 0
  BY <1>1, ShownIs DEF ScreenInv
<1>3. \A i \in InkedIn(screen, Top) : i \in Nat
  BY InkedIsFinite DEF Top
<1>4. TEXT_COLS \in Nat
  BY Sizes
<1> QED
  BY <1>1, <1>2, <1>3, <1>4

\* A step that leaves nothing of the text on an empty screen.
LEMMA EmptyStays ==
    ASSUME TypeOK, ScreenInv, pc # "log", InkedIn(screen', Top) = {}, text' = text, todo' = todo,
           IF pc' = "log" THEN s_row' >= 1 ELSE s_row' = 0 /\ s_col' = 0
    PROVE  ScreenInv' /\ OnlyTheTopLine
<1>1. InkedIn(screen, Top) = {} /\ todo = << >>
  BY EmptyScreen
<1>2. ShownFrom(Top) = << >> /\ ShownFrom(Top)' = << >> /\ Inked(Top)' = {}
  BY <1>1, ShownIs, NothingShown
<1>3. ScreenShowsTheText'
  <2>1. text \in Seq(Ink)  BY DEF TypeOK
  <2> QED BY <1>2, <2>1, EmptySuffix DEF ScreenShowsTheText
<1>4. ~ Prints
  BY <1>1 DEF Prints
<1>5. << >> \o << >> = << >>
  OBVIOUS
<1>6. OnlyTheTopLine
  BY <1>2, <1>4, <1>5 DEF OnlyTheTopLine
<1> QED
  BY <1>1, <1>2, <1>3, <1>6 DEF ScreenInv
LEMMA PutStep ==
    ASSUME TypeOK, ScreenInv, pc = "log", pc' = pc, NEW c \in Char, Prints, Head(todo) = c,
           out = "console", ConsolePutChar(c)
    PROVE  /\ ScreenInv' /\ OnlyTheTopLine
           /\ screen' \in [Cells -> Char \cup Leftover] /\ s_row' \in 0 .. TEXT_ROWS - 1
           /\ s_col' \in 0 .. TEXT_COLS - 1 /\ cursor' \in Cells
           /\ text' \in Seq(Ink) /\ Len(text') <= Page
<1>1. /\ screen' \in [Cells -> Char \cup Leftover]
      /\ s_row' \in 1 .. TEXT_ROWS - 1 /\ s_col' \in 0 .. TEXT_COLS - 1 /\ cursor' \in Cells
      /\ \A i \in InkedIn(screen', Top) : i < s_row' * TEXT_COLS + s_col'
      /\ \/ ShownFrom(Top)' = ShownFrom(Top) \o NewOnScreen(c)
         \/ s_row >= Bottom /\ ShownFrom(Top)' = ShownFrom(Top + 1) \o NewOnScreen(c)
  BY CharacterIsPut
<1>2. OnlyTheTopLine
  <2>1. NewOnScreen(c) =
          IF Prints /\ out = "console" /\ Head(todo) \in Ink THEN <<Head(todo)>> ELSE << >>
    BY DEF NewOnScreen
  <2> QED BY <1>1, <2>1 DEF OnlyTheTopLine
<1>3. text' = IF c \in Ink THEN Extended(text, c, Page) ELSE text
  BY DEF ConsolePutChar
<1>4. text \in Seq(Ink) /\ Len(text) <= Page /\ Page \in Nat \ {0}
  BY Sizes DEF TypeOK
<1>5. text' \in Seq(Ink) /\ Len(text') <= Page
  <2>1. CASE c \in Ink
    <3> DEFINE u == Extended(text, c, Page)
    <3>1. u \in Seq(Ink) /\ IsExtended(u, text, c, Page)  BY <1>4, <2>1, ExtendedIs
    <3> HIDE DEF u
    <3>2. Len(u) <= Page  BY <3>1 DEF IsExtended
    <3>3. text' = u  BY <1>3, <2>1 DEF u
    <3> QED BY <3>1, <3>2, <3>3
  <2>2. CASE c \notin Ink  BY <1>3, <1>4, <2>2
  <2> QED BY <2>1, <2>2
<1>6. PICK base : /\ base \in Seq(Ink) /\ IsSuffix(base, text)
                  /\ ShownFrom(Top)' = base \o NewOnScreen(c)
  <2>1. ShownFrom(Top) \in Seq(Ink) /\ IsSuffix(ShownFrom(Top), text)
    BY ShownIs DEF ScreenInv, ScreenShowsTheText
  <2>2. ShownFrom(Top + 1) \in Seq(Ink) /\ IsSuffix(ShownFrom(Top + 1), text)
    <3> DEFINE s == ShownFrom(Top + 1)
               t == ShownFrom(Top)
    <3>1. s \in Seq(Ink) /\ t \in Seq(Ink) /\ IsSuffix(s, t) /\ IsSuffix(t, text)
      BY <2>1, ShownIs
    <3> HIDE DEF s, t
    <3>2. IsSuffix(s, text)  BY <1>4, <3>1, SuffixTransitive
    <3> QED BY <3>1, <3>2 DEF s
  <2> QED BY <1>1, <2>1, <2>2
<1>7. IsSuffix(ShownFrom(Top)', text')
  <2> DEFINE r == ShownFrom(Top)'
  <2>1. r \in Seq(Ink) /\ Len(r) <= Page  BY ShownIs
  <2>2. r = base \o NewOnScreen(c)  BY <1>6
  <2> HIDE DEF r
  <2>3. CASE c \in Ink
    <3> DEFINE e == <<c>>
    <3>1. e \in Seq(Ink) /\ Len(e) = 1 /\ e[1] = c  BY <2>3
    <3>2. r = base \o e  BY <2>2, <2>3 DEF NewOnScreen
    <3> HIDE DEF e
    <3>3. /\ Len(base \o e) = Len(base) + Len(e)
          /\ \A i \in 1 .. Len(base) + Len(e) :
                (base \o e)[i] = IF i <= Len(base) THEN base[i] ELSE e[i - Len(base)]
      <4>1. base \in Seq(Ink) /\ e \in Seq(Ink)  BY <1>6, <3>1
      <4> QED BY <4>1, ConcatProperties
    <3>4. /\ Len(r) = Len(base) + 1
          /\ \A i \in 1 .. Len(base) + 1 :
                r[i] = IF i <= Len(base) THEN base[i] ELSE e[i - Len(base)]
      BY <3>1, <3>2, <3>3
    <3>5. Len(base) \in Nat  BY <1>6, LenProperties
    <3>6. r[Len(base) + 1] = c
      <4>1. Len(base) + 1 \in 1 .. Len(base) + 1 /\ ~ (Len(base) + 1 <= Len(base))
            /\ Len(base) + 1 - Len(base) = 1
        BY <3>5
      <4> QED BY <3>1, <3>4, <4>1
    <3>7. \A i \in 1 .. Len(base) : r[i] = base[i]  BY <3>4, <3>5
    <3>8. base \in Seq(Ink) /\ IsSuffix(base, text)  BY <1>6
    <3>9. Len(r) = Len(base) + 1  BY <3>4
    <3>10. IsSuffix(r, Extended(text, c, Page))
      BY <1>4, <2>1, <2>3, <3>6, <3>7, <3>8, <3>9, SuffixGrows
    <3> QED BY <1>3, <2>3, <3>10 DEF r
  <2>4. CASE c \notin Ink
    <3>1. base \o << >> = base  BY <1>6, ConcatEmptySeq
    <3>2. r = base  BY <2>2, <2>4, <3>1 DEF NewOnScreen
    <3> QED BY <1>3, <1>6, <2>4, <3>2 DEF r
  <2> QED BY <2>3, <2>4
<1>8. ScreenInv'
  <2>1. \A i \in Inked(Top)' : i < s_row' * TEXT_COLS + s_col'  BY <1>1, ShownIs
  <2>2. ScreenShowsTheText'  BY <1>7 DEF ScreenShowsTheText
  <2>3. pc' = "log" /\ s_row' >= 1  BY <1>1, Sizes
  <2> QED BY <2>1, <2>2, <2>3 DEF ScreenInv
<1>9. s_row' \in 0 .. TEXT_ROWS - 1
  BY <1>1, Sizes
<1> QED
  BY <1>1, <1>2, <1>5, <1>8, <1>9
\* No cell of the title's row is in the text.
LEMMA TitleRow ==
    ASSUME NEW i \in Cells, i < TEXT_COLS
    PROVE  Row(i) = 0
<1>1. i \in Nat /\ TEXT_COLS \in Nat
  BY Sizes DEF Cells
<1>2. Row(i) \in Nat /\ (Row(i) <= 0 <=> i < 0 * TEXT_COLS + TEXT_COLS)
  BY <1>1, RowOfCell
<1> QED
  BY <1>1, <1>2

LEMMA Starts == Init => TypeOK /\ ScreenInv
<1> SUFFICES ASSUME Init PROVE TypeOK /\ ScreenInv
  OBVIOUS
<1>1. PICK c \in Leftover : screen = [i \in Cells |-> c]
  BY DEF Init
<1>2. /\ pc = "clear" /\ s_row = 0 /\ s_col = 0 /\ cursor = 0 /\ gPort = FALSE /\ out = "console"
      /\ gNewLineEnabled = TRUE /\ todo = << >> /\ call = NoCall /\ port = << >> /\ text = << >>
  BY DEF Init
<1>3. 0 \in Cells /\ 0 \in 0 .. TEXT_ROWS - 1 /\ 0 \in 0 .. TEXT_COLS - 1
  <2>1. TEXT_ROWS \in Nat /\ TEXT_ROWS > 0 /\ TEXT_COLS \in Nat /\ TEXT_COLS > 0  BY Sizes
  <2>2. 1 * TEXT_COLS <= TEXT_ROWS * TEXT_COLS /\ TEXT_ROWS * TEXT_COLS \in Nat
    <3>1. 1 \in Nat /\ 1 <= TEXT_ROWS  BY <2>1
    <3> QED BY <2>1, <3>1, Products
  <2> QED BY <2>1, <2>2 DEF Cells
<1>4. << >> \in Seq(Ink) /\ << >> \in Seq(Char) /\ << >> \in Seq(Char \cup Switches)
      /\ Len(<< >>) = 0 /\ 0 <= Page
  BY Sizes
<1>5. TypeOK
  <2>1. screen \in [Cells -> Char \cup Leftover]  BY <1>1
  <2>2. s_row \in 0 .. TEXT_ROWS - 1 /\ s_col \in 0 .. TEXT_COLS - 1 /\ cursor \in Cells
    BY <1>2, <1>3
  <2>3. /\ text \in Seq(Ink) /\ Len(text) <= Page /\ port \in Seq(Char)
        /\ todo \in Seq(Char \cup Switches)
    BY <1>2, <1>4
  <2> QED BY <1>2, <2>1, <2>2, <2>3 DEF TypeOK
<1>6. InkedIn(screen, Top) = {}
  BY <1>1, ConstantsAreSane DEF InkedIn
<1>7. ShownFrom(Top) = << >> /\ Inked(Top) = {}
  BY <1>6, ShownIs, NothingShown
<1>8. ScreenShowsTheText
  BY <1>2, <1>4, <1>7, EmptySuffix DEF ScreenShowsTheText
<1> QED
  BY <1>2, <1>5, <1>7, <1>8 DEF ScreenInv

\* Every step keeps the screen in order and loses the top line at most.
LEMMA Keeps ==
    ASSUME TypeOK, ScreenInv, Next
    PROVE  TypeOK' /\ ScreenInv' /\ OnlyTheTopLine
<1>1. /\ Blank \in Char /\ Break \in Char /\ Title \in Seq(Char) /\ TitleAt \in Nat
      /\ TitleAt + Len(Title) <= TEXT_COLS /\ Blank \notin Ink
  BY ConstantsAreSane DEF Ink
<1>2. /\ 0 \in Cells /\ 1 \in 0 .. TEXT_ROWS - 1
      /\ TEXT_ROWS \in Nat /\ TEXT_COLS \in Nat /\ Cells \subseteq Nat
  <2>1. TEXT_ROWS \in Nat /\ TEXT_ROWS > 3 /\ TEXT_COLS \in Nat /\ TEXT_COLS > 0  BY Sizes
  <2>2. 1 * TEXT_COLS <= TEXT_ROWS * TEXT_COLS /\ TEXT_ROWS * TEXT_COLS \in Nat
    <3>1. 1 \in Nat /\ 1 <= TEXT_ROWS  BY <2>1
    <3> QED BY <2>1, <3>1, Products
  <2> QED BY <2>1, <2>2 DEF Cells
<1>3. CASE VVgaTextInit
  <2>1. /\ pc = "clear" /\ pc' = "title" /\ cursor' = 0
        /\ screen' = [i \in Cells |-> IF Row(i) < ClearedRows THEN Blank ELSE screen[i]]
        /\ s_row' = s_row /\ s_col' = s_col /\ gPort' = gPort /\ out' = out
        /\ gNewLineEnabled' = gNewLineEnabled /\ todo' = todo /\ call' = call /\ port' = port
        /\ text' = text
    BY <1>3 DEF VVgaTextInit
  <2>2. InkedIn(screen, Top) = {} /\ s_row = 0 /\ s_col = 0 /\ todo = << >>
    BY <2>1, EmptyScreen
  <2>3. InkedIn(screen', Top) = {}
    BY <1>1, <2>1, <2>2 DEF InkedIn
  <2>4. ScreenInv' /\ OnlyTheTopLine
    BY <2>1, <2>2, <2>3, EmptyStays
  <2>5. screen' \in [Cells -> Char \cup Leftover]
    BY <1>1, <2>1 DEF TypeOK
  <2>6. TypeOK'
    BY <1>2, <2>1, <2>5 DEF TypeOK
  <2> QED BY <2>4, <2>6
<1>4. CASE ConsoleInit
  <2>1. /\ pc = "title" /\ pc' = "log" /\ cursor' = cursor
        /\ screen' = [i \in Cells |-> IF i \in TitleAt .. TitleAt + Len(Title) - 1
                                      THEN Title[i - TitleAt + 1] ELSE screen[i]]
        /\ s_row' = 1 /\ s_col' = s_col /\ gPort' = gPort /\ out' = out
        /\ gNewLineEnabled' = gNewLineEnabled /\ todo' = todo /\ call' = call /\ port' = port
        /\ text' = text
    BY <1>4 DEF ConsoleInit
  <2>2. InkedIn(screen, Top) = {} /\ todo = << >>
    BY <2>1, EmptyScreen
  <2>3. Len(Title) \in Nat
    BY <1>1, LenProperties
  <2>4. ASSUME NEW i \in Cells, i \in TitleAt .. TitleAt + Len(Title) - 1
        PROVE  Row(i) = 0 /\ Title[i - TitleAt + 1] \in Char
    <3>1. i < TEXT_COLS /\ i - TitleAt + 1 \in 1 .. Len(Title)
      BY <1>1, <1>2, <2>3, <2>4
    <3>2. Title[i - TitleAt + 1] \in Char  BY <1>1, <3>1, ElementOfSeq
    <3> QED BY <3>1, <3>2, TitleRow
  <2>5. InkedIn(screen', Top) = {}
    <3> SUFFICES ASSUME NEW i \in Cells, Row(i) \in Top .. Bottom, screen'[i] \in Ink PROVE FALSE
      BY DEF InkedIn
    <3>1. Row(i) # 0  BY Sizes DEF Top
    <3>2. ~ (i \in TitleAt .. TitleAt + Len(Title) - 1)  BY <2>4, <3>1
    <3>3. screen'[i] = screen[i]  BY <2>1, <3>2
    <3> QED BY <2>2, <3>3 DEF InkedIn
  <2>6. s_row' >= 1
    BY <2>1
  <2>7. ScreenInv' /\ OnlyTheTopLine
    BY <2>1, <2>5, <2>6, EmptyStays
  <2>8. screen' \in [Cells -> Char \cup Leftover]
    BY <2>1, <2>4 DEF TypeOK
  <2>9. TypeOK'
    BY <1>2, <2>1, <2>8 DEF TypeOK
  <2> QED BY <2>7, <2>9
<1>5. CASE \E m \in Messages : DbgDebugLog(m)
  <2>1. PICK m \in Messages : DbgDebugLog(m)
    BY <1>5
  <2>2. /\ pc' = pc /\ screen' = screen /\ s_row' = s_row /\ s_col' = s_col /\ cursor' = cursor
        /\ gPort' = gPort /\ out' = out /\ gNewLineEnabled' = gNewLineEnabled /\ text' = text
        /\ pc = "log" /\ todo = << >> /\ call' = m /\ port' = << >>
    BY <2>1 DEF DbgDebugLog, screenVars
  <2>3. ScreenInv' /\ OnlyTheTopLine
    BY <2>2, ScreenStays DEF Prints
  <2>4. todo' \in Seq(Char \cup Switches)
    <3> DEFINE r == Serial(m) \o Then(m)
    <3>1. Serial(m) \in Seq(Item) /\ Then(m) \in Seq(Item)  BY Parts
    <3>2. r \in Seq(Item) /\ "Init" \in Item  BY <3>1, ConcatProperties DEF Item, Switches
    <3>3. todo' = <<"Init">> \o r  BY <2>1, CallBegins
    <3> HIDE DEF r
    <3>4. <<"Init">> \o r \in Seq(Item)  BY <3>2, FirstOf
    <3> QED BY <3>3, <3>4 DEF Item
  <2>5. << >> \in Seq(Char)
    OBVIOUS
  <2>6. TypeOK'
    BY <2>2, <2>4, <2>5 DEF TypeOK
  <2> QED BY <2>3, <2>6
<1>6. CASE SerialFound
  <2>1. /\ pc' = pc /\ screen' = screen /\ s_row' = s_row /\ s_col' = s_col /\ cursor' = cursor
        /\ out' = out /\ gNewLineEnabled' = gNewLineEnabled /\ text' = text /\ port' = port
        /\ pc = "log" /\ todo = << >> /\ todo' = todo /\ call' = NoCall /\ gPort' = TRUE
    BY <1>6 DEF SerialFound, screenVars
  <2>2. ScreenInv' /\ OnlyTheTopLine
    BY <2>1, ScreenStays DEF Prints
  <2>3. TypeOK'
    BY <2>1 DEF TypeOK
  <2> QED BY <2>2, <2>3
<1>7. CASE todo # << >>
  <2>1. Takes /\ pc = "log"
    BY <1>7, CallGoesOn DEF ScreenInv
  <2> DEFINE item == Head(todo)
  <2>2. item \in Item /\ Tail(todo) \in Seq(Item) /\ todo \in Seq(Item)
    <3>1. todo \in Seq(Item)  BY DEF TypeOK, Item
    <3> QED BY <1>7, <3>1, HeadTailProperties
  <2>3. todo' \in Seq(Char \cup Switches)
    <3>1. CASE item # "NewLineIfEnabled"  BY <2>1, <2>2, <3>1 DEF Takes, Item
    <3>2. CASE item = "NewLineIfEnabled"
      <4> DEFINE u == IF gNewLineEnabled THEN <<Break>> ELSE << >>
                 r == Tail(todo)
      <4>1. u \in Seq(Item)
        <5>1. Break \in Item  BY <1>1 DEF Item
        <5>2. <<Break>> \in Seq(Item) /\ << >> \in Seq(Item)  BY <5>1
        <5>3. CASE gNewLineEnabled  BY <5>2, <5>3
        <5>4. CASE ~ gNewLineEnabled  BY <5>2, <5>4
        <5> QED BY <5>3, <5>4
      <4>2. todo' = u \o r  BY <2>1, <3>2 DEF Takes
      <4> HIDE DEF u
      <4>3. u \o r \in Seq(Item)  BY <2>2, <4>1, ConcatProperties
      <4> QED BY <4>2, <4>3 DEF Item
    <3> QED BY <3>1, <3>2
  <2>4. /\ pc' = pc /\ call' = call /\ gPort' = gPort /\ out' \in {"console", "serial"}
        /\ gNewLineEnabled' \in BOOLEAN
    <3>1. out' \in {"console", "serial"}  BY <2>1 DEF Takes, TypeOK
    <3>2. gNewLineEnabled' \in BOOLEAN  BY <2>1 DEF Takes, TypeOK
    <3> QED BY <2>1, <3>1, <3>2 DEF Takes
  <2>5. CASE item \in Switches
    <3>1. /\ port' = port /\ text' = text /\ screen' = screen /\ s_row' = s_row
          /\ s_col' = s_col /\ cursor' = cursor
      BY <2>1, <2>5 DEF Takes, screenVars
    <3>2. ScreenInv' /\ OnlyTheTopLine
      BY <2>1, <2>4, <2>5, <3>1, ScreenStays DEF Prints
    <3>3. TypeOK'
      BY <2>3, <2>4, <3>1 DEF TypeOK
    <3> QED BY <3>2, <3>3
  <2>6. CASE item \notin Switches /\ out = "serial"
    <3>1. item \in Char  BY <2>2, <2>6 DEF Item
    <3>2. /\ port' = Append(port, item) /\ text' = text /\ screen' = screen /\ s_row' = s_row
          /\ s_col' = s_col /\ cursor' = cursor
      BY <2>1, <2>6 DEF Takes, SerialPut, screenVars
    <3>3. ScreenInv' /\ OnlyTheTopLine
      BY <2>1, <2>4, <2>6, <3>2, ScreenStays
    <3>4. port' \in Seq(Char)
      <4>1. port \in Seq(Char)  BY DEF TypeOK
      <4> QED BY <3>1, <3>2, <4>1, AppendProperties
    <3>5. TypeOK'
      BY <2>3, <2>4, <3>2, <3>4 DEF TypeOK
    <3> QED BY <3>3, <3>5
  <2>7. CASE item \notin Switches /\ out # "serial"
    <3>1. item \in Char /\ out = "console"  BY <2>2, <2>7 DEF Item, TypeOK
    <3>2. Prints /\ ConsolePutChar(item)  BY <1>7, <2>1, <2>7 DEF Takes, Prints
    <3>3. /\ ScreenInv' /\ OnlyTheTopLine
          /\ screen' \in [Cells -> Char \cup Leftover] /\ s_row' \in 0 .. TEXT_ROWS - 1
          /\ s_col' \in 0 .. TEXT_COLS - 1 /\ cursor' \in Cells
          /\ text' \in Seq(Ink) /\ Len(text') <= Page
      BY <2>1, <2>4, <3>1, <3>2, PutStep
    <3>4. port' = port  BY <3>2 DEF ConsolePutChar
    <3>5. TypeOK'
      BY <2>3, <2>4, <3>3, <3>4 DEF TypeOK
    <3> QED BY <3>3, <3>5
  <2> QED BY <2>5, <2>6, <2>7
<1> QED
  BY <1>3, <1>4, <1>5, <1>6, <1>7
     DEF Next, InitOutput, EnableNewLine, NewLineIfEnabled, PrintCharacter, Goes, Prints

---------------------------------------------------------------------------
(* The theorems *)

IInv == TypeOK /\ ScreenInv /\ LogInv

LEMMA Inductive == Init /\ [][Next]_vars => []IInv
<1>1. Init => IInv
  BY Starts, LogStarts DEF IInv
<1>2. IInv /\ [Next]_vars => IInv'
  <2> SUFFICES ASSUME IInv, [Next]_vars PROVE IInv'
    OBVIOUS
  <2>1. TypeOK /\ ScreenInv /\ LogInv  BY DEF IInv
  <2>2. LogInv'  BY <2>1, LogStep
  <2>3. CASE Next  BY <2>1, <2>2, <2>3, Keeps DEF IInv
  <2>4. CASE vars' = vars
    <3>1. TypeOK'  BY <2>1, <2>4 DEF TypeOK, vars
    <3>2. /\ screen' = screen /\ s_row' = s_row /\ s_col' = s_col /\ pc' = pc /\ text' = text
          /\ todo' = todo
      BY <2>4 DEF vars
    <3>3. Inked(Top)' = Inked(Top) /\ ShownFrom(Top)' = ShownFrom(Top)
      BY <3>2, ShownIs
    <3>4. ScreenInv'  BY <2>1, <3>2, <3>3 DEF ScreenInv, ScreenShowsTheText
    <3> QED BY <2>2, <3>1, <3>4 DEF IInv
  <2> QED BY <2>3, <2>4
<1> QED
  BY <1>1, <1>2, PTL

\* The registers and buffers of the console and of the log keep their types; the cursor and
\* the offset of the next character never leave the screen (cconsole.c, dbglog.c).
THEOREM TypesHold == Spec => []TypeOK
<1>1. IInv => TypeOK
  BY DEF IInv
<1> QED
  BY <1>1, Inductive, PTL DEF Spec

\* The screen shows the end of what ConsolePutChar was given, on a screen of any size.
THEOREM ShowsTheText == Spec => []ScreenShowsTheText
<1>1. IInv => ScreenShowsTheText
  BY DEF IInv, ScreenInv
<1> QED
  BY <1>1, Inductive, PTL DEF Spec

\* A step of ConsolePutChar loses no character but those of the top line of a full page.
THEOREM TopLineGoes == Spec => OnlyTheTopLineGoes
<1>1. IInv /\ [Next]_vars => [OnlyTheTopLine]_vars
  BY Keeps DEF IInv
<1>2. Spec => [][OnlyTheTopLine]_vars
  BY <1>1, Inductive, PTL DEF Spec
<1> QED
  BY <1>2 DEF OnlyTheTopLineGoes, OnlyTheTopLine

\* DbgDebugLog leaves the console at the beginning of a line, whatever was logged.
THEOREM LinesBegin == Spec => []LogLineStartsALine
<1>1. IInv => LogLineStartsALine
  BY DEF IInv, LogInv, Idle, LogLineStartsALine
<1> QED
  BY <1>1, Inductive, PTL DEF Spec

\* DbgDebugLog has sent its line once to the serial port, if there is one, and to the console.
THEOREM ReadersGetTheLine == Spec => []LineReachesItsReaders
<1>1. IInv => LineReachesItsReaders
  <2> SUFFICES ASSUME IInv, todo = << >>, call # NoCall
               PROVE  /\ port = IF gPort THEN Prefix \o call.text \o LineEnd(call) ELSE << >>
                      /\ LET ending == InOrder(Line(call),
                                               {i \in DOMAIN Line(call) : Line(call)[i] \in Ink})
                         IN  IsSuffix(ending, text) \/ Len(ending) > Page
    BY DEF LineReachesItsReaders
  <2>1. SentAll /\ Readable(Len(Line(call))) /\ call \in Messages
    BY DEF IInv, LogInv, Idle, TypeOK
  <2>2. port = IF gPort THEN Prefix \o call.text \o LineEnd(call) ELSE << >>
    BY <2>1 DEF SentAll, Serial
  <2>3. DOMAIN Line(call) = 1 .. Len(Line(call))
    <3> DEFINE s == Line(call)
    <3>1. s \in Seq(Char)  BY <2>1, Parts
    <3> HIDE DEF s
    <3>2. DOMAIN s = 1 .. Len(s)  BY <3>1, LenProperties
    <3> QED BY <3>2 DEF s
  <2> QED BY <2>1, <2>2, <2>3 DEF Readable, InkOf
<1> QED
  BY <1>1, Inductive, PTL DEF Spec
=============================================================================
