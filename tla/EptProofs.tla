----------------------------- MODULE EptProofs -----------------------------
(***************************************************************************)
(* Theorems about Ept for every table size, machine and E820 map.          *)
(*                                                                         *)
(* The first inductive invariant joins two things. The tables in use form  *)
(* a tree over cleared tables (Good). And the entry pointers kept across   *)
(* iterations are the entries on the walk of the page before (Kept): equal *)
(* indices of two successive pages then mean equal pointers, so an         *)
(* iteration that jumps does what one that walks from the PML4 would do    *)
(* (GotosSkipNothing).                                                     *)
(*                                                                         *)
(* On top of it the pages: a leaf belongs to one page, so an iteration     *)
(* gives one page, and the pages the guest has are exactly those the loops *)
(* have passed (Given). This gives the guest's memory at every point of    *)
(* the boot, what is hidden from it, and the refinement.                   *)
(***************************************************************************)
EXTENDS Ept, TLAPS

Kernel == KernelPage .. KernelEnd - 1

MemType(m) ==
    /\ m.tab \in [Table -> [Index -> Entry]]
    /\ m.last \in Table
    /\ m.depth \in [Table -> 0 .. 3]

Down(m) ==
    \A t \in 0 .. m.last : m.depth[t] < 3 =>
        \A i \in Index : m.tab[t][i].acc =>
            /\ m.tab[t][i].to \in 1 .. m.last
            /\ m.depth[m.tab[t][i].to] = m.depth[t] + 1

Unshared(m) ==
    \A t, u \in 0 .. m.last : (m.depth[t] < 3 /\ m.depth[u] < 3) =>
        \A i, j \in Index :
            (/\ m.tab[t][i].acc /\ m.tab[u][j].acc
             /\ m.tab[t][i].to = m.tab[u][j].to) => (t = u /\ i = j)

Good(m) == MemType(m) /\ m.depth[0] = 0 /\ Down(m) /\ Unshared(m)

\* One iteration only adds entries; the tables in use keep their depth.
Grows(m, n) ==
    /\ n.last >= m.last
    /\ \A t \in 0 .. m.last : n.depth[t] = m.depth[t]
    /\ \A t \in 0 .. m.last : \A i \in Index : m.tab[t][i].acc => n.tab[t][i] = m.tab[t][i]

\* An entry that gives access in n but not in m is a link to an empty table.
NoNewLeaf(m, n) ==
    \A u \in 0 .. n.last : \A j \in Index : n.tab[u][j].acc =>
        \/ u \in 0 .. m.last /\ m.tab[u][j].acc /\ n.tab[u][j] = m.tab[u][j]
        \/ n.depth[u] < 3 /\ \A x \in Index : ~ n.tab[n.tab[u][j].to][x].acc

LEMMA IndexTypes ==
    ASSUME NEW p \in Nat
    PROVE  /\ Pml4Index(p) \in Index /\ PdptIndex(p) \in Index
           /\ PdIndex(p) \in Index /\ PtIndex(p) \in Index
<1>0. /\ Fan \in Nat \ {0}
      /\ Fan * Fan \in Nat \ {0}
      /\ Fan * Fan * Fan \in Nat \ {0}
  BY ConstantsAreSane
<1>1. /\ p \div (Fan * Fan * Fan) \in Nat /\ p \div (Fan * Fan) \in Nat /\ p \div Fan \in Nat
  BY <1>0
<1>2. \A x \in Nat : x % Fan \in 0 .. Fan - 1
  BY <1>0
<1> QED BY <1>1, <1>2 DEF Pml4Index, PdptIndex, PdIndex, PtIndex, Index

\* Ensure makes the entry lead one level down, and disturbs nothing.
LEMMA EnsureGood ==
    ASSUME NEW m, Good(m), m.last + 1 <= MaxTable,
           NEW t \in 0 .. m.last, m.depth[t] < 3, NEW i \in Index
    PROVE  LET n == Ensure(m, <<t, i>>)
           IN  /\ Good(n) /\ Grows(m, n) /\ NoNewLeaf(m, n) /\ n.last <= m.last + 1
               /\ n.tab[t][i].acc
               /\ n.tab[t][i].to \in 0 .. n.last
               /\ n.depth[n.tab[t][i].to] = m.depth[t] + 1
<1> DEFINE n == Ensure(m, <<t, i>>)
           k == m.last + 1
<1>1. CASE m.tab[t][i].acc
  <2>1. n = m  BY <1>1 DEF Ensure, At
  <2>2. m.last \in Nat /\ t \in 0 .. m.last  BY DEF Good, MemType, Table
  <2>3. m.tab[t][i].to \in 1 .. m.last /\ m.depth[m.tab[t][i].to] = m.depth[t] + 1
    BY <1>1 DEF Good, Down
  <2>4. Grows(m, m) /\ NoNewLeaf(m, m)  BY <2>2 DEF Grows, NoNewLeaf
  <2> QED BY <1>1, <2>1, <2>2, <2>3, <2>4
<1>2. CASE ~ m.tab[t][i].acc
  <2>1. n = [tab |-> [m.tab EXCEPT ![t][i] = Link(k), ![k] = Cleared],
             last |-> k, depth |-> [m.depth EXCEPT ![k] = m.depth[t] + 1]]
    BY <1>2 DEF Ensure, At
  <2>2. k \in Table /\ k # t /\ k # 0 /\ t \in Table /\ m.last \in Nat
        /\ m.depth \in [Table -> 0 .. 3] /\ m.tab \in [Table -> [Index -> Entry]]
    BY ConstantsAreSane DEF Good, MemType, Table
  <2>3. Link(k) \in Entry /\ Cleared \in [Index -> Entry]
    BY <2>2 DEF Link, Cleared, Entry, Zero, Table, Types
  <2>4. /\ n.tab[k] = Cleared
        /\ n.tab[t] = [m.tab[t] EXCEPT ![i] = Link(k)]
        /\ \A u \in Table : (u # k /\ u # t) => n.tab[u] = m.tab[u]
        /\ n.depth[k] = m.depth[t] + 1
        /\ \A u \in Table : u # k => n.depth[u] = m.depth[u]
        /\ n.last = k
    BY <2>1, <2>2
  <2>5. MemType(n)
    <3>1. n.tab \in [Table -> [Index -> Entry]]
      BY <2>1, <2>2, <2>3
    <3>2. n.depth \in [Table -> 0 .. 3]
      BY <2>1, <2>2
    <3> QED BY <2>1, <2>2, <3>1, <3>2 DEF MemType
  <2>6. \A u \in 0 .. m.last : u \in Table /\ u # k
    BY <2>2, ConstantsAreSane DEF Table
  <2>7. \A j \in Index : ~ n.tab[k][j].acc
    BY <2>4 DEF Cleared, Zero
  <2>8. n.tab[t][i] = Link(k) /\ \A j \in Index : j # i => n.tab[t][j] = m.tab[t][j]
    BY <2>2, <2>4
  \* An entry of n that gives access is the new link or an entry m had.
  <2>9. \A u \in 0 .. k : \A j \in Index : n.tab[u][j].acc =>
           \/ u = t /\ j = i
           \/ u \in 0 .. m.last /\ n.tab[u][j] = m.tab[u][j] /\ m.tab[u][j].acc
    <3> SUFFICES ASSUME NEW u \in 0 .. k, NEW j \in Index, n.tab[u][j].acc, ~(u = t /\ j = i)
                 PROVE  u \in 0 .. m.last /\ n.tab[u][j] = m.tab[u][j]
      OBVIOUS
    <3>1. u # k  BY <2>7
    <3>2. u \in 0 .. m.last  BY <3>1, <2>2
    <3>3. CASE u = t  BY <3>3, <3>2, <2>8
    <3>4. CASE u # t  BY <3>4, <3>2, <3>1, <2>4, <2>6
    <3> QED BY <3>3, <3>4
  <2>10. Down(n)
    <3> SUFFICES ASSUME NEW u \in 0 .. k, n.depth[u] < 3, NEW j \in Index, n.tab[u][j].acc
                 PROVE  n.tab[u][j].to \in 1 .. k /\ n.depth[n.tab[u][j].to] = n.depth[u] + 1
      BY <2>4 DEF Down
    <3>1. CASE u = t /\ j = i
      BY <3>1, <2>2, <2>4, <2>6, <2>8 DEF Link
    <3>2. CASE ~(u = t /\ j = i)
      <4>1. u \in 0 .. m.last /\ n.tab[u][j] = m.tab[u][j] /\ m.tab[u][j].acc
        BY <3>2, <2>9
      <4>2. n.depth[u] = m.depth[u]  BY <4>1, <2>4, <2>6
      <4>3. m.tab[u][j].to \in 1 .. m.last /\ m.depth[m.tab[u][j].to] = m.depth[u] + 1
        BY <4>1, <4>2 DEF Good, Down
      <4>4. n.depth[m.tab[u][j].to] = m.depth[m.tab[u][j].to]
        BY <4>3, <2>2, <2>4, <2>6
      <4> QED BY <4>1, <4>2, <4>3, <4>4, <2>2
    <3> QED BY <3>1, <3>2
  <2>11. Unshared(n)
    <3> SUFFICES ASSUME NEW u \in 0 .. k, NEW w \in 0 .. k, n.depth[u] < 3, n.depth[w] < 3,
                        NEW j \in Index, NEW l \in Index,
                        n.tab[u][j].acc, n.tab[w][l].acc,
                        n.tab[u][j].to = n.tab[w][l].to
                 PROVE  u = w /\ j = l
      BY <2>4 DEF Unshared
    <3>1. \A x \in 0 .. k : \A y \in Index :
             (n.tab[x][y].acc /\ n.depth[x] < 3 /\ ~(x = t /\ y = i)) =>
                /\ x \in 0 .. m.last /\ n.tab[x][y] = m.tab[x][y] /\ m.tab[x][y].acc
                /\ m.depth[x] < 3
                /\ m.tab[x][y].to \in 1 .. m.last
      BY <2>9, <2>4, <2>6 DEF Good, Down
    <3>2. n.tab[t][i].to = k  BY <2>8 DEF Link
    <3>3. k \notin 1 .. m.last  BY <2>2
    <3>4. CASE u = t /\ j = i  BY <3>1, <3>2, <3>3, <3>4
    <3>5. CASE w = t /\ l = i  BY <3>1, <3>2, <3>3, <3>5
    <3>6. CASE ~(u = t /\ j = i) /\ ~(w = t /\ l = i)
      BY <3>1, <3>6 DEF Good, Unshared
    <3> QED BY <3>4, <3>5, <3>6
  <2>13. Grows(m, n)
    <3>1. \A u \in 0 .. m.last : n.depth[u] = m.depth[u]  BY <2>4, <2>6
    <3>2. ASSUME NEW u \in 0 .. m.last, NEW j \in Index, m.tab[u][j].acc
          PROVE  n.tab[u][j] = m.tab[u][j]
      <4>1. CASE u = t  BY <4>1, <3>2, <1>2, <2>8
      <4>2. CASE u # t  BY <4>2, <2>4, <2>6
      <4> QED BY <4>1, <4>2
    <3> QED BY <3>1, <3>2, <2>2, <2>4 DEF Grows
  <2>14. n.depth[0] = 0
    <3>1. 0 \in Table  BY ConstantsAreSane DEF Table
    <3>2. n.depth[0] = m.depth[0]  BY <3>1, <2>2, <2>4
    <3> QED BY <3>2 DEF Good
  <2> QED
    <3>1. n.tab[t][i].acc /\ n.tab[t][i].to = k  BY <2>8 DEF Link
    <3>2. n.last = k /\ n.depth[k] = m.depth[t] + 1  BY <2>4
    <3>3. Good(n)  BY <2>5, <2>10, <2>11, <2>14 DEF Good
    <3>4. k \in 0 .. k  BY <2>2
    <3>5. NoNewLeaf(m, n)
      <4>1. n.depth[t] < 3  BY <2>2, <2>4
      <4> QED BY <4>1, <3>1, <3>2, <2>7, <2>9 DEF NoNewLeaf
    <3> QED BY <3>1, <3>2, <3>3, <3>4, <3>5, <2>2, <2>13
<1> QED BY <1>1, <1>2

\* Filling an entry of a table of depth 3 touches no link.
LEMMA FillGood ==
    ASSUME NEW m, Good(m), NEW t \in 0 .. m.last, m.depth[t] = 3, NEW i \in Index,
           ~ m.tab[t][i].acc, NEW leaf \in Entry,
           NEW n, n.tab = [m.tab EXCEPT ![t][i] = leaf], n.last = m.last, n.depth = m.depth
    PROVE  Good(n) /\ Grows(m, n)
<1>0. /\ m.last \in Nat /\ m.last \in Table /\ 0 .. m.last \subseteq Table
      /\ m.depth \in [Table -> 0 .. 3] /\ m.tab \in [Table -> [Index -> Entry]]
  BY ConstantsAreSane DEF Good, MemType, Table
<1>3. n.tab \in [Table -> [Index -> Entry]]  BY <1>0
<1>4. \A u \in Table : \A j \in Index : ~(u = t /\ j = i) => n.tab[u][j] = m.tab[u][j]
  BY <1>0
<1>5. \A u \in 0 .. m.last : n.depth[u] < 3 => \A j \in Index : n.tab[u][j] = m.tab[u][j]
  BY <1>0, <1>4
<1>6. Down(n)  BY <1>5 DEF Down, Good
<1>7. Unshared(n)  BY <1>5 DEF Unshared, Good
<1>9. Grows(m, n)
  <2>1. ASSUME NEW u \in 0 .. m.last, NEW j \in Index, m.tab[u][j].acc
        PROVE  n.tab[u][j] = m.tab[u][j]
    BY <2>1, <1>4, <1>0
  <2> QED BY <2>1, <1>0 DEF Grows
<1> QED BY <1>0, <1>3, <1>6, <1>7, <1>9 DEF Good, MemType

LEMMA GrowsTransitive ==
    ASSUME NEW a, NEW b, NEW c, Good(a), Good(b), Good(c), Grows(a, b), Grows(b, c)
    PROVE  Grows(a, c)
<1>1. /\ a.last \in Nat /\ b.last \in Nat /\ c.last \in Nat
      /\ a.last <= b.last /\ b.last <= c.last
  BY ConstantsAreSane DEF Good, MemType, Table, Grows
<1>2. \A t \in 0 .. a.last : t \in 0 .. b.last  BY <1>1
<1>3. \A t \in 0 .. a.last : c.depth[t] = a.depth[t]  BY <1>2 DEF Grows
<1>4. ASSUME NEW t \in 0 .. a.last, NEW i \in Index, a.tab[t][i].acc
      PROVE  c.tab[t][i] = a.tab[t][i]
  BY <1>2, <1>4 DEF Grows
<1> QED BY <1>1, <1>3, <1>4 DEF Grows

---------------------------------------------------------------------------
(* Arithmetic: the four indices of a page determine it, and those of the   *)
(* next page differ from the last level up.                                *)

LEMMA MulMono ==
    ASSUME NEW d \in Nat, NEW x \in Int, NEW y \in Int, x <= y
    PROVE  d * x <= d * y
<1>1. y - x \in Nat  BY SMT
<1>2. d * (y - x) \in Nat  BY <1>1
<1>3. d * (y - x) = d * y - d * x  BY SMT
<1> QED BY <1>2, <1>3

LEMMA DivMod ==
    ASSUME NEW a \in Nat, NEW d \in Nat \ {0}
    PROVE  a \div d \in Nat /\ a % d \in 0 .. d - 1 /\ a = d * (a \div d) + (a % d)
BY SMT

LEMMA QuotientUnique ==
    ASSUME NEW d \in Nat \ {0}, NEW q \in Nat, NEW r \in 0 .. d - 1
    PROVE  (d * q + r) \div d = q /\ (d * q + r) % d = r
<1> DEFINE a == d * q + r
<1>0. a \in Nat
  <2>1. d * q \in Nat  BY SMT
  <2> QED BY <2>1
<1>1. a \div d \in Nat /\ a % d \in 0 .. d - 1 /\ a = d * (a \div d) + (a % d)
  BY <1>0, DivMod
<1> DEFINE p == a \div d
           s == a % d
<1>2. p \in Nat /\ s \in 0 .. d - 1 /\ d * q + r = d * p + s  BY <1>1
<1> HIDE DEF p, s
<1>3. ~ (p >= q + 1)
  <2> SUFFICES ASSUME p >= q + 1 PROVE FALSE OBVIOUS
  <2>1. d * (q + 1) <= d * p  BY <1>2, MulMono
  <2>2. d * (q + 1) = d * q + d BY SMT
  <2>3. d * q \in Int /\ d * p \in Int BY <1>2
  <2> QED BY <1>2, <2>1, <2>2, <2>3
<1>4. ~ (q >= p + 1)
  <2> SUFFICES ASSUME q >= p + 1 PROVE FALSE OBVIOUS
  <2>1. d * (p + 1) <= d * q  BY <1>2, MulMono
  <2>2. d * (p + 1) = d * p + d BY <1>2, SMT
  <2>3. d * q \in Int /\ d * p \in Int BY <1>2
  <2> QED BY <1>2, <2>1, <2>2, <2>3
<1>5. p = q  BY <1>2, <1>3, <1>4
<1>6. s = r
  <2>3. d * q \in Int BY <1>2
  <2> QED BY <1>2, <1>5, <2>3
<1> QED BY <1>5, <1>6 DEF p, s

LEMMA DivDiv ==
    ASSUME NEW a \in Nat, NEW d \in Nat \ {0}, NEW e \in Nat \ {0}
    PROVE  a \div (d * e) = (a \div d) \div e
<1> DEFINE q == a \div d
           p == q \div e
           r == a % d
           s == q % e
<1>1. q \in Nat /\ r \in 0 .. d - 1 /\ a = d * q + r  BY DivMod
<1>2. p \in Nat /\ s \in 0 .. e - 1 /\ q = e * p + s  BY <1>1, DivMod
<1> HIDE DEF q, p, r, s
<1>3. d * e \in Nat \ {0}  BY SMT
<1>4. d * s + r \in 0 .. (d * e) - 1
  <2>1. d * s <= d * (e - 1)  BY <1>2, MulMono
  <2>2. d * (e - 1) = d * e - d  BY SMT
  <2>3. d * s \in Nat BY <1>2
  <2> QED BY <1>1, <1>2, <1>3, <2>1, <2>2, <2>3
<1>5. a = (d * e) * p + (d * s + r)
  <2>1. d * q = d * (e * p) + d * s
    BY <1>2, SMT
  <2>2. d * (e * p) = (d * e) * p  BY <1>2, SMT
  <2>3. d * (e * p) \in Int /\ d * s \in Int BY <1>2, SMT
  <2> QED BY <1>1, <2>1, <2>2, <2>3
<1>6. a \div (d * e) = p
  <2> DEFINE f == d * e
             g == d * s + r
  <2>1. f \in Nat \ {0} /\ g \in 0 .. f - 1 BY <1>3, <1>4
  <2>2. a = f * p + g BY <1>5
  <2> HIDE DEF f, g
  <2>3. a \div f = p BY <2>1, <2>2, <1>2, QuotientUnique
  <2> QED BY <2>3 DEF f
<1> QED BY <1>6 DEF p, q

\* Four levels of Fan entries tell the pages of Page apart.
LEMMA IndicesDeterminePage ==
    ASSUME NEW v \in Page, NEW w \in Page,
           Pml4Index(v) = Pml4Index(w), PdptIndex(v) = PdptIndex(w),
           PdIndex(v) = PdIndex(w), PtIndex(v) = PtIndex(w)
    PROVE  v = w
<1>0. Fan \in Nat \ {0} /\ Fan * Fan \in Nat \ {0} /\ Fan * Fan * Fan \in Nat \ {0}
  BY ConstantsAreSane
<1> DEFINE q(x) == x \div Fan
           r(x) == q(x) \div Fan
           s(x) == r(x) \div Fan
<1>1. ASSUME NEW x \in Page
      PROVE  /\ q(x) \in Nat /\ r(x) \in Nat /\ s(x) \in Nat
             /\ x = Fan * q(x) + PtIndex(x)
             /\ q(x) = Fan * r(x) + PdIndex(x)
             /\ r(x) = Fan * s(x) + PdptIndex(x)
             /\ s(x) = Pml4Index(x)
  <2>1. x \in Nat /\ x < Fan * Fan * Fan * Fan  BY <1>0 DEF Page
  <2>2. q(x) \in Nat /\ x = Fan * q(x) + PtIndex(x)
    BY <1>0, <2>1, DivMod DEF PtIndex
  <2>3. r(x) \in Nat /\ q(x) = Fan * r(x) + PdIndex(x)
    BY <1>0, <2>2, DivMod DEF PdIndex
  <2>4. r(x) = x \div (Fan * Fan)  BY <1>0, <2>1, DivDiv
  <2>5. s(x) \in Nat /\ r(x) = Fan * s(x) + PdptIndex(x)
    BY <1>0, <2>3, <2>4, DivMod DEF PdptIndex
  <2>6. s(x) = x \div (Fan * Fan * Fan)
    <3>1. (x \div (Fan * Fan)) \div Fan = x \div (Fan * Fan * Fan)  BY <1>0, <2>1, DivDiv
    <3> QED BY <3>1, <2>4
  <2>7. s(x) < Fan
    <3> DEFINE c == Fan * Fan * Fan
    <3>1. c \in Nat \ {0} /\ x < c * Fan  BY <1>0, <2>1
    <3> DEFINE z == x \div c
    <3> HIDE DEF c
    <3>2. z \in Nat /\ x % c \in 0 .. c - 1 /\ x = c * z + (x % c)
      BY <2>1, <3>1, DivMod
    <3> HIDE DEF z
    <3>3. z \in Nat /\ x >= c * z
      <4>1. c * z \in Nat  BY <3>1, <3>2
      <4> QED BY <3>1, <3>2, <4>1
    <3>4. ~ (Fan <= z)
      <4> SUFFICES ASSUME Fan <= z PROVE FALSE OBVIOUS
      <4>1. c * Fan <= c * z  BY <1>0, <3>1, <3>3, MulMono
      <4>2. c * Fan \in Int /\ c * z \in Int BY <1>0, <3>1, <3>3
      <4> QED BY <4>1, <4>2, <3>1, <3>3, <2>1
    <3> QED BY <2>6, <3>3, <3>4, <1>0 DEF z, c
  <2>8. s(x) % Fan = s(x)  BY <1>0, <2>5, <2>7
  <2> QED BY <2>2, <2>3, <2>5, <2>6, <2>8 DEF Pml4Index
<1> HIDE DEF q, r, s
<1>2. s(v) = s(w)  BY <1>1
<1>3. r(v) = r(w)  BY <1>1, <1>2
<1>4. q(v) = q(w)  BY <1>1, <1>3
<1> QED BY <1>1, <1>4

\* Of two successive quotients with the same remainder modulo Fan there is one.
LEMMA NextQuotient ==
    ASSUME NEW a \in Nat, NEW b \in Nat, b = a \/ b = a + 1
    PROVE  /\ b \div Fan = a \div Fan \/ b \div Fan = (a \div Fan) + 1
           /\ b % Fan = a % Fan => b = a
<1> DEFINE q == a \div Fan
           r == a % Fan
<1>0. Fan \in Nat \ {0} /\ Fan >= 2  BY ConstantsAreSane
<1>1. q \in Nat /\ r \in 0 .. Fan - 1 /\ a = Fan * q + r  BY <1>0, DivMod
<1>2. CASE b = a
  BY <1>2
<1>3. CASE b = a + 1 /\ r < Fan - 1
  <2> DEFINE s == r + 1
  <2>1. s \in 0 .. Fan - 1 /\ s # r  BY <1>0, <1>1, <1>3
  <2>2. b = Fan * q + s
    <3>1. Fan * q \in Nat  BY <1>0, <1>1
    <3> QED BY <3>1, <1>1, <1>3
  <2> HIDE DEF q, s
  <2>3. b \div Fan = q /\ b % Fan = s  BY <1>0, <1>1, <2>1, <2>2, QuotientUnique
  <2> QED BY <2>1, <2>3 DEF q
<1>4. CASE b = a + 1 /\ r = Fan - 1
  <2> DEFINE p == q + 1
  <2>1. p \in Nat /\ 0 \in 0 .. Fan - 1  BY <1>0, <1>1
  <2>2. b = Fan * p + 0
    <3>1. Fan * (q + 1) = Fan * q + Fan /\ Fan * q \in Nat  BY <1>0, <1>1
    <3> QED BY <3>1, <1>0, <1>1, <1>4
  <2> HIDE DEF p
  <2>3. b \div Fan = p /\ b % Fan = 0  BY <1>0, <2>1, <2>2, QuotientUnique
  <2>4. r # 0  BY <1>0, <1>4
  <2> QED BY <2>3, <2>4 DEF p
<1> QED BY <1>0, <1>1, <1>2, <1>3, <1>4

\* When the next page has the same PD index it has the same upper indices, and
\* likewise one level up: what the gotos of the loop rely on.
LEMMA NextPageIndices ==
    ASSUME NEW p \in Nat
    PROVE  /\ PdIndex(p + 1) = PdIndex(p) => PdptIndex(p + 1) = PdptIndex(p)
           /\ PdptIndex(p + 1) = PdptIndex(p) => Pml4Index(p + 1) = Pml4Index(p)
<1>0. Fan \in Nat \ {0} /\ Fan * Fan \in Nat \ {0}  BY ConstantsAreSane
<1> DEFINE q1 == p \div Fan
           q2 == q1 \div Fan
           n1 == (p + 1) \div Fan
           n2 == n1 \div Fan
<1>1. q1 \in Nat /\ q2 \in Nat /\ n1 \in Nat /\ n2 \in Nat
  <2>1. q1 \in Nat /\ n1 \in Nat  BY <1>0, DivMod
  <2> HIDE DEF q1, n1
  <2> QED BY <1>0, <2>1, DivMod
<1>2. /\ PdIndex(p) = q1 % Fan /\ PdIndex(p + 1) = n1 % Fan
      /\ PdptIndex(p) = q2 % Fan /\ PdptIndex(p + 1) = n2 % Fan
      /\ Pml4Index(p) = (q2 \div Fan) % Fan /\ Pml4Index(p + 1) = (n2 \div Fan) % Fan
  <2>1. ASSUME NEW x \in Nat
        PROVE  /\ PdIndex(x) = (x \div Fan) % Fan
               /\ PdptIndex(x) = ((x \div Fan) \div Fan) % Fan
               /\ Pml4Index(x) = (((x \div Fan) \div Fan) \div Fan) % Fan
    <3>1. x \div (Fan * Fan) = (x \div Fan) \div Fan  BY <1>0, DivDiv
    <3>2. x \div (Fan * Fan * Fan) = (x \div (Fan * Fan)) \div Fan  BY <1>0, DivDiv
    <3> QED BY <3>1, <3>2 DEF PdIndex, PdptIndex, Pml4Index
  <2> QED BY <2>1
<1>3. n1 = q1 \/ n1 = q1 + 1  BY NextQuotient
<1> HIDE DEF q1, n1
<1>4. n2 = q2 \/ n2 = q2 + 1  BY <1>1, <1>3, NextQuotient
<1>5. n1 % Fan = q1 % Fan => n1 = q1  BY <1>1, <1>3, NextQuotient
<1>6. n1 = q1 => n2 = q2  OBVIOUS
<1> HIDE DEF q2, n2
<1>7. n2 % Fan = q2 % Fan => n2 = q2  BY <1>1, <1>4, NextQuotient
<1> QED BY <1>2, <1>5, <1>6, <1>7

---------------------------------------------------------------------------
(* Walks through a memory: the four entries on the way to page v *)

E1(m, v) == m.tab[0][Pml4Index(v)]
E2(m, v) == m.tab[E1(m, v).to][PdptIndex(v)]
E3(m, v) == m.tab[E2(m, v).to][PdIndex(v)]
E4(m, v) == m.tab[E3(m, v).to][PtIndex(v)]

Upper(m, v)   == E1(m, v).acc /\ E2(m, v).acc /\ E3(m, v).acc
Access(m, v) == Upper(m, v) /\ E4(m, v).acc

\* Page w looks the same in m and n.
SameAt(m, n, w) ==
    /\ Access(n, w) <=> Access(m, w)
    /\ Access(m, w) => E4(n, w) = E4(m, w)

\* A link of level l leads to a table of depth l.
LEMMA WalkTables ==
    ASSUME NEW m, Good(m), NEW v \in Nat
    PROVE  /\ m.last \in Nat /\ 0 \in 0 .. m.last /\ m.depth[0] = 0
           /\ E1(m, v).acc => E1(m, v).to \in 1 .. m.last /\ m.depth[E1(m, v).to] = 1
           /\ E1(m, v).acc /\ E2(m, v).acc =>
                E2(m, v).to \in 1 .. m.last /\ m.depth[E2(m, v).to] = 2
           /\ Upper(m, v) => E3(m, v).to \in 1 .. m.last /\ m.depth[E3(m, v).to] = 3
<1>i. /\ Pml4Index(v) \in Index /\ PdptIndex(v) \in Index /\ PdIndex(v) \in Index
  BY IndexTypes
<1>0. m.last \in Nat /\ 0 \in 0 .. m.last /\ m.depth[0] = 0
  BY ConstantsAreSane DEF Good, MemType, Table
<1>d. \A t \in 0 .. m.last : \A i \in Index : m.depth[t] < 3 /\ m.tab[t][i].acc =>
         /\ m.tab[t][i].to \in 1 .. m.last /\ m.tab[t][i].to \in 0 .. m.last
         /\ m.depth[m.tab[t][i].to] = m.depth[t] + 1
  BY <1>0 DEF Good, Down
<1>1. ASSUME E1(m, v).acc
      PROVE  E1(m, v).to \in 0 .. m.last /\ E1(m, v).to \in 1 .. m.last /\ m.depth[E1(m, v).to] = 1
  BY <1>0, <1>i, <1>d, <1>1 DEF E1
<1>2. ASSUME E1(m, v).acc, E2(m, v).acc
      PROVE  E2(m, v).to \in 0 .. m.last /\ E2(m, v).to \in 1 .. m.last /\ m.depth[E2(m, v).to] = 2
  <2> DEFINE t == E1(m, v).to
  <2>1. t \in 0 .. m.last /\ m.depth[t] = 1  BY <1>1, <1>2
  <2>2. E2(m, v) = m.tab[t][PdptIndex(v)]  BY DEF E2
  <2> HIDE DEF t
  <2> QED BY <2>1, <2>2, <1>i, <1>d, <1>2
<1>3. ASSUME Upper(m, v)
      PROVE  E3(m, v).to \in 1 .. m.last /\ m.depth[E3(m, v).to] = 3
  <2> DEFINE t == E2(m, v).to
  <2>1. t \in 0 .. m.last /\ m.depth[t] = 2  BY <1>2, <1>3 DEF Upper
  <2>2. E3(m, v) = m.tab[t][PdIndex(v)]  BY DEF E3
  <2> HIDE DEF t
  <2> QED BY <2>1, <2>2, <1>i, <1>d, <1>3 DEF Upper
<1> QED BY <1>0, <1>1, <1>2, <1>3

\* Two pages that reach the same leaf are the same page: no table is shared, so
\* they came the same way, and the indices determine the page.
LEMMA LeafBelongsToOnePage ==
    ASSUME NEW m, Good(m), NEW v \in Page, NEW w \in Page, Upper(m, v), Upper(m, w),
           E3(m, v).to = E3(m, w).to, PtIndex(v) = PtIndex(w)
    PROVE  v = w
<1>v. v \in Nat /\ w \in Nat  BY DEF Page
<1>i. /\ Pml4Index(v) \in Index /\ PdptIndex(v) \in Index /\ PdIndex(v) \in Index
      /\ Pml4Index(w) \in Index /\ PdptIndex(w) \in Index /\ PdIndex(w) \in Index
  BY <1>v, IndexTypes
<1>u. \A t, u \in 0 .. m.last : (m.depth[t] < 3 /\ m.depth[u] < 3) =>
        \A i, j \in Index :
            (/\ m.tab[t][i].acc /\ m.tab[u][j].acc
             /\ m.tab[t][i].to = m.tab[u][j].to) => (t = u /\ i = j)
  BY DEF Good, Unshared
<1>1. /\ E2(m, v).to \in 0 .. m.last /\ m.depth[E2(m, v).to] < 3
      /\ E2(m, w).to \in 0 .. m.last /\ m.depth[E2(m, w).to] < 3
      /\ E1(m, v).to \in 0 .. m.last /\ m.depth[E1(m, v).to] < 3
      /\ E1(m, w).to \in 0 .. m.last /\ m.depth[E1(m, w).to] < 3
      /\ 0 \in 0 .. m.last /\ m.depth[0] < 3
  BY <1>v, WalkTables DEF Upper
<1>2. E2(m, v).to = E2(m, w).to /\ PdIndex(v) = PdIndex(w)
  <2> DEFINE t == E2(m, v).to
             u == E2(m, w).to
  <2>1. m.tab[t][PdIndex(v)].acc /\ m.tab[u][PdIndex(w)].acc
        /\ m.tab[t][PdIndex(v)].to = m.tab[u][PdIndex(w)].to
    BY DEF Upper, E3
  <2>2. t \in 0 .. m.last /\ m.depth[t] < 3 /\ u \in 0 .. m.last /\ m.depth[u] < 3  BY <1>1
  <2> HIDE DEF t, u
  <2>3. t = u /\ PdIndex(v) = PdIndex(w)  BY <2>1, <2>2, <1>i, <1>u
  <2> QED BY <2>3 DEF t, u
<1>3. E1(m, v).to = E1(m, w).to /\ PdptIndex(v) = PdptIndex(w)
  <2> DEFINE t == E1(m, v).to
             u == E1(m, w).to
  <2>1. m.tab[t][PdptIndex(v)].acc /\ m.tab[u][PdptIndex(w)].acc
        /\ m.tab[t][PdptIndex(v)].to = m.tab[u][PdptIndex(w)].to
    BY <1>2 DEF Upper, E2
  <2>2. t \in 0 .. m.last /\ m.depth[t] < 3 /\ u \in 0 .. m.last /\ m.depth[u] < 3  BY <1>1
  <2> HIDE DEF t, u
  <2>3. t = u /\ PdptIndex(v) = PdptIndex(w)  BY <2>1, <2>2, <1>i, <1>u
  <2> QED BY <2>3 DEF t, u
<1>4. Pml4Index(v) = Pml4Index(w)
  <2>1. m.tab[0][Pml4Index(v)].acc /\ m.tab[0][Pml4Index(w)].acc
        /\ m.tab[0][Pml4Index(v)].to = m.tab[0][Pml4Index(w)].to
    BY <1>3 DEF Upper, E1
  <2> QED BY <2>1, <1>1, <1>i, <1>u
<1> QED BY <1>2, <1>3, <1>4, IndicesDeterminePage

\* Links survive growth, so the walk of a page goes the same way as before.
LEMMA UpperStays ==
    ASSUME NEW m, NEW n, Good(m), Grows(m, n), NEW v \in Nat
    PROVE  /\ E1(m, v).acc => E1(n, v) = E1(m, v)
           /\ E1(m, v).acc /\ E2(m, v).acc => E2(n, v) = E2(m, v)
           /\ Upper(m, v) => E3(n, v) = E3(m, v) /\ Upper(n, v)
           /\ Access(m, v) => Access(n, v) /\ E4(n, v) = E4(m, v)
<1>i. /\ Pml4Index(v) \in Index /\ PdptIndex(v) \in Index
      /\ PdIndex(v) \in Index /\ PtIndex(v) \in Index
  BY IndexTypes
<1>g. \A t \in 0 .. m.last : \A i \in Index : m.tab[t][i].acc => n.tab[t][i] = m.tab[t][i]
  BY DEF Grows
<1>w. /\ 0 \in 0 .. m.last
      /\ E1(m, v).acc => E1(m, v).to \in 0 .. m.last
      /\ E1(m, v).acc /\ E2(m, v).acc => E2(m, v).to \in 0 .. m.last
      /\ Upper(m, v) => E3(m, v).to \in 0 .. m.last
  BY WalkTables
<1>1. E1(m, v).acc => E1(n, v) = E1(m, v)
  BY <1>i, <1>g, <1>w DEF E1
<1>2. E1(m, v).acc /\ E2(m, v).acc => E2(n, v) = E2(m, v)
  BY <1>i, <1>g, <1>w, <1>1 DEF E2
<1>3. Upper(m, v) => E3(n, v) = E3(m, v)
  BY <1>i, <1>g, <1>w, <1>2 DEF E3, Upper
<1>4. Access(m, v) => E4(n, v) = E4(m, v)
  BY <1>i, <1>g, <1>w, <1>3 DEF E4, Upper, Access
<1> QED BY <1>1, <1>2, <1>3, <1>4 DEF Upper, Access

\* Linking an empty table shows and hides no page.
LEMMA LinkShowsNothing ==
    ASSUME NEW m, NEW n, Good(m), Good(n), Grows(m, n), NoNewLeaf(m, n), NEW w \in Nat
    PROVE  SameAt(m, n, w)
<1>i. /\ Pml4Index(w) \in Index /\ PdptIndex(w) \in Index
      /\ PdIndex(w) \in Index /\ PtIndex(w) \in Index
  BY IndexTypes
<1>s. \A u \in 0 .. n.last : \A j \in Index : n.tab[u][j].acc =>
        \/ u \in 0 .. m.last /\ m.tab[u][j].acc /\ n.tab[u][j] = m.tab[u][j]
        \/ n.depth[u] < 3 /\ \A x \in Index : ~ n.tab[n.tab[u][j].to][x].acc
  BY DEF NoNewLeaf
<1>1. ASSUME Access(n, w) PROVE Access(m, w)
  <2>w. /\ 0 \in 0 .. n.last /\ E1(n, w).to \in 0 .. n.last /\ E2(n, w).to \in 0 .. n.last
        /\ E3(n, w).to \in 0 .. n.last /\ n.depth[E3(n, w).to] = 3
    BY <1>1, WalkTables DEF Access, Upper
  <2>1. E1(m, w).acc /\ E1(n, w) = E1(m, w)
    <3>1. n.tab[0][Pml4Index(w)].acc /\ n.tab[n.tab[0][Pml4Index(w)].to][PdptIndex(w)].acc
      BY <1>1 DEF Access, Upper, E1, E2
    <3>2. m.tab[0][Pml4Index(w)].acc /\ n.tab[0][Pml4Index(w)] = m.tab[0][Pml4Index(w)]
      BY <3>1, <2>w, <1>i, <1>s
    <3> QED BY <3>2 DEF E1
  <2>2. E2(m, w).acc /\ E2(n, w) = E2(m, w)
    <3> DEFINE t == E1(n, w).to
    <3>1. n.tab[t][PdptIndex(w)].acc /\ n.tab[n.tab[t][PdptIndex(w)].to][PdIndex(w)].acc
          /\ t \in 0 .. n.last
      BY <1>1, <2>w DEF Access, Upper, E2, E3
    <3>2. E2(n, w) = n.tab[t][PdptIndex(w)] /\ E2(m, w) = m.tab[t][PdptIndex(w)]
      BY <2>1 DEF E2
    <3> HIDE DEF t
    <3>3. m.tab[t][PdptIndex(w)].acc /\ n.tab[t][PdptIndex(w)] = m.tab[t][PdptIndex(w)]
      BY <3>1, <1>i, <1>s
    <3> QED BY <3>2, <3>3
  <2>3. E3(m, w).acc /\ E3(n, w) = E3(m, w)
    <3> DEFINE t == E2(n, w).to
    <3>1. n.tab[t][PdIndex(w)].acc /\ n.tab[n.tab[t][PdIndex(w)].to][PtIndex(w)].acc
          /\ t \in 0 .. n.last
      BY <1>1, <2>w DEF Access, Upper, E3, E4
    <3>2. E3(n, w) = n.tab[t][PdIndex(w)] /\ E3(m, w) = m.tab[t][PdIndex(w)]
      BY <2>2 DEF E3
    <3> HIDE DEF t
    <3>3. m.tab[t][PdIndex(w)].acc /\ n.tab[t][PdIndex(w)] = m.tab[t][PdIndex(w)]
      BY <3>1, <1>i, <1>s
    <3> QED BY <3>2, <3>3
  <2>4. E4(m, w).acc
    <3> DEFINE t == E3(n, w).to
    <3>1. n.tab[t][PtIndex(w)].acc /\ t \in 0 .. n.last /\ ~ (n.depth[t] < 3)
      BY <1>1, <2>w DEF Access, E4
    <3>2. E4(m, w) = m.tab[t][PtIndex(w)]
      BY <2>3 DEF E4
    <3> HIDE DEF t
    <3> QED BY <3>1, <3>2, <1>i, <1>s
  <2> QED BY <2>1, <2>2, <2>3, <2>4 DEF Access, Upper
<1>2. Access(m, w) => Access(n, w) /\ E4(n, w) = E4(m, w)  BY UpperStays
<1> QED BY <1>1, <1>2 DEF SameAt

\* n is m with e written over the leaf entry of page v.
LeafWritten(m, n, v, e) == n.tab = [m.tab EXCEPT ![E3(m, v).to][PtIndex(v)] = e]

\* Writing the leaf entry of page v changes page v and no other.
LEMMA LeafEdit ==
    ASSUME NEW m, Good(m), NEW v \in Page, Upper(m, v), NEW e,
           NEW n, LeafWritten(m, n, v, e)
    PROVE  /\ Upper(n, v) /\ E4(n, v) = e
           /\ \A w \in Page : w # v => SameAt(m, n, w)
<1>v. v \in Nat /\ \A w \in Page : w \in Nat  BY DEF Page
<1> DEFINE t == E3(m, v).to
           i == PtIndex(v)
<1>0. /\ t \in 1 .. m.last /\ m.depth[t] = 3 /\ i \in Index
      /\ m.last \in Nat /\ 0 .. m.last \subseteq Table /\ m.tab \in [Table -> [Index -> Entry]]
      /\ m.depth[0] = 0 /\ 0 \in 0 .. m.last
  <2>1. /\ t \in 1 .. m.last /\ m.depth[t] = 3 /\ i \in Index
        /\ m.last \in Nat /\ m.depth[0] = 0 /\ 0 \in 0 .. m.last
    BY <1>v, WalkTables, IndexTypes
  <2>2. 0 .. m.last \subseteq Table /\ m.tab \in [Table -> [Index -> Entry]]
    BY ConstantsAreSane DEF Good, MemType, Table
  <2> QED BY <2>1, <2>2
<1>1. /\ \A u \in 0 .. m.last : u # t => n.tab[u] = m.tab[u]
      /\ n.tab[t][i] = e
      /\ \A j \in Index : j # i => n.tab[t][j] = m.tab[t][j]
  BY <1>0 DEF LeafWritten
<1>2. ASSUME NEW w \in Nat
      PROVE  /\ E1(n, w) = E1(m, w)
             /\ E1(m, w).acc => E2(n, w) = E2(m, w)
             /\ E1(m, w).acc /\ E2(m, w).acc => E3(n, w) = E3(m, w)
  <2>1. /\ E1(m, w).acc => E1(m, w).to \in 0 .. m.last /\ E1(m, w).to # t
        /\ E1(m, w).acc /\ E2(m, w).acc =>
              E2(m, w).to \in 0 .. m.last /\ E2(m, w).to # t
        /\ 0 # t
    BY <1>0, WalkTables
  <2> HIDE DEF t, i
  <2>2. E1(n, w) = E1(m, w)  BY <1>0, <1>1, <2>1 DEF E1
  <2>3. E1(m, w).acc => E2(n, w) = E2(m, w)  BY <1>1, <2>1, <2>2 DEF E2
  <2>4. E1(m, w).acc /\ E2(m, w).acc => E3(n, w) = E3(m, w)
    BY <1>1, <2>1, <2>3 DEF E3
  <2> QED BY <2>2, <2>3, <2>4
<1>3. Upper(n, v) /\ E4(n, v) = e
  BY <1>v, <1>1, <1>2 DEF Upper, E4
<1>4. ASSUME NEW w \in Page, w # v
      PROVE  SameAt(m, n, w)
  <2>1. Upper(n, w) <=> Upper(m, w)  BY <1>v, <1>2 DEF Upper
  <2>2. ASSUME Upper(m, w) PROVE E4(n, w) = E4(m, w)
    <3>1. E3(n, w) = E3(m, w)  BY <1>v, <1>2, <2>2 DEF Upper
    <3>2. E3(m, w).to \in 0 .. m.last /\ PtIndex(w) \in Index
      BY <1>v, <2>2, WalkTables, IndexTypes
    <3>3. ~ (E3(m, w).to = t /\ PtIndex(w) = i)
      BY <1>4, <2>2, LeafBelongsToOnePage
    <3> HIDE DEF t, i
    <3> QED BY <1>1, <3>1, <3>2, <3>3 DEF E4
  <2> QED BY <2>1, <2>2 DEF SameAt, Access
<1> QED BY <1>3, <1>4

---------------------------------------------------------------------------
(* One iteration that walks from the PML4 *)

M1(m, p) == Ensure(m, <<0, Pml4Index(p)>>)
T1(m, p) == M1(m, p).tab[0][Pml4Index(p)].to
M2(m, p) == Ensure(M1(m, p), <<T1(m, p), PdptIndex(p)>>)
T2(m, p) == M2(m, p).tab[T1(m, p)][PdptIndex(p)].to
M3(m, p) == Ensure(M2(m, p), <<T2(m, p), PdIndex(p)>>)
T3(m, p) == M3(m, p).tab[T2(m, p)][PdIndex(p)].to

\* It leads to a memory with the same pages, in which the walk of page p goes
\* through links down to its leaf entry.
LEMMA FullWalk ==
    ASSUME NEW m, Good(m), m.last + 3 <= MaxTable, NEW p \in Nat
    PROVE  /\ Good(M3(m, p)) /\ Grows(m, M3(m, p)) /\ Upper(M3(m, p), p)
           /\ E1(M3(m, p), p).to = T1(m, p) /\ E2(M3(m, p), p).to = T2(m, p)
           /\ E3(M3(m, p), p).to = T3(m, p)
           /\ \A w \in Nat : SameAt(m, M3(m, p), w)
<1> DEFINE i0 == Pml4Index(p)
           i1 == PdptIndex(p)
           i2 == PdIndex(p)
           m1 == Ensure(m, <<0, i0>>)
           t1 == m1.tab[0][i0].to
           m2 == Ensure(m1, <<t1, i1>>)
           t2 == m2.tab[t1][i1].to
           m3 == Ensure(m2, <<t2, i2>>)
           t3 == m3.tab[t2][i2].to
<1>0. MaxTable \in Nat /\ m.last \in Nat /\ 0 \in 0 .. m.last /\ m.depth[0] = 0
  BY ConstantsAreSane DEF Good, MemType, Table
<1>i. i0 \in Index /\ i1 \in Index /\ i2 \in Index
  BY IndexTypes
<1>e. /\ \A n : E1(n, p) = n.tab[0][i0]
      /\ \A n : E2(n, p) = n.tab[E1(n, p).to][i1]
      /\ \A n : E3(n, p) = n.tab[E2(n, p).to][i2]
  BY DEF E1, E2, E3
<1>d. M3(m, p) = m3 /\ T1(m, p) = t1 /\ T2(m, p) = t2 /\ T3(m, p) = t3
  BY DEF M1, M2, M3, T1, T2, T3
<1> HIDE DEF i0, i1, i2
<1>1. /\ Good(m1) /\ Grows(m, m1) /\ NoNewLeaf(m, m1) /\ m1.last <= m.last + 1
      /\ m1.tab[0][i0].acc /\ t1 \in 0 .. m1.last /\ m1.depth[t1] = 1
  BY EnsureGood, <1>0, <1>i
<1>2. t1 = m1.tab[0][i0].to  OBVIOUS
<1>3. m1.last \in Nat /\ 0 \in 0 .. m1.last
  BY <1>1, ConstantsAreSane DEF Good, MemType, Table
<1> HIDE DEF m1, t1
<1>4. /\ Good(m2) /\ Grows(m1, m2) /\ NoNewLeaf(m1, m2) /\ m2.last <= m1.last + 1
      /\ m2.tab[t1][i1].acc /\ t2 \in 0 .. m2.last /\ m2.depth[t2] = 2
  <2>1. m1.last + 1 <= MaxTable /\ m1.depth[t1] < 3 /\ t1 \in 0 .. m1.last
    BY <1>0, <1>1, <1>3
  <2> QED BY EnsureGood, <1>1, <1>i, <2>1
<1>5. t2 = m2.tab[t1][i1].to  OBVIOUS
<1>6. m2.last \in Nat /\ m1.last <= m2.last
  BY <1>4, ConstantsAreSane DEF Good, MemType, Table, Grows
<1> HIDE DEF m2, t2
<1>7. /\ Good(m3) /\ Grows(m2, m3) /\ NoNewLeaf(m2, m3) /\ m3.tab[t2][i2].acc
  <2>1. m2.last + 1 <= MaxTable /\ m2.depth[t2] < 3 /\ t2 \in 0 .. m2.last
    BY <1>0, <1>1, <1>3, <1>4, <1>6
  <2> QED BY EnsureGood, <1>4, <1>i, <2>1
<1>8. t3 = m3.tab[t2][i2].to  OBVIOUS
<1> HIDE DEF m3, t3
<1>9. Upper(m3, p) /\ E1(m3, p).to = t1 /\ E2(m3, p).to = t2 /\ E3(m3, p).to = t3
  <2>1. m3.tab[0][i0] = m1.tab[0][i0]
    <3>1. m2.tab[0][i0] = m1.tab[0][i0] /\ 0 \in 0 .. m2.last
      BY <1>1, <1>3, <1>4, <1>6, <1>i DEF Grows
    <3> QED BY <3>1, <1>1, <1>7, <1>i DEF Grows
  <2>2. m3.tab[t1][i1] = m2.tab[t1][i1]
    <3>1. t1 \in 0 .. m2.last  BY <1>1, <1>3, <1>6
    <3> QED BY <3>1, <1>4, <1>7, <1>i DEF Grows
  <2>3. E1(m3, p).acc /\ E1(m3, p).to = t1  BY <2>1, <1>1, <1>2, <1>e
  <2>4. E2(m3, p).acc /\ E2(m3, p).to = t2
    <3>1. E2(m3, p) = m3.tab[t1][i1]  BY <2>3, <1>e
    <3> QED BY <3>1, <2>2, <1>4, <1>5
  <2>5. E3(m3, p).acc /\ E3(m3, p).to = t3
    <3>1. E3(m3, p) = m3.tab[t2][i2]  BY <2>4, <1>e
    <3> QED BY <3>1, <1>7, <1>8
  <2> QED BY <2>3, <2>4, <2>5 DEF Upper
<1>10. ASSUME NEW w \in Nat PROVE SameAt(m, m3, w)
  BY <1>1, <1>4, <1>7, LinkShowsNothing DEF SameAt
<1>11. Grows(m, m2)  BY <1>1, <1>4, GrowsTransitive
<1>12. Grows(m, m3)  BY <1>11, <1>4, <1>7, GrowsTransitive
<1> QED BY <1>d, <1>7, <1>9, <1>10, <1>12

---------------------------------------------------------------------------
(* The invariant of the specification *)

\* Between two iterations of one call the kept pointers are the three upper
\* entries on the walk of the page just mapped, and give access.
Kept ==
    loop.old = NoIndices \/
        LET q == loop.page - 1
        IN  /\ q \in Nat
            /\ Upper(Memory, q)
            /\ loop.old  = <<Pml4Index(q), PdptIndex(q), PdIndex(q)>>
            /\ loop.pml4 = <<0, Pml4Index(q)>>
            /\ loop.pdpt = <<E1(Memory, q).to, PdptIndex(q)>>
            /\ loop.pd   = <<E2(Memory, q).to, PdIndex(q)>>

\* What is left to map: the pages below the hypervisor, then those above it.
Range ==
    /\ stage = "low" => loop.page + loop.left = KernelPage
    /\ stage = "high" => /\ loop.page >= KernelEnd
                         /\ loop.page + loop.left = KernelEnd + PagesIn(max)

Inv ==
    /\ TypeOK
    /\ Live => Good(Memory)
    /\ ~ Live => last = 0 /\ depth[0] = 0
    /\ stage \in {"low", "high"} => Kept
    /\ Range

\* A page still to be mapped is a page, and not the hypervisor's.
LEMMA PageToMap ==
    ASSUME Inv, stage \in {"low", "high"}, loop.left > 0
    PROVE  loop.page \in Page /\ loop.page \notin Kernel
<1>0. /\ KernelPage \in Nat /\ KernelPages \in Nat /\ PageSize \in Nat \ {0}
      /\ max \in Nat /\ loop.page \in Nat /\ loop.left \in Nat
      /\ KernelEnd + PagesIn(max) - 1 \in Page
  BY ConstantsAreSane DEF Inv, TypeOK
<1>1. PagesIn(max) \in Nat  BY <1>0 DEF PagesIn
<1>2. KernelEnd \in Nat /\ KernelEnd >= KernelPage  BY <1>0 DEF KernelEnd
<1>3. \A x \in Nat : x <= KernelEnd + PagesIn(max) - 1 => x \in Page
  <2> DEFINE top == Fan * Fan * Fan * Fan - 1
  <2>1. top \in Int  BY ConstantsAreSane
  <2>2. KernelEnd + PagesIn(max) - 1 \in 0 .. top  BY <1>0 DEF Page
  <2> HIDE DEF top
  <2>3. \A x \in Nat : x <= KernelEnd + PagesIn(max) - 1 => x \in 0 .. top
    BY <1>1, <1>2, <2>1, <2>2
  <2> QED BY <2>3 DEF Page, top
<1>4. CASE stage = "low"
  <2>1. loop.page <= KernelPage - 1  BY <1>0, <1>4 DEF Inv, Range
  <2>2. loop.page <= KernelEnd + PagesIn(max) - 1  BY <2>1, <1>0, <1>1, <1>2
  <2> QED BY <1>0, <1>3, <2>1, <2>2 DEF Kernel
<1>5. CASE stage = "high"
  <2>1. /\ loop.page >= KernelEnd /\ loop.page <= KernelEnd + PagesIn(max) - 1
    BY <1>0, <1>1, <1>2, <1>5 DEF Inv, Range
  <2> QED BY <1>0, <1>2, <1>3, <2>1 DEF Kernel
<1> QED BY <1>4, <1>5

\* An iteration that jumps over the upper levels leaves exactly what one that
\* walks from the PML4 leaves: same tables, same pointers kept.
LEMMA GotosSkipNothing ==
    ASSUME TypeOK, Kept, MapPage
    PROVE  LET p == loop.page
               n == M3(Memory, p)
               t == T3(Memory, p)
           IN  /\ tables' = IF n.tab[t][PtIndex(p)].acc THEN n.tab
                            ELSE [n.tab EXCEPT ![t][PtIndex(p)] = Leaf(p)]
               /\ last' = n.last /\ depth' = n.depth
               /\ loop' = [page |-> p + 1, left |-> loop.left - 1,
                           old  |-> <<Pml4Index(p), PdptIndex(p), PdIndex(p)>>,
                           pml4 |-> <<0, Pml4Index(p)>>,
                           pdpt |-> <<T1(Memory, p), PdptIndex(p)>>,
                           pd   |-> <<T2(Memory, p), PdIndex(p)>>]
<1> DEFINE m    == Memory
           p    == loop.page
           q    == p - 1
           kept == LevelsKept
           pml4 == IF kept < 1 THEN <<0, Pml4Index(p)>> ELSE loop.pml4
           m1   == IF kept < 1 THEN Ensure(m, pml4) ELSE m
           pdpt == IF kept < 2 THEN <<At(m1, pml4).to, PdptIndex(p)>> ELSE loop.pdpt
           m2   == IF kept < 2 THEN Ensure(m1, pdpt) ELSE m1
           pd   == IF kept < 3 THEN <<At(m2, pdpt).to, PdIndex(p)>> ELSE loop.pd
           m3   == IF kept < 3 THEN Ensure(m2, pd) ELSE m2
           pt   == <<At(m3, pd).to, PtIndex(p)>>
<1>1. /\ tables' = IF At(m3, pt).acc THEN m3.tab
                   ELSE [m3.tab EXCEPT ![pt[1]][pt[2]] = Leaf(p)]
      /\ last' = m3.last /\ depth' = m3.depth
      /\ loop' = [page |-> p + 1, left |-> loop.left - 1,
                  old |-> <<Pml4Index(p), PdptIndex(p), PdIndex(p)>>,
                  pml4 |-> pml4, pdpt |-> pdpt, pd |-> pd]
  BY DEF MapPage
<1>2. p \in Nat  BY DEF TypeOK
<1>i. /\ Pml4Index(p) \in Nat /\ PdptIndex(p) \in Nat /\ PdIndex(p) \in Nat
  BY <1>2, IndexTypes, ConstantsAreSane DEF Index
<1>k. kept \in 0 .. 3  BY DEF LevelsKept
\* Nothing is kept into the first iteration of a call.
<1>3. kept >= 1 => loop.old # NoIndices
  <2>1. CASE loop.old = NoIndices
    <3>1. loop.old[1] = -1 /\ loop.old[2] = -1 /\ loop.old[3] = -1  BY <2>1 DEF NoIndices
    <3>2. kept = 0  BY <1>i, <3>1 DEF LevelsKept
    <3> QED BY <3>2
  <2> QED BY <2>1
\* Later, what is kept is on the walk of p too, so the walk finds it there.
<1>4. ASSUME kept >= 1
      PROVE  /\ loop.pml4 = <<0, Pml4Index(p)>> /\ M1(m, p) = m
             /\ kept >= 2 => loop.pdpt = <<T1(m, p), PdptIndex(p)>> /\ M2(m, p) = m
             /\ kept >= 3 => loop.pd = <<T2(m, p), PdIndex(p)>> /\ M3(m, p) = m
  <2>1. /\ q \in Nat /\ p = q + 1 /\ Upper(m, q)
        /\ loop.old  = <<Pml4Index(q), PdptIndex(q), PdIndex(q)>>
        /\ loop.pml4 = <<0, Pml4Index(q)>>
        /\ loop.pdpt = <<E1(m, q).to, PdptIndex(q)>>
        /\ loop.pd   = <<E2(m, q).to, PdIndex(q)>>
    BY <1>2, <1>3, <1>4 DEF Kept
  <2>2. loop.old[1] = Pml4Index(q) /\ loop.old[2] = PdptIndex(q) /\ loop.old[3] = PdIndex(q)
    BY <2>1
  <2>3. /\ PdIndex(p) = PdIndex(q) => PdptIndex(p) = PdptIndex(q)
        /\ PdptIndex(p) = PdptIndex(q) => Pml4Index(p) = Pml4Index(q)
    <3> HIDE DEF q, p
    <3> QED BY <2>1, NextPageIndices
  <2>4. /\ Pml4Index(p) = Pml4Index(q)
        /\ kept >= 2 => PdptIndex(p) = PdptIndex(q)
        /\ kept >= 3 => PdIndex(p) = PdIndex(q)
    BY <1>4, <2>2, <2>3 DEF LevelsKept
  <2>5. /\ m.tab[0][Pml4Index(q)].acc /\ E1(m, q) = m.tab[0][Pml4Index(q)]
        /\ m.tab[E1(m, q).to][PdptIndex(q)].acc
        /\ E2(m, q) = m.tab[E1(m, q).to][PdptIndex(q)]
        /\ m.tab[E2(m, q).to][PdIndex(q)].acc
    BY <2>1 DEF Upper, E1, E2, E3
  <2> HIDE DEF m, p, q, kept
  <2>6. M1(m, p) = m /\ T1(m, p) = E1(m, q).to
    <3>1. At(m, <<0, Pml4Index(p)>>).acc  BY <2>4, <2>5 DEF At
    <3>2. M1(m, p) = m  BY <3>1 DEF M1, Ensure
    <3> QED BY <2>4, <2>5, <3>2 DEF T1
  <2>7. kept >= 2 => M2(m, p) = m /\ T2(m, p) = E2(m, q).to
    <3> SUFFICES ASSUME kept >= 2  PROVE M2(m, p) = m /\ T2(m, p) = E2(m, q).to
      OBVIOUS
    <3>1. At(m, <<T1(m, p), PdptIndex(p)>>).acc  BY <2>4, <2>5, <2>6 DEF At
    <3>2. M2(m, p) = m  BY <2>6, <3>1 DEF M2, Ensure
    <3> QED BY <2>4, <2>5, <2>6, <3>2 DEF T2
  <2>8. kept >= 3 => M3(m, p) = m /\ T2(m, p) = E2(m, q).to
    <3> SUFFICES ASSUME kept >= 3  PROVE M3(m, p) = m /\ T2(m, p) = E2(m, q).to
      OBVIOUS
    <3>1. M2(m, p) = m /\ T2(m, p) = E2(m, q).to  BY <1>k, <2>7
    <3>2. At(m, <<T2(m, p), PdIndex(p)>>).acc  BY <2>4, <2>5, <3>1 DEF At
    <3> QED BY <3>1, <3>2 DEF M3, Ensure
  <2> QED BY <2>1, <2>4, <2>6, <2>7, <2>8
<1> HIDE DEF kept, m, p
<1>5. pml4 = <<0, Pml4Index(p)>> /\ m1 = M1(m, p)
  <2>1. CASE kept < 1  BY <2>1 DEF M1
  <2>2. CASE kept >= 1  BY <1>k, <1>4, <2>2
  <2> QED BY <1>k, <2>1, <2>2
<1> HIDE DEF pml4, m1
<1>6. pdpt = <<T1(m, p), PdptIndex(p)>> /\ m2 = M2(m, p)
  <2>1. CASE kept < 2
    <3>1. At(m1, pml4).to = T1(m, p)  BY <1>5 DEF T1, At
    <3> QED BY <1>5, <2>1, <3>1 DEF M2
  <2>2. CASE kept >= 2
    <3>1. kept >= 1  BY <1>k, <2>2
    <3> QED BY <1>k, <1>4, <1>5, <2>2, <3>1
  <2> QED BY <1>k, <2>1, <2>2
<1> HIDE DEF pdpt, m2
<1>7. pd = <<T2(m, p), PdIndex(p)>> /\ m3 = M3(m, p)
  <2>1. CASE kept < 3
    <3>1. At(m2, pdpt).to = T2(m, p)  BY <1>6 DEF T2, At
    <3> QED BY <1>6, <2>1, <3>1 DEF M3
  <2>2. CASE kept >= 3
    <3>1. kept >= 1 /\ kept >= 2  BY <1>k, <2>2
    <3> QED BY <1>k, <1>4, <1>6, <2>2, <3>1
  <2> QED BY <1>k, <2>1, <2>2
<1> HIDE DEF pd, m3
<1>8. pt = <<T3(m, p), PtIndex(p)>>  BY <1>7 DEF T3, At
<1> HIDE DEF pt
<1>9. At(m3, pt) = m3.tab[T3(m, p)][PtIndex(p)] /\ pt[1] = T3(m, p) /\ pt[2] = PtIndex(p)
  BY <1>8 DEF At
<1>10. /\ tables' = IF M3(m, p).tab[T3(m, p)][PtIndex(p)].acc THEN M3(m, p).tab
                    ELSE [M3(m, p).tab EXCEPT ![T3(m, p)][PtIndex(p)] = Leaf(p)]
       /\ last' = M3(m, p).last /\ depth' = M3(m, p).depth
  <2> DEFINE t == T3(m, p)
             i == PtIndex(p)
             n == M3(m, p)
  <2>1. /\ tables' = IF At(m3, pt).acc THEN m3.tab
                     ELSE [m3.tab EXCEPT ![pt[1]][pt[2]] = Leaf(p)]
        /\ m3 = n /\ At(m3, pt) = n.tab[t][i] /\ pt[1] = t /\ pt[2] = i
    BY <1>1, <1>7, <1>9
  <2> HIDE DEF t, i, n
  <2>2. tables' = IF n.tab[t][i].acc THEN n.tab ELSE [n.tab EXCEPT ![t][i] = Leaf(p)]
    BY <2>1
  <2> QED BY <1>1, <1>7, <2>2 DEF t, i, n
<1>11. loop' = [page |-> p + 1, left |-> loop.left - 1,
                old  |-> <<Pml4Index(p), PdptIndex(p), PdIndex(p)>>,
                pml4 |-> <<0, Pml4Index(p)>>,
                pdpt |-> <<T1(m, p), PdptIndex(p)>>,
                pd   |-> <<T2(m, p), PdIndex(p)>>]
  BY <1>1, <1>5, <1>6, <1>7
<1> QED BY <1>10, <1>11 DEF m, p

LEMMA InitInv == Init => Inv
<1> SUFFICES ASSUME Init PROVE Inv
  OBVIOUS
<1>1. MaxTable \in Nat /\ Junk \in Entry  BY ConstantsAreSane
<1>2. 0 \in Page
  <2> DEFINE top == Fan * Fan * Fan * Fan - 1
  <2>1. top \in Nat
    <3>1. Fan * Fan \in Nat \ {0}  BY ConstantsAreSane
    <3>2. Fan * Fan * Fan \in Nat \ {0}  BY <3>1, ConstantsAreSane
    <3>3. Fan * Fan * Fan * Fan \in Nat \ {0}  BY <3>2, ConstantsAreSane
    <3> QED BY <3>3
  <2> HIDE DEF top
  <2>2. 0 \in 0 .. top  BY <2>1
  <2> QED BY <2>2 DEF Page, top
<1>3. TypeOK  BY <1>1, <1>2 DEF Init, TypeOK, Table, Start
<1> QED BY <1>1, <1>3 DEF Init, Inv, Live, Range, Table

\* What an iteration leaves, in two steps: links down to the leaf entry of the
\* page, which show nothing, then the leaf unless the entry gave access already.
LEMMA MapPageStep ==
    ASSUME TypeOK, Kept, Good(Memory), MapPage, loop.page \in Page
    PROVE  LET p == loop.page
           IN  \E n :
                 /\ Good(n) /\ Upper(n, p)
                 /\ \A w \in Nat : SameAt(Memory, n, w)
                 /\ \/ E4(n, p).acc /\ Memory'.tab = n.tab
                    \/ ~ E4(n, p).acc /\ LeafWritten(n, Memory', p, Leaf(p))
                 /\ Good(Memory') /\ Upper(Memory', p)
                 /\ loop' = [page |-> p + 1, left |-> loop.left - 1,
                             old  |-> <<Pml4Index(p), PdptIndex(p), PdIndex(p)>>,
                             pml4 |-> <<0, Pml4Index(p)>>,
                             pdpt |-> <<E1(Memory', p).to, PdptIndex(p)>>,
                             pd   |-> <<E2(Memory', p).to, PdIndex(p)>>]
<1> DEFINE p == loop.page
           m == Memory
           n == M3(m, p)
           k == Memory'
           t == T3(m, p)
           i == PtIndex(p)
           leaf == Leaf(p)
<1>1. p \in Nat /\ leaf \in Entry
  <2>1. p \in Nat  BY DEF Page
  <2>2. MemoryType[p] \in Types  BY ConstantsAreSane
  <2> QED BY <2>1, <2>2 DEF Leaf, Entry
<1>2. /\ tables' = IF n.tab[t][i].acc THEN n.tab ELSE [n.tab EXCEPT ![t][i] = leaf]
      /\ last' = n.last /\ depth' = n.depth
      /\ loop' = [page |-> p + 1, left |-> loop.left - 1,
                  old  |-> <<Pml4Index(p), PdptIndex(p), PdIndex(p)>>,
                  pml4 |-> <<0, Pml4Index(p)>>,
                  pdpt |-> <<T1(m, p), PdptIndex(p)>>,
                  pd   |-> <<T2(m, p), PdIndex(p)>>]
  BY GotosSkipNothing
<1>3. k.tab = tables' /\ k.last = n.last /\ k.depth = n.depth  BY <1>2 DEF Memory
<1>g. Good(m) /\ m.last + 3 <= MaxTable  BY DEF MapPage, Memory
<1> HIDE DEF m, k, p, leaf
<1>4. /\ Good(n) /\ Upper(n, p) /\ \A w \in Nat : SameAt(m, n, w)
      /\ E1(n, p).to = T1(m, p) /\ E2(n, p).to = T2(m, p) /\ E3(n, p).to = t
  BY <1>1, <1>g, FullWalk
<1> HIDE DEF n, t
<1>5. n.last \in Nat /\ t \in 0 .. n.last /\ n.depth[t] = 3 /\ i \in Index
  BY <1>1, <1>4, WalkTables, IndexTypes
<1>6. E4(n, p) = n.tab[t][i]  BY <1>4 DEF E4
<1> HIDE DEF i
<1>7. Good(k) /\ Grows(n, k)
  <2>1. CASE n.tab[t][i].acc
    <3>1. k.tab = n.tab  BY <1>2, <1>3, <2>1
    <3> QED BY <3>1, <1>3, <1>4, <1>5 DEF Good, MemType, Down, Unshared, Grows
  <2>2. CASE ~ n.tab[t][i].acc
    <3>1. k.tab = [n.tab EXCEPT ![t][i] = leaf]  BY <1>2, <1>3, <2>2
    <3>2. Good(n) /\ k.last = n.last /\ k.depth = n.depth /\ leaf \in Entry
      BY <1>1, <1>3, <1>4
    <3> QED BY ONLY <3>1, <3>2, <2>2, <1>5, FillGood
  <2> QED BY <2>1, <2>2
<1>8. Upper(k, p) /\ E1(k, p).to = T1(m, p) /\ E2(k, p).to = T2(m, p)
  BY <1>1, <1>4, <1>7, UpperStays DEF Upper
<1>9. \/ E4(n, p).acc /\ k.tab = n.tab
      \/ ~ E4(n, p).acc /\ LeafWritten(n, k, p, leaf)
  <2>1. CASE n.tab[t][i].acc  BY <1>2, <1>3, <1>6, <2>1
  <2>2. CASE ~ n.tab[t][i].acc
    <3>1. k.tab = [n.tab EXCEPT ![t][i] = leaf]  BY <1>2, <1>3, <2>2
    <3>2. E3(n, p).to = t /\ PtIndex(p) = i  BY <1>4 DEF i
    <3> QED BY <1>6, <2>2, <3>1, <3>2 DEF LeafWritten
  <2> QED BY <2>1, <2>2
<1>10. loop' = [page |-> p + 1, left |-> loop.left - 1,
                old  |-> <<Pml4Index(p), PdptIndex(p), PdIndex(p)>>,
                pml4 |-> <<0, Pml4Index(p)>>,
                pdpt |-> <<E1(k, p).to, PdptIndex(p)>>,
                pd   |-> <<E2(k, p).to, PdIndex(p)>>]
  BY <1>2, <1>8
<1>11. \E x : /\ Good(x) /\ Upper(x, p)
              /\ \A w \in Nat : SameAt(m, x, w)
              /\ \/ E4(x, p).acc /\ k.tab = x.tab
                 \/ ~ E4(x, p).acc /\ LeafWritten(x, k, p, leaf)
  BY <1>4, <1>9
<1> QED BY <1>7, <1>8, <1>10, <1>11 DEF m, k, p, leaf

\* The model's walk of a page is the walk through Memory.
LEMMA AccessIs ==
    ASSUME NEW p \in Nat
    PROVE  /\ Accessible(p) <=> Access(Memory, p)
           /\ Access(Memory, p) => /\ LeafPtr(p) = <<E3(Memory, p).to, PtIndex(p)>>
                                   /\ Translation(p) = E4(Memory, p)
<1> DEFINE m  == Memory
           p1 == <<E3(m, p).to, PtIndex(p)>>
<1>1. LeafPtr(p) = IF Access(m, p) THEN p1 ELSE NoPtr
  BY DEF LeafPtr, Access, Upper, E1, E2, E3, E4, At
<1>2. p1 # NoPtr
  <2>1. PtIndex(p) \in Nat  BY IndexTypes, ConstantsAreSane DEF Index
  <2>2. p1[2] = PtIndex(p) /\ NoPtr[2] = -1  BY DEF NoPtr
  <2> HIDE DEF p1
  <2> QED BY <2>1, <2>2
<1>3. Accessible(p) <=> Access(m, p)  BY <1>1, <1>2 DEF Accessible
<1>4. At(m, p1) = E4(m, p)  BY DEF At, E4
<1>5. ASSUME Access(m, p) PROVE LeafPtr(p) = p1 /\ Translation(p) = E4(m, p)
  BY <1>1, <1>4, <1>5 DEF Translation
<1> QED BY <1>3, <1>5

\* Taking access from a page's leaf entry, as Restrict does.
LEMMA RestrictStep ==
    ASSUME TypeOK, Good(Memory), NEW p \in Page, Accessible(p), Restrict(p)
    PROVE  /\ Good(Memory')
           /\ ~ Access(Memory', p)
           /\ \A w \in Page : w # p => SameAt(Memory, Memory', w)
<1> DEFINE m == Memory
           k == Memory'
           t == E3(m, p).to
           i == PtIndex(p)
           e == [m.tab[t][i] EXCEPT !.acc = FALSE]
<1>0. p \in Nat  BY DEF Page
<1>1. Access(m, p) /\ LeafPtr(p) = <<t, i>>  BY <1>0, AccessIs
<1>2. LeafPtr(p)[1] = t /\ LeafPtr(p)[2] = i  BY <1>1
<1>3. tables' = [tables EXCEPT ![LeafPtr(p)[1]][LeafPtr(p)[2]].acc = FALSE]
      /\ last' = last /\ depth' = depth
  BY DEF Restrict
<1>4. k.tab = [m.tab EXCEPT ![t][i].acc = FALSE] /\ k.last = m.last /\ k.depth = m.depth
  BY <1>2, <1>3 DEF Memory
<1>5. Good(m)  OBVIOUS
<1>6. /\ t \in 0 .. m.last /\ m.depth[t] = 3 /\ i \in Index
      /\ m.last \in Nat /\ 0 .. m.last \subseteq Table /\ m.tab \in [Table -> [Index -> Entry]]
  <2>1. t \in 0 .. m.last /\ m.depth[t] = 3 /\ i \in Index /\ m.last \in Nat
    BY <1>0, <1>1, <1>5, WalkTables, IndexTypes DEF Access
  <2>2. 0 .. m.last \subseteq Table /\ m.tab \in [Table -> [Index -> Entry]]
    BY <1>5, ConstantsAreSane DEF Good, MemType, Table
  <2> QED BY <2>1, <2>2
<1>7. PtIndex(p) = i /\ E3(m, p).to = t  OBVIOUS
<1> HIDE DEF m, k, t, i
<1>8. k.tab = [m.tab EXCEPT ![t][i] = e]  BY <1>4, <1>6
<1>9. e \in Entry /\ ~ e.acc
  <2>1. m.tab[t][i] \in Entry  BY <1>6
  <2> QED BY <2>1 DEF Entry
<1> HIDE DEF e
<1>10. k.tab \in [Table -> [Index -> Entry]]  BY <1>6, <1>8, <1>9
<1>11. \A u \in 0 .. m.last : m.depth[u] < 3 => \A j \in Index : k.tab[u][j] = m.tab[u][j]
  BY <1>6, <1>8
<1>12. Down(k) /\ Unshared(k)  BY <1>4, <1>5, <1>11 DEF Down, Unshared, Good
<1>13. Good(k)  BY <1>4, <1>5, <1>10, <1>12 DEF Good, MemType
<1>14. LeafWritten(m, k, p, e)  BY <1>7, <1>8 DEF LeafWritten
<1>15. E4(k, p) = e /\ \A w \in Page : w # p => SameAt(m, k, w)
  BY <1>1, <1>5, <1>14, LeafEdit DEF Access
<1> QED BY <1>9, <1>13, <1>15 DEF Access, m, k

LEMMA NextInv == Inv /\ [Next]_vars => Inv'
<1> SUFFICES ASSUME Inv, [Next]_vars PROVE Inv'
  OBVIOUS
<1>t. TypeOK  BY DEF Inv
<1>0. /\ MaxTable \in Nat /\ KernelPage \in Nat /\ KernelPages \in Nat /\ KernelEnd \in Nat
      /\ PagesIn(max) \in Nat
  <2>1. max \in Nat /\ PageSize \in Nat \ {0}  BY <1>t, ConstantsAreSane DEF TypeOK
  <2> QED BY <2>1, ConstantsAreSane DEF KernelEnd, PagesIn
\* A step that leaves the tables alone keeps them good.
<1>same. ASSUME UNCHANGED <<tables, last, depth>>  PROVE Memory' = Memory
  BY <1>same DEF Memory
<1>1. CASE EptInitialization
  <2>1. /\ stage = "off" /\ stage' = "low" /\ loop' = Start(0, KernelPage)
        /\ tables' = [tables EXCEPT ![0] = Cleared]
        /\ last' = last /\ depth' = depth /\ max' = max /\ ecam' = ecam
    BY <1>1 DEF EptInitialization
  <2>2. last = 0 /\ depth[0] = 0  BY <2>1 DEF Inv, Live
  <2>3. Cleared \in [Index -> Entry]  BY DEF Cleared, Entry, Zero, Types
  <2>4. TypeOK'  BY <1>t, <1>0, <2>1, <2>3 DEF TypeOK, Start
  <2>5. \A i \in Index : ~ tables'[0][i].acc
    BY <1>t, <1>0, <2>1 DEF TypeOK, Table, Cleared, Zero
  <2>6. Memory'.tab = tables' /\ Memory'.last = 0 /\ Memory'.depth = depth
    BY <2>1, <2>2 DEF Memory
  <2>7. MemType(Memory')  BY <2>1, <2>2, <2>4, <2>6 DEF MemType, TypeOK
  <2>8. Down(Memory') /\ Unshared(Memory')  BY <2>5, <2>6 DEF Down, Unshared
  <2>10. Good(Memory')  BY <2>2, <2>6, <2>7, <2>8 DEF Good
  <2>11. Kept' /\ Range'  BY <2>1, <1>0 DEF Kept, Range, Start
  <2> QED BY <2>1, <2>4, <2>10, <2>11 DEF Inv, Live
<1>2. CASE MapPage
  <2> DEFINE p == loop.page
  <2>1. /\ stage \in {"low", "high"} /\ loop.left > 0
        /\ max' = max /\ ecam' = ecam /\ stage' = stage
    BY <1>2 DEF MapPage
  <2>2. p \in Page /\ loop.page \in Nat /\ loop.left \in Nat /\ Good(Memory) /\ Kept
    BY <1>t, <2>1, PageToMap DEF Inv, Live, TypeOK
  <2>3. /\ Good(Memory') /\ Upper(Memory', p)
        /\ loop' = [page |-> p + 1, left |-> loop.left - 1,
                    old  |-> <<Pml4Index(p), PdptIndex(p), PdIndex(p)>>,
                    pml4 |-> <<0, Pml4Index(p)>>,
                    pdpt |-> <<E1(Memory', p).to, PdptIndex(p)>>,
                    pd   |-> <<E2(Memory', p).to, PdIndex(p)>>]
    BY <1>2, <1>t, <2>2, MapPageStep
  <2>4. /\ loop'.page = p + 1 /\ loop'.left = loop.left - 1
        /\ loop'.old  = <<Pml4Index(p), PdptIndex(p), PdIndex(p)>>
        /\ loop'.pml4 = <<0, Pml4Index(p)>>
        /\ loop'.pdpt = <<E1(Memory', p).to, PdptIndex(p)>>
        /\ loop'.pd   = <<E2(Memory', p).to, PdIndex(p)>>
    BY <2>3
  <2>5. loop'.page \in Nat /\ loop'.left \in Nat /\ loop'.page - 1 = p
    BY <2>1, <2>2, <2>4
  <2>6. Kept'
    <3> DEFINE q == loop'.page - 1
    <3>1. q = p /\ q \in Nat  BY <2>2, <2>5
    <3> HIDE DEF q
    <3>2. /\ q \in Nat
          /\ Upper(Memory', q)
          /\ loop'.old  = <<Pml4Index(q), PdptIndex(q), PdIndex(q)>>
          /\ loop'.pml4 = <<0, Pml4Index(q)>>
          /\ loop'.pdpt = <<E1(Memory', q).to, PdptIndex(q)>>
          /\ loop'.pd   = <<E2(Memory', q).to, PdIndex(q)>>
      BY <2>3, <2>4, <3>1
    <3> QED BY <3>2 DEF Kept, q
  <2>7. TypeOK'
    <3>1. tables' \in [Table -> [Index -> Entry]] /\ last' \in Table /\ depth' \in [Table -> 0 .. 3]
      BY <2>3 DEF Good, MemType, Memory
    <3> QED BY <1>t, <2>1, <2>5, <3>1 DEF TypeOK
  <2>8. Range'
    <3>1. PagesIn(max)' = PagesIn(max)  BY <2>1 DEF PagesIn
    <3>2. CASE stage = "low"
      BY <3>1, <3>2, <2>1, <2>2, <2>4, <1>0 DEF Inv, Range
    <3>3. CASE stage = "high"
      BY <3>1, <3>3, <2>1, <2>2, <2>4, <1>0 DEF Inv, Range
    <3> QED BY <3>2, <3>3, <2>1
  <2> QED BY <2>1, <2>3, <2>6, <2>7, <2>8 DEF Inv, Live
<1>3. CASE MapAboveKernel
  <2>1. /\ stage = "low" /\ stage' = "high" /\ loop' = Start(KernelEnd, PagesIn(max))
        /\ UNCHANGED <<tables, last, depth, max, ecam>>
    BY <1>3 DEF MapAboveKernel
  <2>2. TypeOK'  BY <1>t, <1>0, <2>1 DEF TypeOK, Start
  <2>3. Good(Memory')  BY <2>1, <1>same DEF Inv, Live
  <2>4. Kept' /\ Range'  BY <2>1, <1>0 DEF Kept, Range, Start, PagesIn
  <2> QED BY <2>1, <2>2, <2>3, <2>4 DEF Inv, Live
<1>4. CASE MapReturn
  <2>1. /\ stage = "high" /\ stage' = "mapped"
        /\ UNCHANGED <<tables, last, depth, loop, max, ecam>>
    BY <1>4 DEF MapReturn
  <2>2. TypeOK'  BY <1>t, <2>1 DEF TypeOK
  <2>3. Good(Memory')  BY <2>1, <1>same DEF Inv, Live
  <2> QED BY <2>1, <2>2, <2>3 DEF Inv, Live, Range
<1>5. CASE \E p \in EcamPages : Restrict(p)
  <2> PICK p \in EcamPages : Restrict(p)  BY <1>5
  <2>1. /\ stage = "mapped" /\ stage' = "restricted" /\ ecam' = p
        /\ UNCHANGED <<last, depth, loop, max>>
        /\ tables' = IF Accessible(p)
                     THEN [tables EXCEPT ![LeafPtr(p)[1]][LeafPtr(p)[2]].acc = FALSE]
                     ELSE tables
    BY DEF Restrict
  <2>2. p \in Page /\ p \in Nat  BY ConstantsAreSane DEF Page
  <2>3. Good(Memory)  BY <2>1 DEF Inv, Live
  <2>4. CASE ~ Accessible(p)
    <3>1. tables' = tables  BY <2>1, <2>4
    <3>2. TypeOK'  BY <1>t, <2>1, <2>2, <3>1 DEF TypeOK
    <3>3. Good(Memory')  BY <2>1, <2>3, <3>1, <1>same
    <3> QED BY <2>1, <3>2, <3>3 DEF Inv, Live, Range
  <2>5. CASE Accessible(p)
    <3>1. Good(Memory')  BY <1>t, <2>2, <2>3, <2>5, RestrictStep
    <3>2. tables' \in [Table -> [Index -> Entry]]
      BY <3>1 DEF Good, MemType, Memory
    <3>3. TypeOK'  BY <1>t, <2>1, <2>2, <3>2 DEF TypeOK
    <3> QED BY <2>1, <3>1, <3>3 DEF Inv, Live, Range
  <2> QED BY <2>4, <2>5
<1>6. CASE RestrictFails
  <2>1. /\ stage = "mapped" /\ stage' = "open"
        /\ UNCHANGED <<tables, last, depth, loop, max, ecam>>
    BY <1>6 DEF RestrictFails
  <2>2. TypeOK'  BY <1>t, <2>1 DEF TypeOK
  <2>3. Good(Memory')  BY <2>1, <1>same DEF Inv, Live
  <2> QED BY <2>1, <2>2, <2>3 DEF Inv, Live, Range
<1>7. CASE UNCHANGED vars
  <2>1. UNCHANGED <<tables, last, depth, loop, max, ecam, stage>>  BY <1>7 DEF vars
  <2>2. Memory' = Memory  BY <2>1, <1>same
  <2> QED BY <2>1, <2>2 DEF Inv, TypeOK, Live, Kept, Range, PagesIn
<1> QED BY <1>1, <1>2, <1>3, <1>4, <1>5, <1>6, <1>7 DEF Next

LEMMA AlwaysInv == Spec => []Inv
BY InitInv, NextInv, PTL DEF Spec

---------------------------------------------------------------------------
(* What a step does to the pages *)

\* Clearing the PML4 hides every page, whatever the RAM held before.
LEMMA EptInitializationView ==
    ASSUME TypeOK, EptInitialization, NEW p \in Page
    PROVE  ~ Access(Memory', p)
<1>1. Pml4Index(p) \in Index  BY IndexTypes DEF Page
<1>2. 0 \in Table  BY ConstantsAreSane DEF Table
<1>3. tables'[0] = Cleared  BY <1>2 DEF EptInitialization, TypeOK
<1>4. Memory'.tab = tables'  BY DEF Memory
<1>5. ~ E1(Memory', p).acc  BY <1>1, <1>3, <1>4 DEF E1, Cleared, Zero
<1> QED BY <1>5 DEF Access, Upper

\* An iteration gives its page, if it was not given already, and no other.
LEMMA MapPageView ==
    ASSUME Inv, MapPage
    PROVE  LET p == loop.page
           IN  /\ p \in Page /\ p \notin Kernel
               /\ Access(Memory', p)
               /\ E4(Memory', p) = IF Access(Memory, p) THEN E4(Memory, p) ELSE Leaf(p)
               /\ \A w \in Page : w # p => SameAt(Memory, Memory', w)
<1> DEFINE p == loop.page
           m == Memory
           k == Memory'
           leaf == Leaf(p)
<1>1. /\ stage \in {"low", "high"} /\ loop.left > 0 /\ TypeOK /\ Good(m) /\ Kept
      /\ p \in Page /\ p \notin Kernel /\ p \in Nat
  BY PageToMap DEF MapPage, Inv, Live, TypeOK
<1>2. PICK n : /\ Good(n) /\ Upper(n, p)
               /\ \A w \in Nat : SameAt(m, n, w)
               /\ \/ E4(n, p).acc /\ k.tab = n.tab
                  \/ ~ E4(n, p).acc /\ LeafWritten(n, k, p, leaf)
               /\ Upper(k, p)
  BY <1>1, MapPageStep
<1>3. leaf.acc  BY DEF Leaf
<1>4. \A w \in Page : w \in Nat  BY DEF Page
<1> HIDE DEF m, k, p, leaf
<1>5. SameAt(m, n, p)  BY <1>1, <1>2
<1>6. CASE E4(n, p).acc
  <2>1. k.tab = n.tab  BY <1>2, <1>6
  <2>2. \A w : E1(k, w) = E1(n, w) /\ E2(k, w) = E2(n, w) /\ E3(k, w) = E3(n, w) /\ E4(k, w) = E4(n, w)
    BY <2>1 DEF E1, E2, E3, E4
  <2>3. \A w \in Nat : SameAt(m, k, w)  BY <1>2, <2>2 DEF SameAt, Access, Upper
  <2>4. Access(n, p)  BY <1>2, <1>6 DEF Access
  <2>5. Access(m, p) /\ Access(k, p)  BY <1>5, <1>1, <2>3, <2>4 DEF SameAt
  <2> QED BY <1>1, <1>4, <2>3, <2>5 DEF SameAt, m, k, p, leaf
<1>7. CASE ~ E4(n, p).acc
  <2>1. /\ Upper(k, p) /\ E4(k, p) = leaf
        /\ \A w \in Page : w # p => SameAt(n, k, w)
    BY <1>1, <1>2, <1>7, LeafEdit
  <2>2. ~ Access(m, p)  BY <1>5, <1>7 DEF SameAt, Access
  <2>3. \A w \in Page : w # p => SameAt(m, k, w)
    BY <1>2, <1>4, <2>1 DEF SameAt
  <2>4. Access(k, p)  BY <1>3, <2>1 DEF Access
  <2> QED BY <1>1, <2>1, <2>2, <2>3, <2>4 DEF m, k, p, leaf
<1> QED BY <1>6, <1>7

---------------------------------------------------------------------------
(* The pages the guest has *)

\* Those the loops have passed, without the reserved port's page at the end.
GivenPages ==
    CASE stage = "low"  -> 0 .. loop.page - 1
      [] stage = "high" -> (0 .. KernelPage - 1) \cup (KernelEnd .. loop.page - 1)
      [] stage = "restricted" -> Promised \ {ecam}
      [] OTHER -> Promised

Given ==
    Live => \A p \in Page : /\ Access(Memory, p) <=> p \in GivenPages
                            /\ Access(Memory, p) => E4(Memory, p) = Leaf(p)

LEMMA InitGiven == Init => Given
BY DEF Init, Live, Given

LEMMA NextGiven == Inv /\ Inv' /\ Given /\ [Next]_vars => Given'
<1> SUFFICES ASSUME Inv, Inv', Given, [Next]_vars PROVE Given'
  OBVIOUS
<1>t. TypeOK  BY DEF Inv
<1>0. /\ KernelPage \in Nat /\ KernelEnd \in Nat /\ PagesIn(max) \in Nat /\ KernelEnd >= KernelPage
      /\ loop.page \in Nat /\ loop.left \in Nat
  <2>1. /\ max \in Nat /\ PageSize \in Nat \ {0} /\ KernelPage \in Nat /\ KernelPages \in Nat
        /\ loop.page \in Nat /\ loop.left \in Nat
    BY <1>t, ConstantsAreSane DEF TypeOK
  <2> QED BY <2>1 DEF KernelEnd, PagesIn
<1>p. \A p \in Page : p \in Nat  BY DEF Page
\* A step that leaves the tables alone need only name the same pages.
<1>same. ASSUME UNCHANGED <<tables, last, depth>>, Live, GivenPages' = GivenPages PROVE Given'
  <2>1. Memory' = Memory  BY <1>same DEF Memory
  <2> QED BY <2>1, <1>same DEF Given
<1>1. CASE EptInitialization
  <2>1. stage' = "low" /\ loop'.page = 0  BY <1>1 DEF EptInitialization, Start
  <2>2. GivenPages' = {}  BY <2>1 DEF GivenPages
  <2>3. \A p \in Page : ~ Access(Memory', p)  BY <1>1, <1>t, EptInitializationView
  <2> QED BY <2>2, <2>3 DEF Given
<1>2. CASE MapPage
  <2> DEFINE p == loop.page
  <2>1. /\ p \in Page /\ Access(Memory', p)
        /\ E4(Memory', p) = IF Access(Memory, p) THEN E4(Memory, p) ELSE Leaf(p)
        /\ \A w \in Page : w # p => SameAt(Memory, Memory', w)
    BY <1>2, MapPageView
  <2>2. /\ stage \in {"low", "high"} /\ stage' = stage /\ loop'.page = p + 1 /\ Live
    BY <1>2 DEF MapPage, Live
  <2>3. GivenPages' = GivenPages \cup {p}
    <3>1. CASE stage = "low"
      <4>1. 0 .. p = (0 .. p - 1) \cup {p}  BY <1>0
      <4>2. p + 1 - 1 = p  BY <1>0
      <4> QED BY <3>1, <2>2, <4>1, <4>2 DEF GivenPages
    <3>2. CASE stage = "high"
      <4>1. p >= KernelEnd  BY <3>2 DEF Inv, Range
      <4>2. KernelEnd .. p = (KernelEnd .. p - 1) \cup {p}  BY <1>0, <4>1
      <4>3. p + 1 - 1 = p  BY <1>0
      <4> QED BY <3>2, <2>2, <4>2, <4>3 DEF GivenPages
    <3> QED BY <3>1, <3>2, <2>2
  <2>4. ASSUME NEW w \in Page
        PROVE  /\ Access(Memory', w) <=> w \in GivenPages \cup {p}
               /\ Access(Memory', w) => E4(Memory', w) = Leaf(w)
    <3>1. /\ Access(Memory, w) <=> w \in GivenPages
          /\ Access(Memory, w) => E4(Memory, w) = Leaf(w)
      BY <2>2 DEF Given
    <3>2. CASE w = p  BY <3>1, <3>2, <2>1
    <3>3. CASE w # p  BY <3>1, <3>3, <2>1 DEF SameAt
    <3> QED BY <3>2, <3>3
  <2> QED BY <2>3, <2>4 DEF Given
<1>3. CASE MapAboveKernel
  <2>1. /\ stage = "low" /\ stage' = "high" /\ loop.left = 0 /\ loop'.page = KernelEnd
        /\ UNCHANGED <<tables, last, depth>>
    BY <1>3 DEF MapAboveKernel, Start
  <2>2. loop.page = KernelPage  BY <1>0, <2>1 DEF Inv, Range
  <2>3. KernelEnd .. KernelEnd - 1 = {}  BY <1>0
  <2>4. GivenPages' = GivenPages  BY <2>1, <2>2, <2>3 DEF GivenPages
  <2> QED BY <2>1, <2>4, <1>same DEF Live
<1>4. CASE MapReturn
  <2>1. /\ stage = "high" /\ stage' = "mapped" /\ loop.left = 0 /\ max' = max
        /\ UNCHANGED <<tables, last, depth>>
    BY <1>4 DEF MapReturn
  <2>2. loop.page = KernelEnd + PagesIn(max)  BY <1>0, <2>1 DEF Inv, Range
  <2>3. GivenPages' = GivenPages
    <3>1. Promised' = Promised  BY <2>1 DEF Promised, PagesIn
    <3>2. GivenPages' = Promised'  BY <2>1 DEF GivenPages
    <3>3. GivenPages = (0 .. KernelPage - 1) \cup (KernelEnd .. loop.page - 1)
      BY <2>1 DEF GivenPages
    <3>4. GivenPages = Promised
      <4> DEFINE a == loop.page
                 b == KernelEnd + PagesIn(max)
      <4>1. a = b  BY <2>2
      <4>2. GivenPages = (0 .. KernelPage - 1) \cup (KernelEnd .. a - 1)  BY <3>3
      <4> HIDE DEF a, b
      <4>3. GivenPages = (0 .. KernelPage - 1) \cup (KernelEnd .. b - 1)  BY <4>1, <4>2
      <4>4. b - 1 = KernelEnd + PagesIn(max) - 1  BY <1>0 DEF b
      <4> QED BY <4>3, <4>4 DEF Promised
    <3> QED BY <3>1, <3>2, <3>4
  <2> QED BY <2>1, <2>3, <1>same DEF Live
<1>5. CASE \E p \in EcamPages : Restrict(p)
  <2> PICK p \in EcamPages : Restrict(p)  BY <1>5
  <2>1. stage = "mapped" /\ stage' = "restricted" /\ ecam' = p /\ max' = max /\ Live
    BY DEF Restrict, Live
  <2>2. p \in Page  BY ConstantsAreSane
  <2>3. Good(Memory)  BY <2>1 DEF Inv
  <2>4. GivenPages = Promised /\ GivenPages' = Promised \ {p}
    BY <2>1 DEF GivenPages, Promised, PagesIn
  <2>5. CASE ~ Accessible(p)
    <3>1. UNCHANGED <<tables, last, depth>>  BY <2>5 DEF Restrict
    <3>2. p \notin Promised  BY <2>1, <2>2, <2>4, <2>5, <1>p, AccessIs DEF Given
    <3>3. GivenPages' = GivenPages  BY <2>4, <3>2
    <3> QED BY <2>1, <3>1, <3>3, <1>same
  <2>6. CASE Accessible(p)
    <3>1. ~ Access(Memory', p) /\ \A w \in Page : w # p => SameAt(Memory, Memory', w)
      BY <1>t, <2>2, <2>3, <2>6, RestrictStep
    <3>2. ASSUME NEW w \in Page
          PROVE  /\ Access(Memory', w) <=> w \in Promised \ {p}
                 /\ Access(Memory', w) => E4(Memory', w) = Leaf(w)
      <4>1. /\ Access(Memory, w) <=> w \in Promised
            /\ Access(Memory, w) => E4(Memory, w) = Leaf(w)
        BY <2>1, <2>4 DEF Given
      <4>2. CASE w = p  BY <4>2, <3>1
      <4>3. CASE w # p  BY <4>1, <4>3, <3>1 DEF SameAt
      <4> QED BY <4>2, <4>3
    <3> QED BY <2>4, <3>2 DEF Given
  <2> QED BY <2>5, <2>6
<1>6. CASE RestrictFails
  <2>1. /\ stage = "mapped" /\ stage' = "open" /\ max' = max /\ UNCHANGED <<tables, last, depth>>
    BY <1>6 DEF RestrictFails
  <2>2. GivenPages' = GivenPages  BY <2>1 DEF GivenPages, Promised, PagesIn
  <2> QED BY <2>1, <2>2, <1>same DEF Live
<1>7. CASE UNCHANGED vars
  <2>1. UNCHANGED <<tables, last, depth, loop, max, ecam, stage>>  BY <1>7 DEF vars
  <2>2. GivenPages' = GivenPages  BY <2>1 DEF GivenPages, Promised, PagesIn
  <2> QED BY <2>1, <2>2, <1>same DEF Live, Given
<1> QED BY <1>1, <1>2, <1>3, <1>4, <1>5, <1>6, <1>7 DEF Next

LEMMA AlwaysGiven == Spec => [](Inv /\ Given)
<1>1. Init => Inv /\ Given  BY InitInv, InitGiven
<1>2. (Inv /\ Given) /\ [Next]_vars => (Inv /\ Given)'  BY NextInv, NextGiven
<1> QED BY <1>1, <1>2, PTL DEF Spec

---------------------------------------------------------------------------
(* The theorems about states *)

\* Every variable keeps its type; the allocator stays inside its bound.
THEOREM TypesCorrect == Spec => []TypeOK
<1>1. Inv => TypeOK  BY DEF Inv
<1> QED BY <1>1, AlwaysInv, PTL

\* The extended page tables are a tree at every point of the boot.
THEOREM TablesStayATree == Spec => []TablesAreATree
<1>1. Inv => TablesAreATree
  BY DEF Inv, TablesAreATree, Good, Down, Unshared, Memory
<1> QED BY <1>1, AlwaysInv, PTL

\* Until the mapping is done only pages the loops have passed are given, and
\* these are not the hypervisor's; nor are the promised ones.
LEMMA GivenIsNotKernel ==
    ASSUME Inv, Live, NEW p \in GivenPages
    PROVE  p \notin Kernel
<1>0. /\ KernelPage \in Nat /\ KernelEnd \in Nat /\ PagesIn(max) \in Nat
      /\ loop.page \in Nat /\ loop.left \in Nat
  <2>1. /\ max \in Nat /\ PageSize \in Nat \ {0} /\ KernelPage \in Nat /\ KernelPages \in Nat
        /\ loop.page \in Nat /\ loop.left \in Nat
    BY ConstantsAreSane DEF Inv, TypeOK
  <2> QED BY <2>1 DEF KernelEnd, PagesIn
<1>1. CASE stage = "low"
  <2>1. loop.page <= KernelPage  BY <1>0, <1>1 DEF Inv, Range
  <2>2. p \in 0 .. loop.page - 1  BY <1>1 DEF GivenPages
  <2> QED BY <1>0, <2>1, <2>2 DEF Kernel
<1>2. CASE stage = "high"
  <2>1. p \in 0 .. KernelPage - 1 \/ p \in KernelEnd .. loop.page - 1
    BY <1>2 DEF GivenPages
  <2> QED BY <1>0, <2>1 DEF Kernel
<1>3. CASE stage \notin {"low", "high"}
  <2>1. p \in Promised  BY <1>3 DEF GivenPages
  <2> QED BY <1>0, <2>1 DEF Promised, Kernel
<1> QED BY <1>1, <1>2, <1>3

\* No guest-physical page is ever translated to the hypervisor's memory.
THEOREM HypervisorStaysHidden == Spec => []HypervisorIsHidden
<1>1. Inv /\ Given => HypervisorIsHidden
  <2> SUFFICES ASSUME Inv, Given, Live, NEW p \in Page, Accessible(p)
               PROVE  Translation(p).to \notin KernelPage .. KernelEnd - 1
    BY DEF HypervisorIsHidden
  <2>1. p \in Nat  BY DEF Page
  <2>2. Access(Memory, p) /\ Translation(p) = E4(Memory, p)  BY <2>1, AccessIs
  <2>3. p \in GivenPages /\ Translation(p) = Leaf(p)  BY <2>2 DEF Given
  <2>4. Translation(p).to = p  BY <2>3 DEF Leaf
  <2> QED BY <2>3, <2>4, GivenIsNotKernel DEF Kernel
<1> QED BY <1>1, AlwaysGiven, PTL

\* When the mapping is done the guest has exactly the pages it was promised, each
\* at its own address and with its MTRR type; after the restriction exactly the
\* page of the reserved port is missing.
THEOREM MemoryIsDelivered == Spec => []GuestHasItsMemory
<1>1. Given => GuestHasItsMemory
  <2> SUFFICES ASSUME Given, stage \in {"mapped", "restricted", "open"}, NEW p \in Page
               PROVE  /\ Accessible(p) <=> p \in Promised /\ ~ (stage = "restricted" /\ p = ecam)
                      /\ Accessible(p) => Translation(p) = Leaf(p)
    BY DEF GuestHasItsMemory
  <2>1. p \in Nat /\ Live  BY DEF Page, Live
  <2>2. /\ Access(Memory, p) <=> p \in GivenPages
        /\ Access(Memory, p) => E4(Memory, p) = Leaf(p)
    BY <2>1 DEF Given
  <2>3. p \in GivenPages <=> p \in Promised /\ ~ (stage = "restricted" /\ p = ecam)
    <3>1. CASE stage = "restricted"
      <4>1. GivenPages = Promised \ {ecam}  BY <3>1 DEF GivenPages
      <4> QED BY <3>1, <4>1
    <3>2. CASE stage # "restricted"
      <4>1. GivenPages = Promised  BY <3>2 DEF GivenPages
      <4> QED BY <3>2, <4>1
    <3> QED BY <3>1, <3>2
  <2> QED BY <2>1, <2>2, <2>3, AccessIs
<1> QED BY <1>1, AlwaysGiven, PTL

---------------------------------------------------------------------------
(* The refinement: every step gives one page, takes one, or shows nothing. *)

LEMMA ViewIs ==
    ASSUME NEW p \in Page
    PROVE  /\ View[p] = IF Live /\ Access(Memory, p)
                        THEN [frame |-> E4(Memory, p).to, type |-> E4(Memory, p).type]
                        ELSE Guest!Nothing
           /\ View'[p] = IF Live' /\ Access(Memory', p)
                         THEN [frame |-> E4(Memory', p).to, type |-> E4(Memory', p).type]
                         ELSE Guest!Nothing
<1>0. p \in Nat  BY DEF Page
<1>1. View[p] = IF Live /\ Accessible(p)
                THEN [frame |-> Translation(p).to, type |-> Translation(p).type]
                ELSE Guest!Nothing
  BY DEF View, Guest!Nothing
<1>2. View'[p] = IF Live' /\ Accessible(p)'
                 THEN [frame |-> Translation(p)'.to, type |-> Translation(p)'.type]
                 ELSE Guest!Nothing
  BY DEF View, Guest!Nothing
<1>3. /\ Accessible(p) <=> Access(Memory, p)
      /\ Access(Memory, p) => Translation(p) = E4(Memory, p)
  BY <1>0, AccessIs
<1> DEFINE k  == Memory'
           p1 == <<E3(k, p).to, PtIndex(p)>>
<1>4. /\ LeafPtr(p)' = IF Access(k, p) THEN p1 ELSE NoPtr
      /\ Translation(p)' = At(k, LeafPtr(p)')
      /\ Accessible(p)' <=> LeafPtr(p)' # NoPtr
  BY DEF LeafPtr, Access, Upper, E1, E2, E3, E4, At, Translation, Accessible
<1>5. p1 # NoPtr
  <2>1. PtIndex(p) \in Nat  BY <1>0, IndexTypes, ConstantsAreSane DEF Index
  <2>2. p1[2] = PtIndex(p) /\ NoPtr[2] = -1  BY DEF NoPtr
  <2> HIDE DEF p1
  <2> QED BY <2>1, <2>2
<1>6. At(k, p1) = E4(k, p)  BY DEF At, E4
<1>7. /\ Accessible(p)' <=> Access(k, p)
      /\ Access(k, p) => Translation(p)' = E4(k, p)
  <2> HIDE DEF p1, k
  <2> QED BY <1>4, <1>5, <1>6
<1> QED BY <1>1, <1>2, <1>3, <1>7

LEMMA ViewTypes ==
    /\ View = [p \in Page |-> View[p]]
    /\ View' = [p \in Page |-> View'[p]]
BY DEF View

\* A page that gives access is never mistaken for nothing.
LEMMA GivenIsNotNothing ==
    ASSUME Given, NEW p \in Page
    PROVE  (Live /\ Access(Memory, p)) <=> View[p] # Guest!Nothing
<1>1. ASSUME Live, Access(Memory, p) PROVE View[p] # Guest!Nothing
  <2> DEFINE e == E4(Memory, p)
             s == View[p]
  <2>1. e = Leaf(p)  BY <1>1 DEF Given
  <2>2. e.to = p  BY <2>1 DEF Leaf
  <2>3. s = [frame |-> e.to, type |-> e.type]  BY <1>1, ViewIs
  <2>4. p # -1  BY DEF Page
  <2> HIDE DEF e, s
  <2>5. s # Guest!Nothing  BY <2>2, <2>3, <2>4 DEF Guest!Nothing
  <2> QED BY <2>5 DEF s
<1> QED BY <1>1, ViewIs

LEMMA SameIsSame ==
    ASSUME NEW p \in Page, Live, Live', SameAt(Memory, Memory', p)
    PROVE  View'[p] = View[p]
BY ViewIs DEF SameAt

LEMMA InitRefines == Init => Guest!Init
<1> SUFFICES ASSUME Init PROVE Guest!Init
  OBVIOUS
<1>1. ~ Live  BY DEF Init, Live
<1>2. View = [p \in Page |-> Guest!Nothing]  BY <1>1 DEF View, Guest!Nothing
<1> QED BY <1>2 DEF Guest!Init

LEMMA NextRefines ==
    Inv /\ Inv' /\ Given /\ Given' /\ [Next]_vars
        => [\E p \in Page : Guest!Give(p) \/ Guest!Take(p)]_View
<1> SUFFICES ASSUME Inv, Inv', Given, Given', [Next]_vars
             PROVE  (\E p \in Page : Guest!Give(p) \/ Guest!Take(p)) \/ UNCHANGED View
  OBVIOUS
<1>t. TypeOK  BY DEF Inv
<1>eq. ASSUME \A p \in Page : View'[p] = View[p]  PROVE UNCHANGED View
  <2> DEFINE s == View
             t == View'
  <2>1. s = [p \in Page |-> s[p]] /\ t = [p \in Page |-> t[p]]
        /\ \A p \in Page : t[p] = s[p]
    BY <1>eq, ViewTypes
  <2> HIDE DEF s, t
  <2>2. t = s  BY <2>1
  <2> QED BY <2>2 DEF s, t
<1>same. ASSUME UNCHANGED <<tables, last, depth>>, Live' <=> Live  PROVE UNCHANGED View
  <2>1. Memory' = Memory  BY <1>same DEF Memory
  <2>2. \A p \in Page : View'[p] = View[p]  BY <2>1, <1>same, ViewIs
  <2> QED BY <2>2, <1>eq
<1>1. CASE EptInitialization
  <2>1. ~ Live  BY <1>1 DEF EptInitialization, Live
  <2>2. \A p \in Page : ~ Access(Memory', p)  BY <1>1, <1>t, EptInitializationView
  <2>3. \A p \in Page : View'[p] = View[p]  BY <2>1, <2>2, ViewIs
  <2> QED BY <2>3, <1>eq
<1>2. CASE MapPage
  <2> DEFINE p == loop.page
  <2>1. /\ p \in Page /\ p \notin Kernel /\ Access(Memory', p)
        /\ E4(Memory', p) = IF Access(Memory, p) THEN E4(Memory, p) ELSE Leaf(p)
        /\ \A w \in Page : w # p => SameAt(Memory, Memory', w)
    BY <1>2, MapPageView
  <2>2. Live /\ Live'  BY <1>2 DEF MapPage, Live
  <2>3. \A w \in Page : w # p => View'[w] = View[w]  BY <2>1, <2>2, SameIsSame
  <2>4. CASE Access(Memory, p)
    <3>1. View'[p] = View[p]  BY <2>1, <2>2, <2>4, ViewIs
    <3>2. \A w \in Page : View'[w] = View[w]  BY <2>3, <3>1
    <3> QED BY <3>2, <1>eq
  <2>5. CASE ~ Access(Memory, p)
    <3> DEFINE f == [frame |-> p, type |-> MemoryType[p]]
               e == E4(Memory', p)
               s == View
               t == View'
    <3>1. s[p] = Guest!Nothing  BY <2>1, <2>5, ViewIs
    <3>2. t[p] = [frame |-> e.to, type |-> e.type]  BY <2>1, <2>2, ViewIs
    <3>3. e = Leaf(p)  BY <2>1, <2>5
    <3>4. e.to = p /\ e.type = MemoryType[p]
      <4> HIDE DEF e
      <4> QED BY <3>3 DEF Leaf
    <3>5. t[p] = f
      <4> HIDE DEF e, t
      <4> QED BY <3>2, <3>4
    <3>6. /\ s = [w \in Page |-> s[w]] /\ t = [w \in Page |-> t[w]] /\ p \in Page
          /\ \A w \in Page : w # p => t[w] = s[w]
      BY <2>1, <2>3, ViewTypes
    <3>7. t = [s EXCEPT ![p] = f]
      <4> HIDE DEF s, t, f, p
      <4> QED BY <3>5, <3>6
    <3>8. Guest!Give(p)  BY <2>1, <3>1, <3>7 DEF Guest!Give, Kernel
    <3> QED BY <2>1, <3>8
  <2> QED BY <2>4, <2>5
<1>3. CASE MapAboveKernel  BY <1>3, <1>same DEF MapAboveKernel, Live
<1>4. CASE MapReturn  BY <1>4, <1>same DEF MapReturn, Live
<1>5. CASE \E p \in EcamPages : Restrict(p)
  <2> PICK p \in EcamPages : Restrict(p)  BY <1>5
  <2>1. p \in Page /\ p \in Nat  BY ConstantsAreSane DEF Page
  <2>2. Live /\ Live'  BY DEF Restrict, Live
  <2>3. CASE ~ Accessible(p)
    <3>1. UNCHANGED <<tables, last, depth>>  BY <2>3 DEF Restrict
    <3> QED BY <2>2, <3>1, <1>same
  <2>4. CASE Accessible(p)
    <3>1. Good(Memory) /\ Access(Memory, p)  BY <2>1, <2>2, <2>4, AccessIs DEF Inv
    <3>2. ~ Access(Memory', p) /\ \A w \in Page : w # p => SameAt(Memory, Memory', w)
      BY <1>t, <2>1, <2>4, <3>1, RestrictStep
    <3>3. \A w \in Page : w # p => View'[w] = View[w]  BY <2>2, <3>2, SameIsSame
    <3>4. View'[p] = Guest!Nothing  BY <2>1, <3>2, ViewIs
    <3>5. View[p] # Guest!Nothing  BY <2>1, <2>2, <3>1, GivenIsNotNothing
    <3>6. View' = [View EXCEPT ![p] = Guest!Nothing]
      <4> DEFINE s == View
                 t == View'
                 z == Guest!Nothing
      <4>1. /\ s = [w \in Page |-> s[w]] /\ t = [w \in Page |-> t[w]] /\ p \in Page
            /\ t[p] = z /\ \A w \in Page : w # p => t[w] = s[w]
        BY <2>1, <3>3, <3>4, ViewTypes
      <4> HIDE DEF s, t, z
      <4>2. t = [s EXCEPT ![p] = z]  BY <4>1
      <4> QED BY <4>2 DEF s, t, z
    <3>7. Guest!Take(p)  BY <3>5, <3>6 DEF Guest!Take
    <3> QED BY <2>1, <3>7
  <2> QED BY <2>3, <2>4
<1>6. CASE RestrictFails  BY <1>6, <1>same DEF RestrictFails, Live
<1>7. CASE UNCHANGED vars  BY <1>7, <1>same DEF vars, Live
<1> QED BY <1>1, <1>2, <1>3, <1>4, <1>5, <1>6, <1>7 DEF Next

\* Whatever the machine, the guest's memory is built as promised: one page of
\* its own at a time, never one of the hypervisor's, and one page taken at most.
THEOREM MemoryIsGivenPageByPage == Spec => ImplementsGuestMemory
<1>1. Init => Guest!Init  BY InitRefines
<1>2. Inv /\ Inv' /\ Given /\ Given' /\ [Next]_vars
        => [\E p \in Page : Guest!Give(p) \/ Guest!Take(p)]_View
  BY NextRefines
<1> QED
  BY <1>1, <1>2, AlwaysGiven, PTL DEF Spec, ImplementsGuestMemory, Guest!Spec
=============================================================================
