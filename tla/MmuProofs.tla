----------------------------- MODULE MmuProofs -----------------------------
(***************************************************************************)
(* Theorems about Mmu for every table size, page size and set of calls.    *)
(*                                                                         *)
(* The first inductive invariant is TypeOK together with Good: the links   *)
(* of the tables in use go one level down, to tables the allocator handed  *)
(* out, and no two links share a target. It is stated over a memory value  *)
(* (the triple MapOne updates), so that one lemma about Descend is cited   *)
(* for each of the three levels of a map iteration.                        *)
(*                                                                         *)
(* On top of it the pages: a leaf entry belongs to one page, because no    *)
(* table is shared and four indices determine a page, so writing one       *)
(* changes one page. With Placed, which says where the running call is,    *)
(* this gives the frame of every page and the refinement.                  *)
(***************************************************************************)
EXTENDS Mmu, TLAPS

MemType(m) ==
    m \in [tab: [Table -> [Index -> Entry]], last: Table, depth: [Table -> 0 .. 3]]

Down(m) ==
    \A t \in 0 .. m.last : m.depth[t] < 3 =>
        \A i \in Index : m.tab[t][i].present =>
            /\ m.tab[t][i].to \in 1 .. m.last
            /\ m.depth[m.tab[t][i].to] = m.depth[t] + 1

Unshared(m) ==
    \A t, u \in 0 .. m.last : (m.depth[t] < 3 /\ m.depth[u] < 3) =>
        \A i, j \in Index :
            (/\ m.tab[t][i].present /\ m.tab[u][j].present
             /\ m.tab[t][i].to = m.tab[u][j].to) => (t = u /\ i = j)

Linked(m) ==
    \A n \in 1 .. m.last : \E t \in 0 .. m.last : \E i \in Index :
        m.depth[t] < 3 /\ m.tab[t][i].present /\ m.tab[t][i].to = n

Good(m) == MemType(m) /\ m.depth[0] = 0 /\ Down(m) /\ Unshared(m) /\ Linked(m)

\* What one map loop iteration may do to a memory: it adds entries, it never
\* changes a present one, and the tables in use keep their depth.
Grows(m, n) ==
    /\ n.last >= m.last
    /\ \A t \in 0 .. m.last : n.depth[t] = m.depth[t]
    /\ \A t \in 0 .. m.last : \A i \in Index :
          m.tab[t][i].present => n.tab[t][i] = m.tab[t][i]

\* An entry that is present in n but was not in m is a link to an empty table.
NoNewLeaf(m, n) ==
    \A u \in 0 .. n.last : \A j \in Index : n.tab[u][j].present =>
        \/ u \in 0 .. m.last /\ m.tab[u][j].present /\ n.tab[u][j] = m.tab[u][j]
        \/ n.depth[u] < 3 /\ \A x \in Index : ~ n.tab[n.tab[u][j].to][x].present

LEMMA IndexTypes ==
    ASSUME NEW v \in Nat
    PROVE  /\ Pml4Index(v) \in Index /\ PdptIndex(v) \in Index
           /\ PdIndex(v) \in Index /\ PtIndex(v) \in Index
<1>0. /\ Fan \in Nat \ {0}
      /\ Fan * Fan \in Nat \ {0}
      /\ Fan * Fan * Fan \in Nat \ {0}
  BY ConstantsAreSane
<1>1. /\ v \div (Fan * Fan * Fan) \in Nat /\ v \div (Fan * Fan) \in Nat /\ v \div Fan \in Nat
  BY <1>0
<1>2. \A x \in Nat : x % Fan \in 0 .. Fan - 1
  BY <1>0
<1> QED BY <1>1, <1>2 DEF Pml4Index, PdptIndex, PdIndex, PtIndex, Index

\* Links survive when a memory grows.
LEMMA LinksStay ==
    ASSUME NEW m, NEW n, Linked(m), Grows(m, n), m.last \in Nat, n.last \in Nat,
           NEW x \in 1 .. m.last
    PROVE  \E t \in 0 .. n.last : \E i \in Index :
               n.depth[t] < 3 /\ n.tab[t][i].present /\ n.tab[t][i].to = x
<1> PICK t \in 0 .. m.last, i \in Index :
             m.depth[t] < 3 /\ m.tab[t][i].present /\ m.tab[t][i].to = x
  BY DEF Linked
<1>1. n.depth[t] = m.depth[t] /\ n.tab[t][i] = m.tab[t][i] /\ t \in 0 .. n.last
  BY DEF Grows
<1> QED BY <1>1

LEMMA DescendGood ==
    ASSUME NEW m, Good(m), m.last + 1 <= MaxTable,
           NEW t \in 0 .. m.last, m.depth[t] < 3, NEW i \in Index
    PROVE  LET n == Descend(m, t, i)
           IN  /\ Good(n) /\ Grows(m, n) /\ NoNewLeaf(m, n) /\ n.last <= m.last + 1
               /\ n.tab[t][i].present
               /\ n.tab[t][i].to \in 0 .. n.last
               /\ n.depth[n.tab[t][i].to] = m.depth[t] + 1
<1> DEFINE n == Descend(m, t, i)
           k == m.last + 1
<1>1. CASE m.tab[t][i].present
  <2>1. n = m  BY <1>1 DEF Descend
  <2> QED BY <2>1, <1>1 DEF Good, Grows, NoNewLeaf, Down, MemType, Table
<1>2. CASE ~ m.tab[t][i].present
  <2>1. n = [tab |-> [m.tab EXCEPT ![t][i] = Link(k), ![k] = Cleared],
             last |-> k, depth |-> [m.depth EXCEPT ![k] = m.depth[t] + 1]]
    BY <1>2 DEF Descend
  <2>2. k \in Table /\ k # t /\ k # 0 /\ t \in Table /\ m.last \in Nat
        /\ m.depth \in [Table -> 0 .. 3] /\ m.tab \in [Table -> [Index -> Entry]]
    BY ConstantsAreSane DEF Good, MemType, Table
  <2>3. Link(k) \in Entry /\ Cleared \in [Index -> Entry]
    BY <2>2 DEF Link, Cleared, Entry, Zero, Table
  <2>4. /\ n.tab[k] = Cleared
        /\ n.tab[t] = [m.tab[t] EXCEPT ![i] = Link(k)]
        /\ \A u \in Table : (u # k /\ u # t) => n.tab[u] = m.tab[u]
        /\ n.depth[k] = m.depth[t] + 1
        /\ \A u \in Table : u # k => n.depth[u] = m.depth[u]
        /\ n.last = k
    BY <2>1, <2>2
  <2>5. MemType(n)
    <3>1. n.tab \in [Table -> [Index -> Entry]]
      BY <2>1, <2>2, <2>3
    <3>2. n.depth \in [Table -> 0 .. 3]
      BY <2>1, <2>2
    <3> QED BY <2>1, <2>2, <3>1, <3>2 DEF MemType
  <2>6. \A u \in 0 .. m.last : u \in Table /\ u # k
    BY <2>2, ConstantsAreSane DEF Table
  <2>7. \A j \in Index : ~ n.tab[k][j].present
    BY <2>4 DEF Cleared, Zero
  <2>8. n.tab[t][i] = Link(k) /\ \A j \in Index : j # i => n.tab[t][j] = m.tab[t][j]
    BY <2>2, <2>4
  \* A present entry of n is the new link or an entry m had.
  <2>9. \A u \in 0 .. k : \A j \in Index : n.tab[u][j].present =>
           \/ u = t /\ j = i
           \/ u \in 0 .. m.last /\ n.tab[u][j] = m.tab[u][j] /\ m.tab[u][j].present
    <3> SUFFICES ASSUME NEW u \in 0 .. k, NEW j \in Index, n.tab[u][j].present, ~(u = t /\ j = i)
                 PROVE  u \in 0 .. m.last /\ n.tab[u][j] = m.tab[u][j]
      OBVIOUS
    <3>1. u # k  BY <2>7
    <3>2. u \in 0 .. m.last  BY <3>1, <2>2
    <3>3. CASE u = t  BY <3>3, <3>2, <2>8
    <3>4. CASE u # t  BY <3>4, <3>2, <3>1, <2>4, <2>6
    <3> QED BY <3>3, <3>4
  <2>10. Down(n)
    <3> SUFFICES ASSUME NEW u \in 0 .. k, n.depth[u] < 3, NEW j \in Index, n.tab[u][j].present
                 PROVE  n.tab[u][j].to \in 1 .. k /\ n.depth[n.tab[u][j].to] = n.depth[u] + 1
      BY <2>4 DEF Down
    <3>1. CASE u = t /\ j = i
      BY <3>1, <2>2, <2>4, <2>6, <2>8 DEF Link
    <3>2. CASE ~(u = t /\ j = i)
      <4>1. u \in 0 .. m.last /\ n.tab[u][j] = m.tab[u][j] /\ m.tab[u][j].present
        BY <3>2, <2>9
      <4>2. n.depth[u] = m.depth[u]  BY <4>1, <2>4, <2>6
      <4>3. m.tab[u][j].to \in 1 .. m.last /\ m.depth[m.tab[u][j].to] = m.depth[u] + 1
        BY <4>1, <4>2 DEF Good, Down
      <4>4. n.depth[m.tab[u][j].to] = m.depth[m.tab[u][j].to]
        BY <4>3, <2>2, <2>4, <2>6
      <4> QED BY <4>1, <4>2, <4>3, <4>4, <2>2
    <3> QED BY <3>1, <3>2
  <2>11. Unshared(n)
    <3> SUFFICES ASSUME NEW u \in 0 .. k, NEW w \in 0 .. k, n.depth[u] < 3, n.depth[w] < 3,
                        NEW j \in Index, NEW l \in Index,
                        n.tab[u][j].present, n.tab[w][l].present,
                        n.tab[u][j].to = n.tab[w][l].to
                 PROVE  u = w /\ j = l
      BY <2>4 DEF Unshared
    <3>1. \A x \in 0 .. k : \A y \in Index :
             (n.tab[x][y].present /\ n.depth[x] < 3 /\ ~(x = t /\ y = i)) =>
                /\ x \in 0 .. m.last /\ n.tab[x][y] = m.tab[x][y] /\ m.tab[x][y].present
                /\ m.depth[x] < 3
                /\ m.tab[x][y].to \in 1 .. m.last
      BY <2>9, <2>4, <2>6 DEF Good, Down
    <3>2. n.tab[t][i].to = k  BY <2>8 DEF Link
    <3>3. k \notin 1 .. m.last  BY <2>2
    <3>4. CASE u = t /\ j = i  BY <3>1, <3>2, <3>3, <3>4
    <3>5. CASE w = t /\ l = i  BY <3>1, <3>2, <3>3, <3>5
    <3>6. CASE ~(u = t /\ j = i) /\ ~(w = t /\ l = i)
      <4>1. Unshared(m)  BY DEF Good
      <4>2. /\ u \in 0 .. m.last /\ n.tab[u][j] = m.tab[u][j] /\ m.depth[u] < 3
            /\ w \in 0 .. m.last /\ n.tab[w][l] = m.tab[w][l] /\ m.depth[w] < 3
        BY <3>1, <3>6
      <4> QED BY <4>1, <4>2 DEF Unshared
    <3> QED BY <3>4, <3>5, <3>6
  <2>12. Grows(m, n)
    <3>1. \A u \in 0 .. m.last : n.depth[u] = m.depth[u]  BY <2>4, <2>6
    <3>2. ASSUME NEW u \in 0 .. m.last, NEW j \in Index, m.tab[u][j].present
          PROVE  n.tab[u][j] = m.tab[u][j]
      <4>1. CASE u = t  BY <4>1, <3>2, <1>2, <2>8
      <4>2. CASE u # t  BY <4>2, <2>4, <2>6
      <4> QED BY <4>1, <4>2
    <3> QED BY <3>1, <3>2, <2>2, <2>4 DEF Grows
  <2>13. n.depth[0] = 0  BY <2>2, <2>4, ConstantsAreSane DEF Good, Table
  <2>14. Linked(n)
    <3> SUFFICES ASSUME NEW x \in 1 .. k
                 PROVE  \E u \in 0 .. n.last : \E j \in Index :
                           n.depth[u] < 3 /\ n.tab[u][j].present /\ n.tab[u][j].to = x
      BY <2>4 DEF Linked
    <3>1. CASE x = k
      <4>1. n.tab[t][i].present /\ n.tab[t][i].to = x  BY <3>1, <2>8 DEF Link
      <4>2. t \in 0 .. n.last /\ n.depth[t] < 3  BY <2>2, <2>4
      <4> QED BY <4>1, <4>2
    <3>2. CASE x # k
      <4>1. x \in 1 .. m.last  BY <3>2, <2>2
      <4>2. n.last \in Nat /\ Linked(m)  BY <2>2, <2>4 DEF Good
      <4> HIDE DEF n
      <4> QED BY <4>1, <4>2, <2>2, <2>12, LinksStay
    <3> QED BY <3>1, <3>2
  <2> QED
    <3>1. n.tab[t][i].present /\ n.tab[t][i].to = k  BY <2>8 DEF Link
    <3>2. n.last = k /\ n.depth[k] = m.depth[t] + 1  BY <2>4
    <3>3. Good(n)  BY <2>5, <2>10, <2>11, <2>13, <2>14 DEF Good
    <3>4. k \in 0 .. k  BY <2>2
    <3>5. NoNewLeaf(m, n)
      <4>1. n.depth[t] < 3  BY <2>2, <2>4
      <4> QED BY <4>1, <3>1, <3>2, <2>7, <2>9 DEF NoNewLeaf
    <3> QED BY <3>1, <3>2, <3>3, <3>4, <3>5, <2>2, <2>12
<1> QED BY <1>1, <1>2

\* Filling a leaf of a depth-3 table touches no link.
LEMMA FillLeafGood ==
    ASSUME NEW m, Good(m), NEW t \in 0 .. m.last, m.depth[t] = 3, NEW i \in Index,
           NEW leaf \in Entry
    PROVE  /\ Good(FillLeaf(m, t, i, leaf)) /\ Grows(m, FillLeaf(m, t, i, leaf))
           /\ FillLeaf(m, t, i, leaf).last = m.last
<1> DEFINE n == FillLeaf(m, t, i, leaf)
<1>0. /\ m.last \in Nat /\ m.last \in Table /\ 0 .. m.last \subseteq Table
      /\ m.depth \in [Table -> 0 .. 3] /\ m.tab \in [Table -> [Index -> Entry]]
  BY ConstantsAreSane DEF Good, MemType, Table
<1>1. CASE m.tab[t][i].present
  <2>1. n = m  BY <1>1 DEF FillLeaf
  <2> QED BY <2>1, <1>0 DEF Grows
<1>2. CASE ~ m.tab[t][i].present
  <2>1. n = [m EXCEPT !.tab = [m.tab EXCEPT ![t][i] = leaf]]
    BY <1>2 DEF FillLeaf
  <2>2. n.last = m.last /\ n.depth = m.depth /\ n.tab = [m.tab EXCEPT ![t][i] = leaf]
    BY <2>1
  <2>3. n.tab \in [Table -> [Index -> Entry]]  BY <1>0, <2>2
  <2>4. \A u \in Table : \A j \in Index : ~(u = t /\ j = i) => n.tab[u][j] = m.tab[u][j]
    BY <1>0, <2>2
  <2>5. \A u \in 0 .. m.last : n.depth[u] < 3 => \A j \in Index : n.tab[u][j] = m.tab[u][j]
    BY <1>0, <2>2, <2>4
  <2>6. Down(n)  BY <2>2, <2>5 DEF Down, Good
  <2>7. Unshared(n)  BY <2>2, <2>5 DEF Unshared, Good
  <2>8. Grows(m, n)
    <3>1. ASSUME NEW u \in 0 .. m.last, NEW j \in Index, m.tab[u][j].present
          PROVE  n.tab[u][j] = m.tab[u][j]
      BY <3>1, <1>2, <2>4, <1>0
    <3> QED BY <3>1, <2>2, <1>0 DEF Grows
  <2>9. Linked(n)
    <3>1. Linked(m) /\ n.last = m.last  BY <2>2 DEF Good
    <3> HIDE DEF n
    <3> QED BY <3>1, <2>8, <1>0, LinksStay DEF Linked
  <2>10. MemType(n)
    <3> DEFINE x == [m.tab EXCEPT ![t][i] = leaf]
    <3>1. n = [m EXCEPT !.tab = x] /\ x \in [Table -> [Index -> Entry]]  BY <2>1, <2>2, <2>3
    <3> HIDE DEF x, n
    <3> QED BY <3>1 DEF Good, MemType
  <2> QED BY <2>2, <2>6, <2>7, <2>8, <2>9, <2>10 DEF Good
<1> QED BY <1>1, <1>2

LEMMA GrowsTransitive ==
    ASSUME NEW a, NEW b, NEW c, Good(a), Good(b), Good(c), Grows(a, b), Grows(b, c)
    PROVE  Grows(a, c)
<1>1. /\ a.last \in Nat /\ b.last \in Nat /\ c.last \in Nat
      /\ a.last <= b.last /\ b.last <= c.last
  BY ConstantsAreSane DEF Good, MemType, Table, Grows
<1>2. \A t \in 0 .. a.last : t \in 0 .. b.last  BY <1>1
<1>3. \A t \in 0 .. a.last : c.depth[t] = a.depth[t]  BY <1>2 DEF Grows
<1>4. ASSUME NEW t \in 0 .. a.last, NEW i \in Index, a.tab[t][i].present
      PROVE  c.tab[t][i] = a.tab[t][i]
  BY <1>2, <1>4 DEF Grows
<1> QED BY <1>1, <1>3, <1>4 DEF Grows

---------------------------------------------------------------------------
(* Arithmetic: the four indices of a page of the address space determine it *)

LEMMA MulMono ==
    ASSUME NEW d \in Nat, NEW x \in Int, NEW y \in Int, x <= y
    PROVE  d * x <= d * y
<1>1. y - x \in Nat  BY SMT
<1>2. d * (y - x) \in Nat  BY <1>1
<1>3. d * (y - x) = d * y - d * x  BY SMT
<1> QED BY <1>2, <1>3

LEMMA DivMod ==
    ASSUME NEW a \in Nat, NEW d \in Nat \ {0}
    PROVE  a \div d \in Nat /\ a % d \in 0 .. d - 1 /\ a = d * (a \div d) + (a % d)
BY SMT

LEMMA QuotientUnique ==
    ASSUME NEW d \in Nat \ {0}, NEW q \in Nat, NEW r \in 0 .. d - 1
    PROVE  (d * q + r) \div d = q /\ (d * q + r) % d = r
<1> DEFINE a == d * q + r
<1>0. a \in Nat
  <2>1. d * q \in Nat  BY SMT
  <2> QED BY <2>1
<1>1. a \div d \in Nat /\ a % d \in 0 .. d - 1 /\ a = d * (a \div d) + (a % d)
  BY <1>0, DivMod
<1> DEFINE p == a \div d
           s == a % d
<1>2. p \in Nat /\ s \in 0 .. d - 1 /\ d * q + r = d * p + s  BY <1>1
<1> HIDE DEF p, s
<1>3. ~ (p >= q + 1)
  <2> SUFFICES ASSUME p >= q + 1 PROVE FALSE OBVIOUS
  <2>1. d * (q + 1) <= d * p  BY <1>2, MulMono
  <2>2. d * (q + 1) = d * q + d BY SMT
  <2>3. d * q \in Int /\ d * p \in Int BY <1>2
  <2> QED BY <1>2, <2>1, <2>2, <2>3
<1>4. ~ (q >= p + 1)
  <2> SUFFICES ASSUME q >= p + 1 PROVE FALSE OBVIOUS
  <2>1. d * (p + 1) <= d * q  BY <1>2, MulMono
  <2>2. d * (p + 1) = d * p + d BY <1>2, SMT
  <2>3. d * q \in Int /\ d * p \in Int BY <1>2
  <2> QED BY <1>2, <2>1, <2>2, <2>3
<1>5. p = q  BY <1>2, <1>3, <1>4
<1>6. s = r
  <2>3. d * q \in Int BY <1>2
  <2> QED BY <1>2, <1>5, <2>3
<1> QED BY <1>5, <1>6 DEF p, s

LEMMA DivDiv ==
    ASSUME NEW a \in Nat, NEW d \in Nat \ {0}, NEW e \in Nat \ {0}
    PROVE  a \div (d * e) = (a \div d) \div e
<1> DEFINE q == a \div d
           p == q \div e
           r == a % d
           s == q % e
<1>1. q \in Nat /\ r \in 0 .. d - 1 /\ a = d * q + r  BY DivMod
<1>2. p \in Nat /\ s \in 0 .. e - 1 /\ q = e * p + s  BY <1>1, DivMod
<1> HIDE DEF q, p, r, s
<1>3. d * e \in Nat \ {0}  BY SMT
<1>4. d * s + r \in 0 .. (d * e) - 1
  <2>1. d * s <= d * (e - 1)  BY <1>2, MulMono
  <2>2. d * (e - 1) = d * e - d  BY SMT
  <2>3. d * s \in Nat BY <1>2
  <2> QED BY <1>1, <1>2, <1>3, <2>1, <2>2, <2>3
<1>5. a = (d * e) * p + (d * s + r)
  <2>1. d * q = d * (e * p) + d * s
    BY <1>2, SMT
  <2>2. d * (e * p) = (d * e) * p  BY <1>2, SMT
  <2>3. d * (e * p) \in Int /\ d * s \in Int BY <1>2, SMT
  <2> QED BY <1>1, <2>1, <2>2, <2>3
<1>6. a \div (d * e) = p
  <2> DEFINE f == d * e
             g == d * s + r
  <2>1. f \in Nat \ {0} /\ g \in 0 .. f - 1 BY <1>3, <1>4
  <2>2. a = f * p + g BY <1>5
  <2> HIDE DEF f, g
  <2>3. a \div f = p BY <2>1, <2>2, <1>2, QuotientUnique
  <2> QED BY <2>3 DEF f
<1> QED BY <1>6 DEF p, q

\* Four levels of Fan entries tell the pages of VPages apart.
LEMMA IndicesDeterminePage ==
    ASSUME NEW v \in VPages, NEW w \in VPages,
           Pml4Index(v) = Pml4Index(w), PdptIndex(v) = PdptIndex(w),
           PdIndex(v) = PdIndex(w), PtIndex(v) = PtIndex(w)
    PROVE  v = w
<1>0. Fan \in Nat \ {0} /\ Fan * Fan \in Nat \ {0} /\ Fan * Fan * Fan \in Nat \ {0}
  BY ConstantsAreSane
<1> DEFINE q(x) == x \div Fan
           r(x) == q(x) \div Fan
           s(x) == r(x) \div Fan
<1>1. ASSUME NEW x \in VPages
      PROVE  /\ q(x) \in Nat /\ r(x) \in Nat /\ s(x) \in Nat
             /\ x = Fan * q(x) + PtIndex(x)
             /\ q(x) = Fan * r(x) + PdIndex(x)
             /\ r(x) = Fan * s(x) + PdptIndex(x)
             /\ s(x) = Pml4Index(x)
  <2>1. x \in Nat /\ x < Fan * Fan * Fan * Fan  BY <1>0 DEF VPages
  <2>2. q(x) \in Nat /\ x = Fan * q(x) + PtIndex(x)
    BY <1>0, <2>1, DivMod DEF PtIndex
  <2>3. r(x) \in Nat /\ q(x) = Fan * r(x) + PdIndex(x)
    BY <1>0, <2>2, DivMod DEF PdIndex
  <2>4. r(x) = x \div (Fan * Fan)  BY <1>0, <2>1, DivDiv
  <2>5. s(x) \in Nat /\ r(x) = Fan * s(x) + PdptIndex(x)
    BY <1>0, <2>3, <2>4, DivMod DEF PdptIndex
  <2>6. s(x) = x \div (Fan * Fan * Fan)
    <3>1. (x \div (Fan * Fan)) \div Fan = x \div (Fan * Fan * Fan)  BY <1>0, <2>1, DivDiv
    <3> QED BY <3>1, <2>4
  <2>7. s(x) < Fan
    <3> DEFINE c == Fan * Fan * Fan
    <3>1. c \in Nat \ {0} /\ x < c * Fan  BY <1>0, <2>1
    <3> DEFINE z == x \div c
    <3> HIDE DEF c
    <3>2. z \in Nat /\ x % c \in 0 .. c - 1 /\ x = c * z + (x % c)
      BY <2>1, <3>1, DivMod
    <3> HIDE DEF z
    <3>3. z \in Nat /\ x >= c * z
      <4>1. c * z \in Nat  BY <3>1, <3>2
      <4> QED BY <3>1, <3>2, <4>1
    <3>4. ~ (Fan <= z)
      <4> SUFFICES ASSUME Fan <= z PROVE FALSE OBVIOUS
      <4>1. c * Fan <= c * z  BY <1>0, <3>1, <3>3, MulMono
      <4>2. c * Fan \in Int /\ c * z \in Int BY <1>0, <3>1, <3>3
      <4> QED BY <4>1, <4>2, <3>1, <3>3, <2>1
    <3> QED BY <2>6, <3>3, <3>4, <1>0 DEF z, c
  <2>8. s(x) % Fan = s(x)  BY <1>0, <2>5, <2>7
  <2> QED BY <2>2, <2>3, <2>5, <2>6, <2>8 DEF Pml4Index
<1> HIDE DEF q, r, s
<1>2. s(v) = s(w)  BY <1>1
<1>3. r(v) = r(w)  BY <1>1, <1>2
<1>4. q(v) = q(w)  BY <1>1, <1>3
<1> QED BY <1>1, <1>4

---------------------------------------------------------------------------
(* Walks through a memory: the four entries on the way to page v *)

E1(m, v) == m.tab[0][Pml4Index(v)]
E2(m, v) == m.tab[E1(m, v).to][PdptIndex(v)]
E3(m, v) == m.tab[E2(m, v).to][PdIndex(v)]
E4(m, v) == m.tab[E3(m, v).to][PtIndex(v)]

Upper(m, v)   == E1(m, v).present /\ E2(m, v).present /\ E3(m, v).present
Present(m, v) == Upper(m, v) /\ E4(m, v).present

\* Page w looks the same in m and n.
SameAt(m, n, w) ==
    /\ Present(n, w) <=> Present(m, w)
    /\ Present(m, w) => E4(n, w) = E4(m, w)

\* A link of level l leads to a table of depth l.
LEMMA WalkTables ==
    ASSUME NEW m, Good(m), NEW v \in Nat
    PROVE  /\ m.last \in Nat /\ 0 \in 0 .. m.last /\ m.depth[0] = 0
           /\ E1(m, v).present => E1(m, v).to \in 1 .. m.last /\ m.depth[E1(m, v).to] = 1
           /\ E1(m, v).present /\ E2(m, v).present =>
                E2(m, v).to \in 1 .. m.last /\ m.depth[E2(m, v).to] = 2
           /\ Upper(m, v) => E3(m, v).to \in 1 .. m.last /\ m.depth[E3(m, v).to] = 3
<1>i. /\ Pml4Index(v) \in Index /\ PdptIndex(v) \in Index /\ PdIndex(v) \in Index
  BY IndexTypes
<1>0. m.last \in Nat /\ 0 \in 0 .. m.last /\ m.depth[0] = 0
  BY ConstantsAreSane DEF Good, MemType, Table
<1>d. \A t \in 0 .. m.last : \A i \in Index : m.depth[t] < 3 /\ m.tab[t][i].present =>
         /\ m.tab[t][i].to \in 1 .. m.last /\ m.tab[t][i].to \in 0 .. m.last
         /\ m.depth[m.tab[t][i].to] = m.depth[t] + 1
  BY <1>0 DEF Good, Down
<1>1. ASSUME E1(m, v).present
      PROVE  E1(m, v).to \in 0 .. m.last /\ E1(m, v).to \in 1 .. m.last /\ m.depth[E1(m, v).to] = 1
  BY <1>0, <1>i, <1>d, <1>1 DEF E1
<1>2. ASSUME E1(m, v).present, E2(m, v).present
      PROVE  E2(m, v).to \in 0 .. m.last /\ E2(m, v).to \in 1 .. m.last /\ m.depth[E2(m, v).to] = 2
  <2> DEFINE t == E1(m, v).to
  <2>1. t \in 0 .. m.last /\ m.depth[t] = 1  BY <1>1, <1>2
  <2>2. E2(m, v) = m.tab[t][PdptIndex(v)]  BY DEF E2
  <2> HIDE DEF t
  <2> QED BY <2>1, <2>2, <1>i, <1>d, <1>2
<1>3. ASSUME Upper(m, v)
      PROVE  E3(m, v).to \in 1 .. m.last /\ m.depth[E3(m, v).to] = 3
  <2> DEFINE t == E2(m, v).to
  <2>1. t \in 0 .. m.last /\ m.depth[t] = 2  BY <1>2, <1>3 DEF Upper
  <2>2. E3(m, v) = m.tab[t][PdIndex(v)]  BY DEF E3
  <2> HIDE DEF t
  <2> QED BY <2>1, <2>2, <1>i, <1>d, <1>3 DEF Upper
<1> QED BY <1>0, <1>1, <1>2, <1>3

\* Two pages that reach the same leaf are the same page: no table is shared, so
\* they came the same way, and the indices determine the page.
LEMMA LeafBelongsToOnePage ==
    ASSUME NEW m, Good(m), NEW v \in VPages, NEW w \in VPages, Upper(m, v), Upper(m, w),
           E3(m, v).to = E3(m, w).to, PtIndex(v) = PtIndex(w)
    PROVE  v = w
<1>v. v \in Nat /\ w \in Nat  BY DEF VPages
<1>i. /\ Pml4Index(v) \in Index /\ PdptIndex(v) \in Index /\ PdIndex(v) \in Index
      /\ Pml4Index(w) \in Index /\ PdptIndex(w) \in Index /\ PdIndex(w) \in Index
  BY <1>v, IndexTypes
<1>u. \A t, u \in 0 .. m.last : (m.depth[t] < 3 /\ m.depth[u] < 3) =>
        \A i, j \in Index :
            (/\ m.tab[t][i].present /\ m.tab[u][j].present
             /\ m.tab[t][i].to = m.tab[u][j].to) => (t = u /\ i = j)
  BY DEF Good, Unshared
<1>1. /\ E2(m, v).to \in 0 .. m.last /\ m.depth[E2(m, v).to] < 3
      /\ E2(m, w).to \in 0 .. m.last /\ m.depth[E2(m, w).to] < 3
      /\ E1(m, v).to \in 0 .. m.last /\ m.depth[E1(m, v).to] < 3
      /\ E1(m, w).to \in 0 .. m.last /\ m.depth[E1(m, w).to] < 3
      /\ 0 \in 0 .. m.last /\ m.depth[0] < 3
  BY <1>v, WalkTables DEF Upper
<1>2. E2(m, v).to = E2(m, w).to /\ PdIndex(v) = PdIndex(w)
  <2> DEFINE t == E2(m, v).to
             u == E2(m, w).to
  <2>1. m.tab[t][PdIndex(v)].present /\ m.tab[u][PdIndex(w)].present
        /\ m.tab[t][PdIndex(v)].to = m.tab[u][PdIndex(w)].to
    BY DEF Upper, E3
  <2>2. t \in 0 .. m.last /\ m.depth[t] < 3 /\ u \in 0 .. m.last /\ m.depth[u] < 3  BY <1>1
  <2> HIDE DEF t, u
  <2>3. t = u /\ PdIndex(v) = PdIndex(w)  BY <2>1, <2>2, <1>i, <1>u
  <2> QED BY <2>3 DEF t, u
<1>3. E1(m, v).to = E1(m, w).to /\ PdptIndex(v) = PdptIndex(w)
  <2> DEFINE t == E1(m, v).to
             u == E1(m, w).to
  <2>1. m.tab[t][PdptIndex(v)].present /\ m.tab[u][PdptIndex(w)].present
        /\ m.tab[t][PdptIndex(v)].to = m.tab[u][PdptIndex(w)].to
    BY <1>2 DEF Upper, E2
  <2>2. t \in 0 .. m.last /\ m.depth[t] < 3 /\ u \in 0 .. m.last /\ m.depth[u] < 3  BY <1>1
  <2> HIDE DEF t, u
  <2>3. t = u /\ PdptIndex(v) = PdptIndex(w)  BY <2>1, <2>2, <1>i, <1>u
  <2> QED BY <2>3 DEF t, u
<1>4. Pml4Index(v) = Pml4Index(w)
  <2>1. m.tab[0][Pml4Index(v)].present /\ m.tab[0][Pml4Index(w)].present
        /\ m.tab[0][Pml4Index(v)].to = m.tab[0][Pml4Index(w)].to
    BY <1>3 DEF Upper, E1
  <2> QED BY <2>1, <1>1, <1>i, <1>u
<1> QED BY <1>2, <1>3, <1>4, IndicesDeterminePage

\* Links survive growth, so the walk of a page goes the same way as before.
LEMMA UpperStays ==
    ASSUME NEW m, NEW n, Good(m), Grows(m, n), NEW v \in Nat
    PROVE  /\ E1(m, v).present => E1(n, v) = E1(m, v)
           /\ E1(m, v).present /\ E2(m, v).present => E2(n, v) = E2(m, v)
           /\ Upper(m, v) => E3(n, v) = E3(m, v) /\ Upper(n, v)
           /\ Present(m, v) => Present(n, v) /\ E4(n, v) = E4(m, v)
<1>i. /\ Pml4Index(v) \in Index /\ PdptIndex(v) \in Index
      /\ PdIndex(v) \in Index /\ PtIndex(v) \in Index
  BY IndexTypes
<1>g. \A t \in 0 .. m.last : \A i \in Index : m.tab[t][i].present => n.tab[t][i] = m.tab[t][i]
  BY DEF Grows
<1>w. /\ 0 \in 0 .. m.last
      /\ E1(m, v).present => E1(m, v).to \in 0 .. m.last
      /\ E1(m, v).present /\ E2(m, v).present => E2(m, v).to \in 0 .. m.last
      /\ Upper(m, v) => E3(m, v).to \in 0 .. m.last
  BY WalkTables
<1>1. E1(m, v).present => E1(n, v) = E1(m, v)
  BY <1>i, <1>g, <1>w DEF E1
<1>2. E1(m, v).present /\ E2(m, v).present => E2(n, v) = E2(m, v)
  BY <1>i, <1>g, <1>w, <1>1 DEF E2
<1>3. Upper(m, v) => E3(n, v) = E3(m, v)
  BY <1>i, <1>g, <1>w, <1>2 DEF E3, Upper
<1>4. Present(m, v) => E4(n, v) = E4(m, v)
  BY <1>i, <1>g, <1>w, <1>3 DEF E4, Upper, Present
<1> QED BY <1>1, <1>2, <1>3, <1>4 DEF Upper, Present

\* Linking an empty table shows and hides no page.
LEMMA LinkShowsNothing ==
    ASSUME NEW m, NEW n, Good(m), Good(n), Grows(m, n), NoNewLeaf(m, n), NEW w \in Nat
    PROVE  SameAt(m, n, w)
<1>i. /\ Pml4Index(w) \in Index /\ PdptIndex(w) \in Index
      /\ PdIndex(w) \in Index /\ PtIndex(w) \in Index
  BY IndexTypes
<1>s. \A u \in 0 .. n.last : \A j \in Index : n.tab[u][j].present =>
        \/ u \in 0 .. m.last /\ m.tab[u][j].present /\ n.tab[u][j] = m.tab[u][j]
        \/ n.depth[u] < 3 /\ \A x \in Index : ~ n.tab[n.tab[u][j].to][x].present
  BY DEF NoNewLeaf
<1>1. ASSUME Present(n, w) PROVE Present(m, w)
  <2>w. /\ 0 \in 0 .. n.last /\ E1(n, w).to \in 0 .. n.last /\ E2(n, w).to \in 0 .. n.last
        /\ E3(n, w).to \in 0 .. n.last /\ n.depth[E3(n, w).to] = 3
    BY <1>1, WalkTables DEF Present, Upper
  <2>1. E1(m, w).present /\ E1(n, w) = E1(m, w)
    <3>1. n.tab[0][Pml4Index(w)].present /\ n.tab[n.tab[0][Pml4Index(w)].to][PdptIndex(w)].present
      BY <1>1 DEF Present, Upper, E1, E2
    <3>2. m.tab[0][Pml4Index(w)].present /\ n.tab[0][Pml4Index(w)] = m.tab[0][Pml4Index(w)]
      BY <3>1, <2>w, <1>i, <1>s
    <3> QED BY <3>2 DEF E1
  <2>2. E2(m, w).present /\ E2(n, w) = E2(m, w)
    <3> DEFINE t == E1(n, w).to
    <3>1. n.tab[t][PdptIndex(w)].present /\ n.tab[n.tab[t][PdptIndex(w)].to][PdIndex(w)].present
          /\ t \in 0 .. n.last
      BY <1>1, <2>w DEF Present, Upper, E2, E3
    <3>2. E2(n, w) = n.tab[t][PdptIndex(w)] /\ E2(m, w) = m.tab[t][PdptIndex(w)]
      BY <2>1 DEF E2
    <3> HIDE DEF t
    <3>3. m.tab[t][PdptIndex(w)].present /\ n.tab[t][PdptIndex(w)] = m.tab[t][PdptIndex(w)]
      BY <3>1, <1>i, <1>s
    <3> QED BY <3>2, <3>3
  <2>3. E3(m, w).present /\ E3(n, w) = E3(m, w)
    <3> DEFINE t == E2(n, w).to
    <3>1. n.tab[t][PdIndex(w)].present /\ n.tab[n.tab[t][PdIndex(w)].to][PtIndex(w)].present
          /\ t \in 0 .. n.last
      BY <1>1, <2>w DEF Present, Upper, E3, E4
    <3>2. E3(n, w) = n.tab[t][PdIndex(w)] /\ E3(m, w) = m.tab[t][PdIndex(w)]
      BY <2>2 DEF E3
    <3> HIDE DEF t
    <3>3. m.tab[t][PdIndex(w)].present /\ n.tab[t][PdIndex(w)] = m.tab[t][PdIndex(w)]
      BY <3>1, <1>i, <1>s
    <3> QED BY <3>2, <3>3
  <2>4. E4(m, w).present
    <3> DEFINE t == E3(n, w).to
    <3>1. n.tab[t][PtIndex(w)].present /\ t \in 0 .. n.last /\ ~ (n.depth[t] < 3)
      BY <1>1, <2>w DEF Present, E4
    <3>2. E4(m, w) = m.tab[t][PtIndex(w)]
      BY <2>3 DEF E4
    <3> HIDE DEF t
    <3> QED BY <3>1, <3>2, <1>i, <1>s
  <2> QED BY <2>1, <2>2, <2>3, <2>4 DEF Present, Upper
<1>2. Present(m, w) => Present(n, w) /\ E4(n, w) = E4(m, w)  BY UpperStays
<1> QED BY <1>1, <1>2 DEF SameAt

\* n is m with e written over the leaf entry of page v.
LeafWritten(m, n, v, e) == n.tab = [m.tab EXCEPT ![E3(m, v).to][PtIndex(v)] = e]

\* Writing the leaf entry of page v changes page v and no other.
LEMMA LeafEdit ==
    ASSUME NEW m, Good(m), NEW v \in VPages, Upper(m, v), NEW e,
           NEW n, LeafWritten(m, n, v, e)
    PROVE  /\ Upper(n, v) /\ E4(n, v) = e
           /\ \A w \in VPages : w # v => SameAt(m, n, w)
<1>v. v \in Nat /\ \A w \in VPages : w \in Nat  BY DEF VPages
<1> DEFINE t == E3(m, v).to
           i == PtIndex(v)
<1>0. /\ t \in 1 .. m.last /\ m.depth[t] = 3 /\ i \in Index
      /\ m.last \in Nat /\ 0 .. m.last \subseteq Table /\ m.tab \in [Table -> [Index -> Entry]]
      /\ m.depth[0] = 0 /\ 0 \in 0 .. m.last
  <2>1. /\ t \in 1 .. m.last /\ m.depth[t] = 3 /\ i \in Index
        /\ m.last \in Nat /\ m.depth[0] = 0 /\ 0 \in 0 .. m.last
    BY <1>v, WalkTables, IndexTypes
  <2>2. 0 .. m.last \subseteq Table /\ m.tab \in [Table -> [Index -> Entry]]
    BY ConstantsAreSane DEF Good, MemType, Table
  <2> QED BY <2>1, <2>2
<1>1. /\ \A u \in 0 .. m.last : u # t => n.tab[u] = m.tab[u]
      /\ n.tab[t][i] = e
      /\ \A j \in Index : j # i => n.tab[t][j] = m.tab[t][j]
  BY <1>0 DEF LeafWritten
<1>2. ASSUME NEW w \in Nat
      PROVE  /\ E1(n, w) = E1(m, w)
             /\ E1(m, w).present => E2(n, w) = E2(m, w)
             /\ E1(m, w).present /\ E2(m, w).present => E3(n, w) = E3(m, w)
  <2>1. /\ E1(m, w).present => E1(m, w).to \in 0 .. m.last /\ E1(m, w).to # t
        /\ E1(m, w).present /\ E2(m, w).present =>
              E2(m, w).to \in 0 .. m.last /\ E2(m, w).to # t
        /\ 0 # t
    BY <1>0, WalkTables
  <2> HIDE DEF t, i
  <2>2. E1(n, w) = E1(m, w)  BY <1>0, <1>1, <2>1 DEF E1
  <2>3. E1(m, w).present => E2(n, w) = E2(m, w)  BY <1>1, <2>1, <2>2 DEF E2
  <2>4. E1(m, w).present /\ E2(m, w).present => E3(n, w) = E3(m, w)
    BY <1>1, <2>1, <2>3 DEF E3
  <2> QED BY <2>2, <2>3, <2>4
<1>3. Upper(n, v) /\ E4(n, v) = e
  BY <1>v, <1>1, <1>2 DEF Upper, E4
<1>4. ASSUME NEW w \in VPages, w # v
      PROVE  SameAt(m, n, w)
  <2>1. Upper(n, w) <=> Upper(m, w)  BY <1>v, <1>2 DEF Upper
  <2>2. ASSUME Upper(m, w) PROVE E4(n, w) = E4(m, w)
    <3>1. E3(n, w) = E3(m, w)  BY <1>v, <1>2, <2>2 DEF Upper
    <3>2. E3(m, w).to \in 0 .. m.last /\ PtIndex(w) \in Index
      BY <1>v, <2>2, WalkTables, IndexTypes
    <3>3. ~ (E3(m, w).to = t /\ PtIndex(w) = i)
      BY <1>4, <2>2, LeafBelongsToOnePage
    <3> HIDE DEF t, i
    <3> QED BY <1>1, <3>1, <3>2, <3>3 DEF E4
  <2> QED BY <2>1, <2>2 DEF SameAt, Present
<1> QED BY <1>3, <1>4

\* The three levels of a map iteration lead to a memory with the same pages, in
\* which the walk of page v goes through links down to its leaf entry.
LEMMA MapOneReachesLeaf ==
    ASSUME NEW m, Good(m), m.last + 3 <= MaxTable, NEW v \in Nat, NEW leaf
    PROVE  \E n : /\ Good(n) /\ Grows(m, n) /\ Upper(n, v)
                  /\ \A w \in Nat : SameAt(m, n, w)
                  /\ MapOne(m, v, leaf) = FillLeaf(n, E3(n, v).to, PtIndex(v), leaf)
<1> DEFINE i0 == Pml4Index(v)
           i1 == PdptIndex(v)
           i2 == PdIndex(v)
           i3 == PtIndex(v)
           m1 == Descend(m, 0, i0)
           t1 == m1.tab[0][i0].to
           m2 == Descend(m1, t1, i1)
           t2 == m2.tab[t1][i1].to
           m3 == Descend(m2, t2, i2)
           t3 == m3.tab[t2][i2].to
<1>0. MaxTable \in Nat /\ m.last \in Nat /\ 0 \in 0 .. m.last /\ m.depth[0] = 0
  BY ConstantsAreSane DEF Good, MemType, Table
<1>i. i0 \in Index /\ i1 \in Index /\ i2 \in Index /\ i3 \in Index
  BY IndexTypes
<1>e. /\ \A n : E1(n, v) = n.tab[0][i0]
      /\ \A n : E2(n, v) = n.tab[E1(n, v).to][i1]
      /\ \A n : E3(n, v) = n.tab[E2(n, v).to][i2]
      /\ \A n : MapOne(m, v, leaf) = FillLeaf(m3, t3, i3, leaf)
  BY DEF E1, E2, E3, MapOne
<1>p. i3 = PtIndex(v)  OBVIOUS
<1> HIDE DEF i0, i1, i2, i3
<1>1. /\ Good(m1) /\ Grows(m, m1) /\ NoNewLeaf(m, m1) /\ m1.last <= m.last + 1
      /\ m1.tab[0][i0].present /\ t1 \in 0 .. m1.last /\ m1.depth[t1] = 1
  BY DescendGood, <1>0, <1>i
<1>2. t1 = m1.tab[0][i0].to  OBVIOUS
<1>3. m1.last \in Nat /\ 0 \in 0 .. m1.last
  BY <1>1, ConstantsAreSane DEF Good, MemType, Table
<1> HIDE DEF m1, t1
<1>4. /\ Good(m2) /\ Grows(m1, m2) /\ NoNewLeaf(m1, m2) /\ m2.last <= m1.last + 1
      /\ m2.tab[t1][i1].present /\ t2 \in 0 .. m2.last /\ m2.depth[t2] = 2
  <2>1. m1.last + 1 <= MaxTable /\ m1.depth[t1] < 3 /\ t1 \in 0 .. m1.last
    BY <1>0, <1>1, <1>3
  <2> QED BY DescendGood, <1>1, <1>i, <2>1
<1>5. t2 = m2.tab[t1][i1].to  OBVIOUS
<1>6. m2.last \in Nat /\ m1.last <= m2.last
  BY <1>4, ConstantsAreSane DEF Good, MemType, Table, Grows
<1> HIDE DEF m2, t2
<1>7. /\ Good(m3) /\ Grows(m2, m3) /\ NoNewLeaf(m2, m3) /\ m3.tab[t2][i2].present
  <2>1. m2.last + 1 <= MaxTable /\ m2.depth[t2] < 3 /\ t2 \in 0 .. m2.last
    BY <1>0, <1>1, <1>3, <1>4, <1>6
  <2> QED BY DescendGood, <1>4, <1>i, <2>1
<1>8. t3 = m3.tab[t2][i2].to  OBVIOUS
<1> HIDE DEF m3, t3
<1>9. Upper(m3, v) /\ E3(m3, v).to = t3
  <2>1. m3.tab[0][i0] = m1.tab[0][i0]
    <3>1. m2.tab[0][i0] = m1.tab[0][i0] /\ 0 \in 0 .. m2.last
      BY <1>1, <1>3, <1>4, <1>6, <1>i DEF Grows
    <3> QED BY <3>1, <1>1, <1>7, <1>i DEF Grows
  <2>2. m3.tab[t1][i1] = m2.tab[t1][i1]
    <3>1. t1 \in 0 .. m2.last  BY <1>1, <1>3, <1>6
    <3> QED BY <3>1, <1>4, <1>7, <1>i DEF Grows
  <2>3. E1(m3, v).present /\ E1(m3, v).to = t1  BY <2>1, <1>1, <1>2, <1>e
  <2>4. E2(m3, v).present /\ E2(m3, v).to = t2  BY <2>2, <2>3, <1>4, <1>5, <1>e
  <2>5. E3(m3, v).present /\ E3(m3, v).to = t3  BY <2>4, <1>7, <1>8, <1>e
  <2> QED BY <2>3, <2>4, <2>5 DEF Upper
<1>10. ASSUME NEW w \in Nat PROVE SameAt(m, m3, w)
  BY <1>1, <1>4, <1>7, LinkShowsNothing DEF SameAt
<1>11. Grows(m, m2)  BY <1>1, <1>4, GrowsTransitive
<1>12. Grows(m, m3)  BY <1>11, <1>4, <1>7, GrowsTransitive
<1>13. MapOne(m, v, leaf) = FillLeaf(m3, E3(m3, v).to, PtIndex(v), leaf)
  BY <1>9, <1>e, <1>p
<1> QED BY <1>7, <1>9, <1>10, <1>12, <1>13

\* One iteration of the map loop keeps the tree and only adds entries.
LEMMA MapOneGood ==
    ASSUME NEW m, Good(m), m.last + 3 <= MaxTable, NEW v \in Nat, NEW leaf \in Entry
    PROVE  Good(MapOne(m, v, leaf)) /\ Grows(m, MapOne(m, v, leaf))
<1>1. PICK n : /\ Good(n) /\ Grows(m, n) /\ Upper(n, v)
               /\ MapOne(m, v, leaf) = FillLeaf(n, E3(n, v).to, PtIndex(v), leaf)
  BY MapOneReachesLeaf
<1> DEFINE t == E3(n, v).to
<1>2. t \in 0 .. n.last /\ n.depth[t] = 3 /\ PtIndex(v) \in Index
  BY <1>1, WalkTables, IndexTypes
<1> HIDE DEF t
<1>3. Good(FillLeaf(n, t, PtIndex(v), leaf)) /\ Grows(n, FillLeaf(n, t, PtIndex(v), leaf))
  BY <1>1, <1>2, FillLeafGood
<1> DEFINE r == FillLeaf(n, t, PtIndex(v), leaf)
<1>4. Good(r) /\ Grows(n, r) /\ MapOne(m, v, leaf) = r  BY <1>1, <1>3 DEF t
<1> HIDE DEF r
<1> QED BY <1>1, <1>4, GrowsTransitive

\* Seen from the pages, one iteration of the map loop fills page v if it is a
\* hole, and does nothing else.
LEMMA MapOneFillsHole ==
    ASSUME NEW m, Good(m), m.last + 3 <= MaxTable, NEW v \in VPages,
           NEW leaf \in Entry, leaf.present
    PROVE  LET n == MapOne(m, v, leaf)
           IN  /\ Present(n, v) /\ E4(n, v) = IF Present(m, v) THEN E4(m, v) ELSE leaf
               /\ \A w \in VPages : w # v => SameAt(m, n, w)
<1>v. v \in Nat /\ \A w \in VPages : w \in Nat  BY DEF VPages
<1>1. PICK k : /\ Good(k) /\ Upper(k, v) /\ \A w \in Nat : SameAt(m, k, w)
               /\ MapOne(m, v, leaf) = FillLeaf(k, E3(k, v).to, PtIndex(v), leaf)
  BY <1>v, MapOneReachesLeaf
<1> DEFINE n == MapOne(m, v, leaf)
<1>2. SameAt(m, k, v)  BY <1>v, <1>1
<1>3. E4(k, v) = k.tab[E3(k, v).to][PtIndex(v)]  BY DEF E4
<1>4. CASE E4(k, v).present
  <2>1. n = k  BY <1>1, <1>3, <1>4 DEF FillLeaf
  <2> QED BY <1>v, <1>1, <1>2, <1>4, <2>1 DEF SameAt, Present
<1>5. CASE ~ E4(k, v).present
  <2>1. n = [k EXCEPT !.tab = [k.tab EXCEPT ![E3(k, v).to][PtIndex(v)] = leaf]]
    BY <1>1, <1>3, <1>5 DEF FillLeaf
  <2>2. LeafWritten(k, n, v, leaf)
    <3> DEFINE x == [k.tab EXCEPT ![E3(k, v).to][PtIndex(v)] = leaf]
    <3>1. n = [k EXCEPT !.tab = x]  BY <2>1
    <3> HIDE DEF x, n
    <3>2. n.tab = x  BY <1>1, <3>1 DEF Good, MemType
    <3> QED BY <3>2 DEF x, LeafWritten
  <2> HIDE DEF n
  <2>3. /\ Upper(n, v) /\ E4(n, v) = leaf
        /\ \A w \in VPages : w # v => SameAt(k, n, w)
    BY <1>1, <2>2, LeafEdit
  <2>4. ~ Present(m, v)  BY <1>2, <1>5 DEF SameAt, Present
  <2>5. \A w \in VPages : w # v => SameAt(m, n, w)
    BY <1>v, <1>1, <2>3 DEF SameAt
  <2> QED BY <2>3, <2>4, <2>5 DEF Present, n
<1> QED BY <1>4, <1>5

---------------------------------------------------------------------------
(* The invariant of the specification *)

\* The loops run only between MmuInit's memzero of the PML4 and the halt, and
\* the allocator has not moved before.
Inv ==
    /\ TypeOK
    /\ Live => Good(Memory)
    /\ job.kind # "idle" => Live
    /\ phase = "off" => (last = 0 /\ depth[0] = 0)

LEMMA JobTypes ==
    ASSUME NEW pa \in Nat, NEW size \in Nat, NEW va \in Nat, NEW uc \in BOOLEAN
    PROVE  /\ PageOf(pa) \in Nat /\ PagesSpanned(pa, size) \in Nat
           /\ PA2VA(pa) \in Nat
           /\ MapJob(pa, size, va, uc) \in
                [kind: {"idle", "map", "unmap"}, va: Nat, pa: Nat, left: Nat, uc: BOOLEAN]
<1>0. PageSize \in Nat \ {0} /\ Offset \in Nat  BY ConstantsAreSane
<1>1. \A x \in Nat : x \div PageSize \in Nat /\ x % PageSize \in Nat  BY <1>0
<1>2. (pa % PageSize) + size + PageSize - 1 \in Nat  BY <1>0, <1>1
<1> QED BY <1>0, <1>1, <1>2 DEF PageOf, PagesSpanned, PA2VA, MapJob

\* The "Down" part of Good, for one entry of the current tables.
LEMMA ChildIsOneDown ==
    ASSUME Good(Memory), NEW t \in 0 .. last, depth[t] < 3,
           NEW i \in Index, tables[t][i].present
    PROVE  tables[t][i].to \in 1 .. last /\ depth[tables[t][i].to] = depth[t] + 1
BY DEF Good, Down, Memory

\* A present walk goes through links of tables in use and ends in a depth-3 table.
LEMMA PresentWalk ==
    ASSUME TypeOK, Good(Memory), NEW v \in Nat, Walk(v).present
    PROVE  LET a == tables[0][Pml4Index(v)]
               b == tables[a.to][PdptIndex(v)]
               c == tables[b.to][PdIndex(v)]
           IN  /\ a.present /\ b.present /\ c.present
               /\ a.to \in 1 .. last /\ b.to \in 1 .. last /\ c.to \in 1 .. last
               /\ depth[c.to] = 3
               /\ Walk(v) = tables[c.to][PtIndex(v)]
               /\ LeafTable(v) = c.to
<1> DEFINE a == tables[0][Pml4Index(v)]
           b == tables[a.to][PdptIndex(v)]
           c == tables[b.to][PdIndex(v)]
<1>i. /\ Pml4Index(v) \in Index /\ PdptIndex(v) \in Index
      /\ PdIndex(v) \in Index /\ PtIndex(v) \in Index
  BY IndexTypes
<1>1. /\ a.present /\ b.present /\ c.present
      /\ Walk(v) = tables[c.to][PtIndex(v)]
  <2>1. ~ Zero.present  BY DEF Zero
  <2> QED BY <2>1 DEF Walk
<1>2. last \in Nat /\ 0 \in 0 .. last /\ \A x \in 1 .. last : x \in 0 .. last
  BY ConstantsAreSane DEF TypeOK, Table
<1>3. /\ tables[0][Pml4Index(v)].present
      /\ tables[a.to][PdptIndex(v)].present
      /\ tables[b.to][PdIndex(v)].present
  BY <1>1
<1>4. a.to \in 1 .. last /\ depth[a.to] = 1
  <2>1. depth[0] = 0  BY DEF Good, Memory
  <2>2. depth[0] < 3  BY <2>1
  <2>3. tables[0][Pml4Index(v)].to \in 1 .. last
        /\ depth[tables[0][Pml4Index(v)].to] = depth[0] + 1
    BY <1>2, <1>3, <1>i, <2>2, ChildIsOneDown
  <2> QED BY <2>1, <2>3
<1>5. b.to \in 1 .. last /\ depth[b.to] = 2
  <2>1. a.to \in 0 .. last /\ depth[a.to] < 3  BY <1>2, <1>4
  <2> HIDE DEF a
  <2>2. tables[a.to][PdptIndex(v)].to \in 1 .. last
        /\ depth[tables[a.to][PdptIndex(v)].to] = depth[a.to] + 1
    <3> DEFINE x == a.to
    <3>1. x \in 0 .. last /\ depth[x] < 3 /\ tables[x][PdptIndex(v)].present  BY <1>3, <2>1
    <3> HIDE DEF x
    <3>2. tables[x][PdptIndex(v)].to \in 1 .. last
          /\ depth[tables[x][PdptIndex(v)].to] = depth[x] + 1
      BY <3>1, <1>i, ChildIsOneDown
    <3> QED BY <3>2 DEF x
  <2> QED BY <1>4, <2>2
<1>6. c.to \in 1 .. last /\ depth[c.to] = 3
  <2>1. b.to \in 0 .. last /\ depth[b.to] < 3  BY <1>2, <1>5
  <2> HIDE DEF b
  <2>2. tables[b.to][PdIndex(v)].to \in 1 .. last
        /\ depth[tables[b.to][PdIndex(v)].to] = depth[b.to] + 1
    <3> DEFINE x == b.to
    <3>1. x \in 0 .. last /\ depth[x] < 3 /\ tables[x][PdIndex(v)].present  BY <1>3, <2>1
    <3> HIDE DEF x
    <3>2. tables[x][PdIndex(v)].to \in 1 .. last
          /\ depth[tables[x][PdIndex(v)].to] = depth[x] + 1
      BY <3>1, <1>i, ChildIsOneDown
    <3> QED BY <3>2 DEF x
  <2> QED BY <1>5, <2>2
<1>7. LeafTable(v) = c.to  BY DEF LeafTable
<1> QED BY <1>1, <1>4, <1>5, <1>6, <1>7

LEMMA InitInv == Init => Inv
<1> SUFFICES ASSUME Init PROVE Inv
  OBVIOUS
<1>1. MaxTable \in Nat /\ Junk \in Entry  BY ConstantsAreSane
<1>2. Idle \in [kind: {"idle", "map", "unmap"}, va: Nat, pa: Nat, left: Nat, uc: BOOLEAN]
  BY DEF Idle
<1>3. TypeOK  BY <1>1, <1>2 DEF Init, TypeOK, Table
<1> QED BY <1>1, <1>3 DEF Init, Inv, Live, Idle, Table

LEMMA NextInv == Inv /\ [Next]_vars => Inv'
<1> SUFFICES ASSUME Inv, [Next]_vars PROVE Inv'
  OBVIOUS
<1>0. /\ MaxTable \in Nat /\ KernelPa \in Nat /\ KernelBytes \in Nat /\ VideoPa \in Nat
      /\ PageSize \in Nat /\ 2 * PageSize \in Nat
  BY ConstantsAreSane
<1>t. TypeOK  BY DEF Inv
<1> DEFINE Jobs == [kind: {"idle", "map", "unmap"}, va: Nat, pa: Nat, left: Nat, uc: BOOLEAN]
<1>idle. Idle \in Jobs  BY DEF Idle
\* A step that leaves the tables alone and stays in the same mode keeps Inv.
<1>same. ASSUME UNCHANGED <<tables, last, depth>>, job' \in Jobs,
                phase' \in {"off", "kernel", "video", "on", "halted"},
                Live <=> Live', phase' = "off" => phase = "off",
                job'.kind # "idle" => Live'
         PROVE  Inv'
  <2>1. TypeOK'  BY <1>t, <1>same DEF TypeOK
  <2>2. Memory' = Memory  BY <1>same DEF Memory
  <2> QED BY <2>1, <2>2, <1>same DEF Inv
<1>1. CASE MmuInit
  <2>1. CASE TRUE \in ChunkExists /\ phase' = "kernel"
    <3>1. /\ tables' = [tables EXCEPT ![0] = Cleared] /\ last' = last /\ depth' = depth
          /\ job' = MapJob(KernelPa, KernelBytes, PA2VA(KernelPa), FALSE)
          /\ phase = "off"
      BY <1>1, <2>1 DEF MmuInit
    <3>2. Cleared \in [Index -> Entry]  BY DEF Cleared, Entry, Zero
    <3>3. job' \in Jobs  BY <3>1, <1>0, JobTypes
    <3>4. TypeOK'  BY <1>t, <2>1, <3>1, <3>2, <3>3 DEF TypeOK
    <3>5. last = 0 /\ depth[0] = 0  BY <3>1 DEF Inv
    <3>6. tables'[0] = Cleared  BY <3>1, <1>t, <1>0 DEF TypeOK, Table
    <3>7. \A i \in Index : ~ tables'[0][i].present  BY <3>6 DEF Cleared, Zero
    <3>8. Memory'.tab = tables' /\ Memory'.last = 0 /\ Memory'.depth = depth
      BY <3>1, <3>5 DEF Memory
    <3>9. MemType(Memory')  BY <3>4 DEF MemType, Memory, TypeOK
    <3>10. Down(Memory')  BY <3>7, <3>8 DEF Down
    <3>11. Unshared(Memory')  BY <3>7, <3>8 DEF Unshared
    <3>12. Linked(Memory')  BY <3>8 DEF Linked
    <3>13. Good(Memory')  BY <3>9, <3>10, <3>11, <3>12, <3>8, <3>5 DEF Good
    <3> QED BY <3>4, <3>13, <2>1 DEF Inv, Live
  <2>2. CASE phase' = "halted" /\ UNCHANGED <<tables, job, last, depth>>
    <3>1. phase = "off"  BY <1>1 DEF MmuInit
    <3>2. job.kind = "idle"  BY <3>1 DEF Inv, Live
    <3> QED BY <2>2, <3>1, <3>2, <1>t, <1>same DEF TypeOK, Live
  <2> QED BY <1>1, <2>1, <2>2 DEF MmuInit
<1>2. CASE MmuInitMapVideo
  <2>1. job' \in Jobs  BY <1>2, <1>0, JobTypes DEF MmuInitMapVideo
  <2> QED BY <1>2, <2>1, <1>same DEF MmuInitMapVideo, Live
<1>3. CASE MmuInitWriteCr3
  BY <1>3, <1>t, <1>same DEF MmuInitWriteCr3, Live, TypeOK
<1>4. CASE \E c \in MapCalls : MmuMapToVa(c)
  <2> PICK c \in MapCalls : MmuMapToVa(c)  BY <1>4
  <2>1. c.pa \in Nat /\ c.size \in Nat /\ c.uc \in BOOLEAN  BY ConstantsAreSane
  <2>2. job' \in Jobs  BY <2>1, JobTypes DEF MmuMapToVa
  <2> QED BY <2>2, <1>t, <1>same DEF MmuMapToVa, Live, TypeOK
<1>5. CASE \E c \in IdentityCalls : MapIdentity(c)
  <2> PICK c \in IdentityCalls : MapIdentity(c)  BY <1>5
  <2>1. c.pa \in Nat /\ c.size \in Nat /\ c.uc \in BOOLEAN  BY ConstantsAreSane
  <2>2. job' \in Jobs  BY <2>1, JobTypes DEF MapIdentity
  <2> QED BY <2>2, <1>t, <1>same DEF MapIdentity, Live, TypeOK
<1>6. CASE \E c \in UnmapCalls : MmuUnmapFromVa(c)
  <2> PICK c \in UnmapCalls : MmuUnmapFromVa(c)  BY <1>6
  <2>1. c.va \in Nat /\ c.size \in Nat  BY ConstantsAreSane
  <2>2. job' \in Jobs  BY <2>1, JobTypes DEF MmuUnmapFromVa
  <2> QED BY <2>2, <1>t, <1>same DEF MmuUnmapFromVa, Live, TypeOK
<1>7. CASE MapPage
  <2> DEFINE m == MapOne(Memory, job.va, Leaf(job.pa, job.uc))
  <2>1. Live /\ Good(Memory)  BY <1>7 DEF MapPage, Inv
  <2>2. job.va \in Nat /\ job.pa \in Nat /\ job.uc \in BOOLEAN /\ job.left \in Nat
    BY <1>t DEF TypeOK
  <2>3. Leaf(job.pa, job.uc) \in Entry  BY <2>2 DEF Leaf, Entry
  <2>4. Memory.last + 3 <= MaxTable  BY <1>7 DEF MapPage, Memory
  <2>5. Good(m)  BY <2>1, <2>2, <2>3, <2>4, MapOneGood
  <2>6. /\ tables' = m.tab /\ last' = m.last /\ depth' = m.depth /\ phase' = phase
        /\ job' = [job EXCEPT !.va = @ + 1, !.pa = @ + 1, !.left = @ - 1] /\ job.left > 0
    BY <1>7 DEF MapPage
  <2> HIDE DEF m
  <2>7. job' \in Jobs
    <3>1. job \in Jobs  BY <1>t DEF TypeOK
    <3>2. job.va + 1 \in Nat /\ job.pa + 1 \in Nat /\ job.left - 1 \in Nat  BY <2>2, <2>6
    <3> QED BY <3>1, <3>2, <2>6
  <2>8. TypeOK'  BY <2>5, <2>6, <2>7, <1>t DEF Good, MemType, TypeOK
  <2>9. Good(Memory')
    <3>1. m = [tab |-> m.tab, last |-> m.last, depth |-> m.depth]
      BY <2>5 DEF Good, MemType
    <3>2. Memory' = m  BY <3>1, <2>6 DEF Memory
    <3> QED BY <3>2, <2>5
  <2> QED BY <2>1, <2>6, <2>8, <2>9 DEF Inv, Live
<1>8. CASE UnmapPage
  <2>1. Live /\ Good(Memory)  BY <1>8 DEF UnmapPage, Inv
  <2>2. job.va \in Nat /\ job.left \in Nat /\ job.left > 0  BY <1>8, <1>t DEF TypeOK, UnmapPage
  <2>3. CASE ~ Walk(job.va).present
    <3>1. UNCHANGED <<tables, last, depth, phase>> /\ job' = [job EXCEPT !.left = @ - 1]
      BY <1>8, <2>3 DEF UnmapPage
    <3>2. job' \in Jobs  BY <3>1, <2>2, <1>t DEF TypeOK
    <3> QED BY <3>1, <3>2, <2>1, <1>t, <1>same DEF Live, TypeOK
  <2>4. CASE Walk(job.va).present
    <3> DEFINE t == LeafTable(job.va)
               i == PtIndex(job.va)
    <3>1. t \in 1 .. last /\ depth[t] = 3  BY <2>1, <2>2, <2>4, <1>t, PresentWalk
    <3>2. i \in Index  BY <2>2, IndexTypes
    <3> HIDE DEF t, i
    <3>3. /\ tables' = [tables EXCEPT ![t][i] = Zero]
          /\ job' = [job EXCEPT !.va = @ + 1, !.left = @ - 1]
          /\ UNCHANGED <<last, depth, phase>>
      BY <1>8, <2>4 DEF UnmapPage, t, i
    <3>4. job' \in Jobs
      <4>1. job \in Jobs  BY <1>t DEF TypeOK
      <4>2. job.va + 1 \in Nat /\ job.left - 1 \in Nat  BY <2>2
      <4> QED BY <4>1, <4>2, <3>3
    <3>5. Zero \in Entry  BY DEF Zero, Entry
    <3>6. TypeOK'  BY <3>3, <3>4, <3>5, <1>t DEF TypeOK
    <3>7. last \in Nat /\ 0 .. last \subseteq Table  BY <1>t, <1>0 DEF TypeOK, Table
    <3>8. \A u \in 0 .. last : depth[u] < 3 => tables'[u] = tables[u]
      BY <3>1, <3>3, <3>7, <1>t DEF TypeOK
    <3>9. Memory'.tab = tables' /\ Memory'.last = last /\ Memory'.depth = depth
          /\ Memory.tab = tables /\ Memory.last = last /\ Memory.depth = depth
      BY <3>3 DEF Memory
    <3>10. MemType(Memory')  BY <3>6 DEF MemType, Memory, TypeOK
    <3>11. Down(Memory')  BY <3>8, <3>9, <2>1 DEF Down, Good
    <3>12. Unshared(Memory')  BY <3>8, <3>9, <2>1 DEF Unshared, Good
    <3>13. Linked(Memory')  BY <3>8, <3>9, <2>1 DEF Linked, Good
    <3>14. Good(Memory')  BY <3>9, <3>10, <3>11, <3>12, <3>13, <2>1 DEF Good
    <3> QED BY <2>1, <3>3, <3>6, <3>14 DEF Inv, Live
  <2> QED BY <2>3, <2>4
<1>9. CASE Return
  <2>1. Live  BY <1>9 DEF Return, Inv
  <2>2. job' \in Jobs /\ UNCHANGED <<tables, last, depth, phase>>
    BY <1>9, <1>idle DEF Return
  <2> QED BY <2>1, <2>2, <1>t, <1>same DEF Live, TypeOK
<1>10. CASE UNCHANGED vars
  BY <1>10, <1>t, <1>same DEF vars, Inv, Live, TypeOK
<1> QED
  BY <1>1, <1>2, <1>3, <1>4, <1>5, <1>6, <1>7, <1>8, <1>9, <1>10 DEF Next

\* Every variable keeps its type, whatever calls are made.
THEOREM TypesCorrect == Spec => []TypeOK
<1>1. Inv => TypeOK  BY DEF Inv
<1> QED BY <1>1, InitInv, NextInv, PTL DEF Spec

\* The tables in use form a tree of four levels: links go one level down to tables
\* MmuRetrieveNextTablePhysicalAddress returned, no two entries link the same one,
\* and all it returned are linked, however many calls there are.
THEOREM TablesFormATree == Spec => []TablesAreATree
<1>1. Inv => LinksGoDown
  BY DEF Inv, Good, Down, Memory, LinksGoDown
<1>2. Inv => NoSharedTable
  BY DEF Inv, Good, Unshared, Memory, NoSharedTable
<1>3. Inv => EveryTableIsLinked
  BY DEF Inv, Good, Linked, Memory, EveryTableIsLinked
<1>4. Inv => TablesAreATree  BY <1>1, <1>2, <1>3 DEF TablesAreATree
<1> QED BY <1>4, InitInv, NextInv, PTL DEF Spec

\* A map loop never changes the translation of a page that is mapped already.
THEOREM MappingNeverRemaps == Spec => MapNeverRemaps
<1> DEFINE Keeps == \A v \in VPages :
                      (Live /\ job.kind = "map" /\ Walk(v).present) => Walk(v)' = Walk(v)
<1>1. Inv /\ [Next]_vars => [Keeps]_vars
  <2> SUFFICES ASSUME Inv, Next, NEW v \in VPages,
                      Live, job.kind = "map", Walk(v).present
               PROVE  Walk(v)' = Walk(v)
    OBVIOUS
  <2>v. v \in Nat  BY DEF VPages
  <2>t. TypeOK /\ Good(Memory)  BY DEF Inv
  <2>1. CASE MapPage
    <3> DEFINE m == MapOne(Memory, job.va, Leaf(job.pa, job.uc))
               a == tables[0][Pml4Index(v)]
               b == tables[a.to][PdptIndex(v)]
               c == tables[b.to][PdIndex(v)]
               d == tables[c.to][PtIndex(v)]
    <3>i. /\ Pml4Index(v) \in Index /\ PdptIndex(v) \in Index
          /\ PdIndex(v) \in Index /\ PtIndex(v) \in Index
      BY <2>v, IndexTypes
    <3>1. Leaf(job.pa, job.uc) \in Entry /\ job.va \in Nat
      BY <2>t DEF TypeOK, Leaf, Entry
    <3>2. Memory.last + 3 <= MaxTable  BY <2>1 DEF MapPage, Memory
    <3>3. Grows(Memory, m)  BY <3>1, <3>2, <2>t, MapOneGood
    <3>4. tables' = m.tab  BY <2>1 DEF MapPage
    <3> HIDE DEF m
    <3>5. \A t \in 0 .. last : \A i \in Index :
             tables[t][i].present => tables'[t][i] = tables[t][i]
      BY <3>3, <3>4 DEF Grows, Memory
    <3>6. /\ a.present /\ b.present /\ c.present /\ Walk(v) = d /\ d.present
          /\ a.to \in 1 .. last /\ b.to \in 1 .. last /\ c.to \in 1 .. last
      BY <2>t, <2>v, PresentWalk
    <3>7. last \in Nat /\ 0 \in 0 .. last /\ \A x \in 1 .. last : x \in 0 .. last
      BY <2>t, ConstantsAreSane DEF TypeOK, Table
    <3>8. tables'[0][Pml4Index(v)] = a  BY <3>5, <3>6, <3>7, <3>i
    <3>9. tables'[a.to][PdptIndex(v)] = b  BY <3>5, <3>6, <3>7, <3>i
    <3>10. tables'[b.to][PdIndex(v)] = c  BY <3>5, <3>6, <3>7, <3>i
    <3>11. tables'[c.to][PtIndex(v)] = d  BY <3>5, <3>6, <3>7, <3>i
    <3> QED BY <3>6, <3>8, <3>9, <3>10, <3>11 DEF Walk
  <2>2. CASE UNCHANGED tables
    BY <2>2 DEF Walk
  <2>3. MapPage \/ UNCHANGED tables
    BY DEF Next, MmuInit, MmuInitMapVideo, MmuInitWriteCr3, MmuMapToVa, MapIdentity,
           MmuUnmapFromVa, UnmapPage, Return, Live
  <2> QED BY <2>1, <2>2, <2>3
<1>2. Spec => [][Keeps]_vars  BY <1>1, InitInv, NextInv, PTL DEF Spec
<1> QED BY <1>2 DEF MapNeverRemaps
---------------------------------------------------------------------------
(* Which frame a page has. The second inductive invariant needs to know    *)
(* where the running call is: its pages are inside the address space, and  *)
(* it maps either Offset pages up or one-to-one below Offset.              *)

FrameOf(v) == IF v < PageOf(Offset) THEN v ELSE v - PageOf(Offset)

LastPage == Fan * Fan * Fan * Fan

Placed ==
    /\ Live => \A v \in VPages : Present(Memory, v) => E4(Memory, v).to = FrameOf(v)
    /\ (job.kind = "map" /\ job.left > 0) =>
         /\ job.va + job.left <= LastPage
         /\ \/ job.va = job.pa + PageOf(Offset)
            \/ job.va = job.pa /\ job.va + job.left <= PageOf(Offset)
    /\ (job.kind = "unmap" /\ job.left > 0) => job.va + job.left <= LastPage

\* Walk is the walk through the current tables.
LEMMA WalkIs ==
    ASSUME NEW v
    PROVE  /\ Walk(v).present <=> Present(Memory, v)
           /\ Present(Memory, v) => Walk(v) = E4(Memory, v) /\ LeafTable(v) = E3(Memory, v).to
BY DEF Walk, LeafTable, Present, Upper, E1, E2, E3, E4, Memory, Zero

\* PA2VA shifts by whole pages; a range that ends below Offset spans only pages
\* below it.
LEMMA PagesOfRanges ==
    ASSUME NEW pa \in Nat, NEW size \in Nat
    PROVE  /\ PageOf(PA2VA(pa)) = PageOf(pa) + PageOf(Offset)
           /\ pa + size <= Offset => PageOf(pa) + PagesSpanned(pa, size) <= PageOf(Offset)
           /\ PageOf(pa) \in Nat /\ PageOf(Offset) \in Nat /\ PagesSpanned(pa, size) \in Nat
<1> DEFINE P == PageSize
           a == pa \div P
           b == pa % P
           o == Offset \div P
           n == PagesSpanned(pa, size)
           s == (b + size + P - 1) % P
<1>0. P \in Nat \ {0} /\ Offset \in Nat  BY ConstantsAreSane
<1>1. a \in Nat /\ b \in 0 .. P - 1 /\ pa = P * a + b  BY <1>0, DivMod
<1>2. o \in Nat /\ Offset = P * o
  <2>1. Offset % P = 0  BY CallsFit
  <2> QED BY <1>0, <2>1, DivMod
<1>3. n \in Nat /\ s \in 0 .. P - 1 /\ b + size + P - 1 = P * n + s
  <2>1. b + size + P - 1 \in Nat  BY <1>0, <1>1
  <2>2. n = (b + size + P - 1) \div P  BY DEF PagesSpanned
  <2> HIDE DEF b, n
  <2> QED BY <1>0, <2>1, <2>2, DivMod
<1>d. PageOf(pa) = a /\ PageOf(Offset) = o /\ n = PagesSpanned(pa, size)  BY DEF PageOf
<1>e. PageOf(PA2VA(pa)) = (pa + Offset) \div P  BY DEF PageOf, PA2VA
<1> HIDE DEF P, a, b, o, n, s
<1>m. P * a \in Nat /\ P * o \in Nat /\ P * n \in Nat  BY <1>0, <1>1, <1>2, <1>3
<1>4. (pa + Offset) \div P = a + o
  <2>1. pa + Offset = P * (a + o) + b
    <3>1. P * (a + o) = P * a + P * o  BY <1>0, <1>1, <1>2
    <3> QED BY <3>1, <1>0, <1>1, <1>2, <1>m
  <2>2. a + o \in Nat  BY <1>1, <1>2
  <2> DEFINE c == a + o
  <2>3. c \in Nat /\ pa + Offset = P * c + b  BY <2>1, <2>2
  <2> HIDE DEF c
  <2>4. (P * c + b) \div P = c  BY <1>0, <1>1, <2>3, QuotientUnique
  <2> QED BY <2>3, <2>4 DEF c
<1>5. ASSUME pa + size <= Offset  PROVE a + n <= o
  <2> SUFFICES ASSUME o + 1 <= a + n  PROVE FALSE
    BY <1>1, <1>2, <1>3
  <2>1. P * (o + 1) <= P * (a + n)  BY <1>0, <1>1, <1>2, <1>3, MulMono
  <2>2. P * (o + 1) = P * o + P /\ P * (a + n) = P * a + P * n
    BY <1>0, <1>1, <1>2, <1>3
  <2>3. P * a + P * n + s = pa + size + P - 1  BY <1>0, <1>1, <1>3, <1>m
  <2> QED BY <1>0, <1>2, <1>3, <1>5, <1>m, <2>1, <2>2, <2>3
<1> QED BY <1>1, <1>2, <1>3, <1>4, <1>5, <1>d, <1>e

\* Every call starts on pages of the address space, in one of the two ways.
LEMMA CallsStartPlaced ==
    /\ LastPage \in Nat /\ VPages = 0 .. LastPage - 1 /\ PageOf(Offset) \in VPages
    /\ \A pa, size, uc : (/\ pa \in Nat /\ size \in Nat
                          /\ PageOf(PA2VA(pa)) + PagesSpanned(pa, size) <= LastPage) =>
          LET j == MapJob(pa, size, PA2VA(pa), uc)
          IN  j.va + j.left <= LastPage /\ j.va = j.pa + PageOf(Offset)
    /\ \A pa, size, uc : (pa \in Nat /\ size \in Nat /\ pa + size <= Offset) =>
          LET j == MapJob(pa, size, pa, uc)
          IN  j.va \in VPages /\ j.va = j.pa /\ j.va + j.left <= PageOf(Offset)
<1>0. Fan \in Nat \ {0} /\ LastPage \in Nat /\ VPages = 0 .. LastPage - 1
  BY ConstantsAreSane DEF LastPage, VPages
<1>1. PageOf(Offset) \in VPages
  <2>1. KernelPa \in Nat /\ PageOf(PA2VA(KernelPa)) \in VPages
    BY ConstantsAreSane, CallsFit
  <2>2. PageOf(PA2VA(KernelPa)) = PageOf(KernelPa) + PageOf(Offset)
        /\ PageOf(KernelPa) \in Nat /\ PageOf(Offset) \in Nat
    <3>1. 0 \in Nat OBVIOUS
    <3> QED BY <3>1, <2>1, PagesOfRanges
  <2> QED BY <1>0, <2>1, <2>2
<1>2. ASSUME NEW pa \in Nat, NEW size \in Nat, NEW uc,
             PageOf(PA2VA(pa)) + PagesSpanned(pa, size) <= LastPage
      PROVE  LET j == MapJob(pa, size, PA2VA(pa), uc)
             IN  j.va + j.left <= LastPage /\ j.va = j.pa + PageOf(Offset)
  BY <1>2, PagesOfRanges DEF MapJob
<1>3. ASSUME NEW pa \in Nat, NEW size \in Nat, NEW uc, pa + size <= Offset
      PROVE  LET j == MapJob(pa, size, pa, uc)
             IN  j.va \in VPages /\ j.va = j.pa /\ j.va + j.left <= PageOf(Offset)
  <2>1. /\ PageOf(pa) + PagesSpanned(pa, size) <= PageOf(Offset)
        /\ PageOf(pa) \in Nat /\ PageOf(Offset) \in Nat /\ PagesSpanned(pa, size) \in Nat
    BY <1>3, PagesOfRanges
  <2> QED BY <1>0, <1>1, <2>1 DEF MapJob
<1> QED BY <1>0, <1>1, <1>2, <1>3

\* What one map iteration does, seen from the pages.
LEMMA MapPageView ==
    ASSUME Inv, Placed, MapPage
    PROVE  /\ Live /\ Live' /\ job.va \in VPages
           /\ Present(Memory', job.va)
           /\ E4(Memory', job.va) = IF Present(Memory, job.va) THEN E4(Memory, job.va)
                                    ELSE Leaf(job.pa, job.uc)
           /\ \A w \in VPages : w # job.va => SameAt(Memory, Memory', w)
<1> DEFINE m == MapOne(Memory, job.va, Leaf(job.pa, job.uc))
<1>1. /\ TypeOK /\ Live /\ Good(Memory) /\ job.kind = "map" /\ job.left > 0
      /\ phase' = phase /\ Memory.last + 3 <= MaxTable
  BY DEF Inv, MapPage, Memory
<1>2. job.va \in Nat /\ job.pa \in Nat /\ job.uc \in BOOLEAN /\ job.left \in Nat
  BY <1>1 DEF TypeOK
<1>3. job.va \in VPages  BY <1>1, <1>2, CallsStartPlaced DEF Placed
<1>4. Leaf(job.pa, job.uc) \in Entry /\ Leaf(job.pa, job.uc).present
  BY <1>2 DEF Leaf, Entry
<1>5. Good(m) /\ tables' = m.tab /\ last' = m.last /\ depth' = m.depth
  BY <1>1, <1>2, <1>4, MapOneGood DEF MapPage
<1>6. /\ Present(m, job.va)
      /\ E4(m, job.va) = IF Present(Memory, job.va) THEN E4(Memory, job.va)
                         ELSE Leaf(job.pa, job.uc)
      /\ \A w \in VPages : w # job.va => SameAt(Memory, m, w)
  BY <1>1, <1>3, <1>4, MapOneFillsHole
<1> HIDE DEF m
<1>7. Memory' = m
  <2>1. m = [tab |-> m.tab, last |-> m.last, depth |-> m.depth]
    BY <1>5 DEF Good, MemType
  <2> QED BY <2>1, <1>5 DEF Memory
<1> QED BY <1>1, <1>3, <1>6, <1>7 DEF Live

\* What one unmap iteration does when it finds the page mapped.
LEMMA UnmapPageView ==
    ASSUME Inv, Placed, UnmapPage, Walk(job.va).present
    PROVE  /\ Live /\ Live' /\ job.va \in VPages
           /\ ~ Present(Memory', job.va)
           /\ \A w \in VPages : w # job.va => SameAt(Memory, Memory', w)
<1>1. /\ TypeOK /\ Live /\ Good(Memory) /\ job.kind = "unmap" /\ job.left > 0
      /\ phase' = phase
  BY DEF Inv, UnmapPage
<1>2. job.va \in Nat /\ job.left \in Nat  BY <1>1 DEF TypeOK
<1>3. job.va \in VPages  BY <1>1, <1>2, CallsStartPlaced DEF Placed
<1>4. Upper(Memory, job.va) /\ LeafTable(job.va) = E3(Memory, job.va).to
  BY WalkIs DEF Present
<1>5. Memory'.tab = [Memory.tab EXCEPT ![E3(Memory, job.va).to][PtIndex(job.va)] = Zero]
  <2>1. tables' = [tables EXCEPT ![LeafTable(job.va)][PtIndex(job.va)] = Zero]
    BY DEF UnmapPage
  <2>2. Memory'.tab = tables' /\ Memory.tab = tables  BY DEF Memory
  <2> QED BY <2>1, <2>2, <1>4
<1>6. /\ E4(Memory', job.va) = Zero
      /\ \A w \in VPages : w # job.va => SameAt(Memory, Memory', w)
  <2> DEFINE m == Memory
             n == Memory'
             v == job.va
             z == Zero
  <2>1. LeafWritten(m, n, v, z) /\ Good(m) /\ v \in VPages /\ Upper(m, v)
    BY <1>1, <1>3, <1>4, <1>5 DEF LeafWritten
  <2> HIDE DEF m, n, v, z
  <2>2. E4(n, v) = z /\ \A w \in VPages : w # v => SameAt(m, n, w)
    BY <2>1, LeafEdit
  <2> QED BY <2>2 DEF m, n, v, z
<1> QED BY <1>1, <1>3, <1>6 DEF Live, Present, Zero

\* MmuInit clears the PML4: no page is mapped when the first loop starts.
LEMMA MmuInitView ==
    ASSUME Inv, MmuInit, Live'
    PROVE  /\ phase = "off" /\ phase' = "kernel" /\ job.kind = "idle"
           /\ job' = MapJob(KernelPa, KernelBytes, PA2VA(KernelPa), FALSE)
           /\ \A v \in VPages : ~ Present(Memory', v)
<1>1. /\ phase = "off" /\ phase' = "kernel" /\ tables' = [tables EXCEPT ![0] = Cleared]
      /\ job' = MapJob(KernelPa, KernelBytes, PA2VA(KernelPa), FALSE)
  BY DEF MmuInit, Live
<1>2. job.kind = "idle" /\ TypeOK  BY <1>1 DEF Inv, Live
<1>3. \A i \in Index : ~ tables'[0][i].present
  <2>1. tables'[0] = Cleared  BY <1>1, <1>2, ConstantsAreSane DEF TypeOK, Table
  <2> QED BY <2>1 DEF Cleared, Zero
<1>4. \A v \in VPages : Pml4Index(v) \in Index
  <2>1. \A v \in VPages : v \in Nat  BY DEF VPages
  <2> QED BY <2>1, IndexTypes
<1>5. \A v \in VPages : ~ E1(Memory', v).present  BY <1>3, <1>4 DEF E1, Memory
<1> QED BY <1>1, <1>2, <1>5 DEF Present, Upper

LEMMA InitPlaced == Init => Placed
BY DEF Init, Placed, Live, Idle

LEMMA NextPlaced == Inv /\ Placed /\ [Next]_vars => Placed'
<1> SUFFICES ASSUME Inv, Placed, [Next]_vars PROVE Placed'
  OBVIOUS
<1>t. TypeOK  BY DEF Inv
<1>o. PageOf(Offset) \in Nat /\ LastPage \in Nat
  BY CallsStartPlaced DEF VPages
<1> DEFINE JobPlaced ==
      /\ (job.kind = "map" /\ job.left > 0) =>
           /\ job.va + job.left <= LastPage
           /\ \/ job.va = job.pa + PageOf(Offset)
              \/ job.va = job.pa /\ job.va + job.left <= PageOf(Offset)
      /\ (job.kind = "unmap" /\ job.left > 0) => job.va + job.left <= LastPage
\* A step that leaves the tables alone need only keep the job in place.
<1>same. ASSUME UNCHANGED <<tables, last, depth>>, Live' => Live, JobPlaced'
         PROVE  Placed'
  <2>1. Memory' = Memory  BY <1>same DEF Memory
  <2> QED BY <1>same, <2>1 DEF Placed, FrameOf
<1>1. CASE MmuInit
  <2>1. CASE ~ Live'
    <3>1. job.kind = "idle" /\ job' = job
      BY <1>1, <2>1 DEF MmuInit, Inv, Live
    <3> QED BY <2>1, <3>1 DEF Placed
  <2>2. CASE Live'
    <3>1. /\ job' = MapJob(KernelPa, KernelBytes, PA2VA(KernelPa), FALSE)
          /\ \A v \in VPages : ~ Present(Memory', v)
      BY <1>1, <2>2, MmuInitView
    <3>2. /\ KernelPa \in Nat /\ KernelBytes \in Nat
          /\ PageOf(PA2VA(KernelPa)) + PagesSpanned(KernelPa, KernelBytes) <= LastPage
      BY ConstantsAreSane, CallsFit DEF LastPage
    <3>3. job'.va + job'.left <= LastPage /\ job'.va = job'.pa + PageOf(Offset)
      BY <3>1, <3>2, CallsStartPlaced
    <3>4. job'.kind = "map"  BY <3>1 DEF MapJob
    <3> QED BY <3>1, <3>3, <3>4 DEF Placed
  <2> QED BY <2>1, <2>2
<1>2. CASE MmuInitMapVideo
  <2>1. /\ job' = MapJob(VideoPa, 2 * PageSize, VideoPa, FALSE)
        /\ UNCHANGED <<tables, last, depth>> /\ Live
    BY <1>2 DEF MmuInitMapVideo, Live
  <2>2. VideoPa \in Nat /\ 2 * PageSize \in Nat /\ VideoPa + 2 * PageSize <= Offset
    BY ConstantsAreSane
  <2>3. /\ job'.va \in VPages /\ job'.va = job'.pa /\ job'.va + job'.left <= PageOf(Offset)
    BY <2>1, <2>2, CallsStartPlaced
  <2>4. job'.kind = "map" /\ job'.left \in Nat  BY <2>1, <2>2, PagesOfRanges DEF MapJob
  <2>5. JobPlaced'  BY <2>3, <2>4, <1>o, CallsStartPlaced
  <2> QED BY <2>1, <2>5, <1>same
<1>3. CASE MmuInitWriteCr3
  BY <1>3, <1>same DEF MmuInitWriteCr3, Live, Idle
<1>4. CASE \E c \in MapCalls : MmuMapToVa(c)
  <2> PICK c \in MapCalls : MmuMapToVa(c)  BY <1>4
  <2>1. /\ job' = MapJob(c.pa, c.size, PA2VA(c.pa), c.uc)
        /\ UNCHANGED <<tables, last, depth>> /\ Live
    BY DEF MmuMapToVa, Live
  <2>2. /\ c.pa \in Nat /\ c.size \in Nat
        /\ PageOf(PA2VA(c.pa)) + PagesSpanned(c.pa, c.size) <= LastPage
    BY ConstantsAreSane, CallsFit DEF LastPage
  <2>3. job'.va + job'.left <= LastPage /\ job'.va = job'.pa + PageOf(Offset)
    BY <2>1, <2>2, CallsStartPlaced
  <2>4. job'.kind = "map"  BY <2>1 DEF MapJob
  <2>5. JobPlaced'  BY <2>3, <2>4
  <2> QED BY <2>1, <2>5, <1>same
<1>5. CASE \E c \in IdentityCalls : MapIdentity(c)
  <2> PICK c \in IdentityCalls : MapIdentity(c)  BY <1>5
  <2>1. /\ job' = MapJob(c.pa, c.size, c.pa, c.uc)
        /\ UNCHANGED <<tables, last, depth>> /\ Live
    BY DEF MapIdentity, Live
  <2>2. c.pa \in Nat /\ c.size \in Nat /\ c.pa + c.size <= Offset
    BY ConstantsAreSane
  <2>3. /\ job'.va \in VPages /\ job'.va = job'.pa /\ job'.va + job'.left <= PageOf(Offset)
    BY <2>1, <2>2, CallsStartPlaced
  <2>4. job'.kind = "map" /\ job'.left \in Nat  BY <2>1, <2>2, PagesOfRanges DEF MapJob
  <2>5. JobPlaced'  BY <2>3, <2>4, <1>o, CallsStartPlaced
  <2> QED BY <2>1, <2>5, <1>same
<1>6. CASE \E c \in UnmapCalls : MmuUnmapFromVa(c)
  <2> PICK c \in UnmapCalls : MmuUnmapFromVa(c)  BY <1>6
  <2>1. /\ job' = [kind |-> "unmap", va |-> PageOf(c.va), pa |-> 0,
                   left |-> PagesSpanned(c.va, c.size), uc |-> FALSE]
        /\ UNCHANGED <<tables, last, depth>> /\ Live
    BY DEF MmuUnmapFromVa, Live
  <2>2. PageOf(c.va) + PagesSpanned(c.va, c.size) <= LastPage
    BY CallsFit DEF LastPage
  <2>3. JobPlaced'  BY <2>1, <2>2
  <2> QED BY <2>1, <2>3, <1>same
<1>7. CASE MapPage
  <2>1. /\ job.va \in VPages /\ Live /\ Live'
        /\ E4(Memory', job.va) = IF Present(Memory, job.va) THEN E4(Memory, job.va)
                                 ELSE Leaf(job.pa, job.uc)
        /\ \A w \in VPages : w # job.va => SameAt(Memory, Memory', w)
    BY <1>7, MapPageView
  <2>2. job.va \in Nat /\ job.pa \in Nat /\ job.left \in Nat  BY <1>t DEF TypeOK
  <2>3. job.kind = "map" /\ job.left > 0  BY <1>7 DEF MapPage
  <2>4. job.pa = FrameOf(job.va)  BY <2>2, <2>3, <1>o DEF Placed, FrameOf
  <2>5. Leaf(job.pa, job.uc).to = job.pa  BY DEF Leaf
  <2>6. \A v \in VPages : Present(Memory', v) => E4(Memory', v).to = FrameOf(v)
    BY <2>1, <2>4, <2>5 DEF Placed, SameAt
  <2>7. JobPlaced'
    <3>1. /\ job'.kind = job.kind /\ job'.va = job.va + 1 /\ job'.pa = job.pa + 1
          /\ job'.left = job.left - 1
      BY <1>7, <1>t DEF MapPage, TypeOK
    <3> QED BY <3>1, <2>2, <2>3, <1>o DEF Placed
  <2> QED BY <2>6, <2>7 DEF Placed, FrameOf
<1>8. CASE UnmapPage
  <2>1. job.kind = "unmap" /\ job.left > 0 /\ job.left \in Nat /\ job.va \in Nat
    BY <1>8, <1>t DEF UnmapPage, TypeOK
  <2>2. CASE Walk(job.va).present
    <3>1. /\ job.va \in VPages /\ Live /\ Live' /\ ~ Present(Memory', job.va)
          /\ \A w \in VPages : w # job.va => SameAt(Memory, Memory', w)
      BY <1>8, <2>2, UnmapPageView
    <3>2. \A v \in VPages : Present(Memory', v) => E4(Memory', v).to = FrameOf(v)
      BY <3>1 DEF Placed, SameAt
    <3>3. JobPlaced'
      <4>1. job'.kind = job.kind /\ job'.va = job.va + 1 /\ job'.left = job.left - 1
        BY <1>8, <2>2, <1>t DEF UnmapPage, TypeOK
      <4> QED BY <4>1, <2>1, <1>o DEF Placed
    <3> QED BY <3>2, <3>3 DEF Placed, FrameOf
  <2>3. CASE ~ Walk(job.va).present
    <3>1. /\ job'.kind = job.kind /\ job'.va = job.va /\ job'.left = job.left - 1
          /\ UNCHANGED <<tables, last, depth, phase>>
      BY <1>8, <2>3, <1>t DEF UnmapPage, TypeOK
    <3>2. JobPlaced'  BY <3>1, <2>1, <1>o DEF Placed
    <3> QED BY <3>1, <3>2, <1>same DEF Live
  <2> QED BY <2>2, <2>3
<1>9. CASE Return
  BY <1>9, <1>same DEF Return, Live, Idle
<1>10. CASE UNCHANGED vars
  <2>1. JobPlaced  BY DEF Placed
  <2> QED BY <2>1, <1>10, <1>same DEF vars, Live
<1> QED
  BY <1>1, <1>2, <1>3, <1>4, <1>5, <1>6, <1>7, <1>8, <1>9, <1>10 DEF Next

LEMMA AlwaysPlaced == Spec => [](Inv /\ Placed)
BY InitInv, NextInv, InitPlaced, NextPlaced, PTL DEF Spec

\* A virtual page is only ever backed by the frame its address stands for: its
\* own number below Offset, VA2PA of it above.
THEOREM PagesKeepTheirAddress == Spec => []MappedAtItsAddress
<1>1. Inv /\ Placed => MappedAtItsAddress
  <2> SUFFICES ASSUME Placed, Live, NEW v \in VPages, Walk(v).present
               PROVE  Walk(v).to = IF v < PageOf(Offset) THEN v ELSE v - PageOf(Offset)
    BY DEF MappedAtItsAddress
  <2>1. Present(Memory, v) /\ Walk(v) = E4(Memory, v)  BY WalkIs
  <2> QED BY <2>1 DEF Placed, FrameOf
<1> QED BY <1>1, AlwaysPlaced, PTL

---------------------------------------------------------------------------
(* The refinement: under SpaceOf, every step of the tables is one of       *)
(* AddressSpace or a stutter.                                              *)

\* What the abstract space holds for a page, before and after a step.
LEMMA SpaceIs ==
    ASSUME NEW v \in VPages
    PROVE  /\ SpaceOf[v] = IF Live /\ Present(Memory, v)
                           THEN [frame |-> E4(Memory, v).to, uc |-> E4(Memory, v).uc]
                           ELSE NoFrame
           /\ SpaceOf'[v] = IF Live' /\ Present(Memory', v)
                            THEN [frame |-> E4(Memory', v).to, uc |-> E4(Memory', v).uc]
                            ELSE NoFrame
<1>1. SpaceOf[v] = IF Live /\ Walk(v).present
                   THEN [frame |-> Walk(v).to, uc |-> Walk(v).uc] ELSE NoFrame
  BY DEF SpaceOf
<1>2. SpaceOf'[v] = IF Live' /\ Walk(v)'.present
                    THEN [frame |-> Walk(v)'.to, uc |-> Walk(v)'.uc] ELSE NoFrame
  BY DEF SpaceOf
<1>3. /\ Walk(v)'.present <=> Present(Memory', v)
      /\ Present(Memory', v) => Walk(v)' = E4(Memory', v)
  BY DEF Walk, Present, Upper, E1, E2, E3, E4, Memory, Zero
<1>4. /\ Walk(v).present <=> Present(Memory, v)
      /\ Present(Memory, v) => Walk(v) = E4(Memory, v)
  BY WalkIs
<1> QED BY <1>1, <1>2, <1>3, <1>4

LEMMA SpaceTypes ==
    /\ DOMAIN SpaceOf = VPages /\ SpaceOf = [v \in VPages |-> SpaceOf[v]]
    /\ DOMAIN SpaceOf' = VPages /\ SpaceOf' = [v \in VPages |-> SpaceOf'[v]]
BY DEF SpaceOf

\* A mapped page is never mistaken for a hole.
LEMMA MappedIsNotAHole ==
    ASSUME Placed, NEW v \in VPages
    PROVE  (Live /\ Present(Memory, v)) <=> SpaceOf[v] # NoFrame
<1>1. v \in Nat /\ PageOf(Offset) \in Nat  BY CallsStartPlaced DEF VPages
<1>2. FrameOf(v) # -1  BY <1>1 DEF FrameOf
<1>3. ASSUME Live, Present(Memory, v) PROVE SpaceOf[v] # NoFrame
  <2> DEFINE e == E4(Memory, v)
             s == SpaceOf[v]
  <2>1. e.to = FrameOf(v)  BY <1>3 DEF Placed
  <2>2. s = [frame |-> e.to, uc |-> e.uc]  BY <1>3, SpaceIs
  <2> HIDE DEF e, s
  <2>3. s # NoFrame  BY <1>2, <2>1, <2>2 DEF NoFrame
  <2> QED BY <2>3 DEF s
<1> QED BY <1>3, SpaceIs

\* Pages that look the same to the processor are the same to the abstraction.
LEMMA SameIsSame ==
    ASSUME NEW v \in VPages, Live, Live', SameAt(Memory, Memory', v)
    PROVE  SpaceOf'[v] = SpaceOf[v]
BY SpaceIs DEF SameAt

LEMMA InitRefines == Init => Abstract!Init
<1> SUFFICES ASSUME Init PROVE Abstract!Init
  OBVIOUS
<1>1. ~ Live /\ job.kind = "idle"  BY DEF Init, Live, Idle
<1>2. SpaceOf = [v \in VPages |-> NoFrame]  BY <1>1 DEF SpaceOf
<1> QED BY <1>1, <1>2 DEF Abstract!Init

\* A call that leaves the tables alone starts with a job on a page of the space.
LEMMA StartRefines ==
    ASSUME NEW kind \in {"map", "unmap"}, job.kind = "idle", UNCHANGED SpaceOf,
           job' \in [kind: {"idle", "map", "unmap"}, va: Nat, pa: Nat, left: Nat, uc: BOOLEAN],
           job'.kind = kind, job'.va \in VPages
    PROVE  Abstract!Next
<1>1. job' \in [kind: {kind}, va: VPages, pa: Nat, left: Nat, uc: BOOLEAN]
  OBVIOUS
<1>2. Abstract!Start(kind)  BY <1>1 DEF Abstract!Start
<1> QED BY <1>2 DEF Abstract!Next

LEMMA NextRefines ==
    Inv /\ Inv' /\ Placed /\ [Next]_vars => [Abstract!Next]_<<SpaceOf, job>>
<1> SUFFICES ASSUME Inv, Inv', Placed, [Next]_vars
             PROVE  Abstract!Next \/ UNCHANGED <<SpaceOf, job>>
  OBVIOUS
<1>t. TypeOK /\ TypeOK'  BY DEF Inv
<1>j. job' \in [kind: {"idle", "map", "unmap"}, va: Nat, pa: Nat, left: Nat, uc: BOOLEAN]
  BY <1>t DEF TypeOK
<1>same. ASSUME UNCHANGED tables, Live' <=> Live  PROVE UNCHANGED SpaceOf
  BY <1>same DEF SpaceOf, Walk
<1>1. CASE MmuInit
  <2>1. CASE ~ Live'
    <3>1. UNCHANGED tables /\ UNCHANGED job /\ ~ Live  BY <1>1, <2>1 DEF MmuInit, Live
    <3> QED BY <2>1, <3>1, <1>same
  <2>2. CASE Live'
    <3>1. /\ ~ Live /\ job.kind = "idle"
          /\ job' = MapJob(KernelPa, KernelBytes, PA2VA(KernelPa), FALSE)
          /\ \A v \in VPages : ~ Present(Memory', v)
      BY <1>1, <2>2, MmuInitView DEF Live
    <3>2. \A v \in VPages : SpaceOf'[v] = SpaceOf[v]  BY <3>1, SpaceIs
    <3>3. UNCHANGED SpaceOf
      <4> DEFINE s == SpaceOf
                 t == SpaceOf'
      <4>1. s = [v \in VPages |-> s[v]] /\ t = [v \in VPages |-> t[v]]
            /\ \A v \in VPages : t[v] = s[v]
        BY <3>2, SpaceTypes
      <4> HIDE DEF s, t
      <4>2. t = s  BY <4>1
      <4> QED BY <4>2 DEF s, t
    <3>4. job'.kind = "map" /\ job'.va \in VPages  BY <3>1, CallsFit DEF MapJob
    <3> QED BY <1>j, <3>1, <3>3, <3>4, StartRefines
  <2> QED BY <2>1, <2>2
<1>2. CASE MmuInitMapVideo
  <2>1. /\ job' = MapJob(VideoPa, 2 * PageSize, VideoPa, FALSE)
        /\ job.kind = "idle" /\ UNCHANGED tables /\ Live /\ Live'
    BY <1>2 DEF MmuInitMapVideo, Live, Idle
  <2>2. VideoPa \in Nat /\ 2 * PageSize \in Nat /\ VideoPa + 2 * PageSize <= Offset
    BY ConstantsAreSane
  <2>3. job'.va \in VPages  BY <2>1, <2>2, CallsStartPlaced
  <2>4. job'.kind = "map"  BY <2>1 DEF MapJob
  <2> QED BY <1>j, <2>1, <2>3, <2>4, <1>same, StartRefines
<1>3. CASE MmuInitWriteCr3
  BY <1>3, <1>same DEF MmuInitWriteCr3, Live
<1>4. CASE \E c \in MapCalls : MmuMapToVa(c)
  <2> PICK c \in MapCalls : MmuMapToVa(c)  BY <1>4
  <2>1. /\ job' = MapJob(c.pa, c.size, PA2VA(c.pa), c.uc)
        /\ job.kind = "idle" /\ UNCHANGED tables /\ Live /\ Live'
    BY DEF MmuMapToVa, Live, Idle
  <2>2. job'.kind = "map" /\ job'.va \in VPages  BY <2>1, CallsFit DEF MapJob
  <2> QED BY <1>j, <2>1, <2>2, <1>same, StartRefines
<1>5. CASE \E c \in IdentityCalls : MapIdentity(c)
  <2> PICK c \in IdentityCalls : MapIdentity(c)  BY <1>5
  <2>1. /\ job' = MapJob(c.pa, c.size, c.pa, c.uc)
        /\ job.kind = "idle" /\ UNCHANGED tables /\ Live /\ Live'
    BY DEF MapIdentity, Live, Idle
  <2>2. c.pa \in Nat /\ c.size \in Nat /\ c.pa + c.size <= Offset
    BY ConstantsAreSane
  <2>3. job'.va \in VPages  BY <2>1, <2>2, CallsStartPlaced
  <2>4. job'.kind = "map"  BY <2>1 DEF MapJob
  <2> QED BY <1>j, <2>1, <2>3, <2>4, <1>same, StartRefines
<1>6. CASE \E c \in UnmapCalls : MmuUnmapFromVa(c)
  <2> PICK c \in UnmapCalls : MmuUnmapFromVa(c)  BY <1>6
  <2>1. /\ job' = [kind |-> "unmap", va |-> PageOf(c.va), pa |-> 0,
                   left |-> PagesSpanned(c.va, c.size), uc |-> FALSE]
        /\ job.kind = "idle" /\ UNCHANGED tables /\ Live /\ Live'
    BY DEF MmuUnmapFromVa, Live, Idle
  <2>2. job'.kind = "unmap" /\ job'.va \in VPages  BY <2>1, CallsFit
  <2> QED BY <1>j, <2>1, <2>2, <1>same, StartRefines
\* FillHole: the page of the job, and no other, may change.
<1>7. CASE MapPage
  <2> DEFINE v == job.va
             f == [frame |-> job.pa, uc |-> job.uc]
  <2>1. /\ v \in VPages /\ Live /\ Live' /\ Present(Memory', v)
        /\ E4(Memory', v) = IF Present(Memory, v) THEN E4(Memory, v)
                            ELSE Leaf(job.pa, job.uc)
        /\ \A w \in VPages : w # v => SameAt(Memory, Memory', w)
    BY <1>7, MapPageView
  <2>2. SpaceOf'[v] = IF SpaceOf[v] = NoFrame THEN f ELSE SpaceOf[v]
    <3>1. CASE Present(Memory, v)
      <4>1. SpaceOf'[v] = SpaceOf[v]  BY <2>1, <3>1, SpaceIs
      <4>2. SpaceOf[v] # NoFrame  BY <2>1, <3>1, MappedIsNotAHole
      <4> QED BY <4>1, <4>2
    <3>2. CASE ~ Present(Memory, v)
      <4>1. SpaceOf[v] = NoFrame  BY <2>1, <3>2, SpaceIs
      <4>2. SpaceOf'[v] = f
        <5> DEFINE e == E4(Memory', v)
                   s == SpaceOf'[v]
        <5>1. s = [frame |-> e.to, uc |-> e.uc]  BY <2>1, SpaceIs
        <5>2. e = Leaf(job.pa, job.uc)  BY <2>1, <3>2
        <5> HIDE DEF e, s
        <5>3. e.to = job.pa /\ e.uc = job.uc  BY <5>2 DEF Leaf
        <5>4. s = f  BY <5>1, <5>3
        <5> QED BY <5>4 DEF s
      <4> QED BY <4>1, <4>2
    <3> QED BY <3>1, <3>2
  <2>3. \A w \in VPages : w # v => SpaceOf'[w] = SpaceOf[w]  BY <2>1, SameIsSame
  <2>4. SpaceOf' = [SpaceOf EXCEPT ![v] = IF @ = NoFrame THEN f ELSE @]
    <3> DEFINE s == SpaceOf
               t == SpaceOf'
               z == NoFrame
    <3>1. /\ s = [w \in VPages |-> s[w]] /\ t = [w \in VPages |-> t[w]] /\ v \in VPages
          /\ t[v] = IF s[v] = z THEN f ELSE s[v]
          /\ \A w \in VPages : w # v => t[w] = s[w]
      BY <2>1, <2>2, <2>3, SpaceTypes
    <3> HIDE DEF s, t, z, f, v
    <3>2. t = [s EXCEPT ![v] = IF s[v] = z THEN f ELSE s[v]]  BY <3>1
    <3> QED BY <3>2 DEF s, t, z
  <2>5. Abstract!FillHole  BY <1>7, <2>4 DEF Abstract!FillHole, MapPage
  <2> QED BY <2>5 DEF Abstract!Next
<1>8. CASE UnmapPage
  <2>1. job.kind = "unmap" /\ job.left > 0 /\ job.left \in Nat /\ job.va \in Nat /\ Live
    BY <1>8, <1>t DEF UnmapPage, TypeOK, Inv
  <2>v. job.va \in VPages  BY <2>1, CallsStartPlaced DEF Placed
  <2>2. CASE Walk(job.va).present
    <3> DEFINE v == job.va
    <3>1. /\ Live' /\ ~ Present(Memory', v)
          /\ \A w \in VPages : w # v => SameAt(Memory, Memory', w)
      BY <1>8, <2>2, UnmapPageView
    <3>2. SpaceOf'[v] = NoFrame  BY <2>v, <3>1, SpaceIs
    <3>3. \A w \in VPages : w # v => SpaceOf'[w] = SpaceOf[w]  BY <2>1, <3>1, SameIsSame
    <3>4. SpaceOf' = [SpaceOf EXCEPT ![v] = NoFrame]
      <4> DEFINE s == SpaceOf
                 t == SpaceOf'
                 z == NoFrame
      <4>1. /\ s = [w \in VPages |-> s[w]] /\ t = [w \in VPages |-> t[w]] /\ v \in VPages
            /\ t[v] = z /\ \A w \in VPages : w # v => t[w] = s[w]
        BY <2>v, <3>2, <3>3, SpaceTypes
      <4> HIDE DEF s, t, z, v
      <4>2. t = [s EXCEPT ![v] = z]  BY <4>1
      <4> QED BY <4>2 DEF s, t, z
    <3>5. SpaceOf[v] # NoFrame
      <4>1. Present(Memory, v)  BY <2>2, WalkIs
      <4> QED BY <2>1, <2>v, <4>1, MappedIsNotAHole
    <3>6. job' = [job EXCEPT !.va = @ + 1, !.left = @ - 1]  BY <1>8, <2>2 DEF UnmapPage
    <3>7. Abstract!RemovePage  BY <2>1, <3>4, <3>5, <3>6 DEF Abstract!RemovePage
    <3> QED BY <3>7 DEF Abstract!Next
  <2>3. CASE ~ Walk(job.va).present
    <3>1. /\ job' = [job EXCEPT !.left = @ - 1] /\ UNCHANGED tables /\ Live'
      BY <1>8, <2>1, <2>3 DEF UnmapPage, Live
    <3>2. UNCHANGED SpaceOf  BY <2>1, <3>1, <1>same
    <3>3. SpaceOf[job.va] = NoFrame
      <4>1. ~ Present(Memory, job.va)  BY <2>3, WalkIs
      <4> QED BY <2>v, <4>1, SpaceIs
    <3>4. Abstract!StopAtHole  BY <2>1, <3>1, <3>2, <3>3 DEF Abstract!StopAtHole
    <3> QED BY <3>4 DEF Abstract!Next
  <2> QED BY <2>2, <2>3
<1>9. CASE Return
  <2>1. UNCHANGED SpaceOf  BY <1>9, <1>same DEF Return, Live
  <2>2. Abstract!Return  BY <1>9, <2>1 DEF Return, Idle, Abstract!Return
  <2> QED BY <2>2 DEF Abstract!Next
<1>10. CASE UNCHANGED vars
  BY <1>10, <1>same DEF vars, Live
<1> QED
  BY <1>1, <1>2, <1>3, <1>4, <1>5, <1>6, <1>7, <1>8, <1>9, <1>10 DEF Next

\* The four-level tables are an address space: whatever calls are made, a map
\* fills the holes of its range and an unmap removes its longest mapped prefix,
\* one page per iteration and nothing else.
THEOREM TablesAreAnAddressSpace == Spec => ImplementsAddressSpace
<1>1. Init => Abstract!Init  BY InitRefines
<1>2. Inv /\ Inv' /\ Placed /\ [Next]_vars => [Abstract!Next]_<<SpaceOf, job>>
  BY NextRefines
<1> QED
  BY <1>1, <1>2, AlwaysPlaced, PTL DEF Spec, ImplementsAddressSpace, Abstract!Spec
===========================================================================
