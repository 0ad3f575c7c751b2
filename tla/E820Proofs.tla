----------------------------- MODULE E820Proofs -----------------------------
(***************************************************************************)
(* Theorems about E820 for every firmware map, any boundaries and any      *)
(* sequence of calls.                                                      *)
(*                                                                         *)
(* BootInv relates the part of the guest's map built so far to the entries *)
(* of the firmware's map the loop has passed, address by address. CallInv  *)
(* says what an INT 15h in progress has done, and that the entries a       *)
(* caller has collected are the first ones of the guest's map.             *)
(***************************************************************************)
EXTENDS E820, SequenceTheorems, TLAPS

Covers(e, a) == e.base <= a /\ a < End(e)

\* What the entries before n of the firmware's map contribute at an address.
Converted(n, a) == UNION {TypesAt(Pieces(map[i]), a) : i \in 1 .. n - 1}

BootInv ==
    /\ \A a \in Nat : TypesAt(modified, a) = Converted(next, a)
    /\ Running => next = Len(map) + 1

Collected ==
    seen # <<>> =>
        /\ Len(seen) <= Len(modified)
        /\ \A i \in 1 .. Len(seen) : seen[i] = modified[i]
        /\ cont = IF Len(seen) = Len(modified) THEN 0 ELSE Len(seen)

CallInv ==
    /\ ~ Running => seen = <<>>
    /\ pc = "vmcall" => asked = bx
    /\ (pc = "iret" /\ ss = 0 /\ ~ carry) =>
          /\ asked < Len(modified) /\ buffer = modified[asked + 1]
          /\ bx = IF asked = Len(modified) - 1 THEN 0 ELSE asked + 1
    /\ Collected

Inv == TypeOK /\ BootInv /\ CallInv

---------------------------------------------------------------------------
(* What one entry becomes *)

LEMMA TypesAtDef ==
    ASSUME NEW m, NEW a, NEW x
    PROVE  x \in TypesAt(m, a) <=> \E i \in DOMAIN m : Covers(m[i], a) /\ x = m[i].type
BY DEF TypesAt, Covers

LEMMA OneEntry ==
    ASSUME NEW e, NEW a
    PROVE  TypesAt(<<e>>, a) = IF Covers(e, a) THEN {e.type} ELSE {}
<1>1. DOMAIN <<e>> = {1} /\ <<e>>[1] = e  OBVIOUS
<1> QED BY <1>1 DEF TypesAt, Covers

LEMMA CarveEntries ==
    ASSUME NEW e \in Entry, NEW base \in Nat, NEW size \in Nat, Contains(e, base, size)
    PROVE  /\ Carve(e, base, size) \in Seq(Entry)
           /\ \A a \in Nat :
                TypesAt(Carve(e, base, size), a) =
                    IF a \in base .. base + size - 1 THEN {Unusable}
                    ELSE IF Covers(e, a) THEN {e.type} ELSE {}
<1> DEFINE p == Piece(e.base, base - e.base, e.type)
           q == Piece(base, size, Unusable)
           r == Piece(base + size, End(e) - (base + size), e.type)
<1>1. e.base \in Nat /\ e.len \in Nat /\ e.type \in Types /\ Unusable \in Types
  BY DEF Entry, Types, Unusable
<1>2. e.base <= base /\ e.base + e.len > base + size  BY DEF Contains, End
<1>3. p \in Entry /\ q \in Entry /\ r \in Entry
  BY <1>1, <1>2 DEF Piece, Entry, End
<1>4. Carve(e, base, size) = <<p, q, r>>  BY DEF Carve
<1>5. ASSUME NEW a \in Nat
      PROVE  /\ Covers(p, a) <=> (e.base <= a /\ a < base)
             /\ Covers(q, a) <=> (base <= a /\ a < base + size)
             /\ Covers(r, a) <=> (base + size <= a /\ a < e.base + e.len)
             /\ Covers(e, a) <=> (e.base <= a /\ a < e.base + e.len)
             /\ p.type = e.type /\ q.type = Unusable /\ r.type = e.type
  BY <1>1, <1>2, <1>5 DEF Covers, Piece, End
<1> HIDE DEF p, q, r
<1>6. DOMAIN <<p, q, r>> = 1 .. 3 /\ <<p, q, r>>[1] = p /\ <<p, q, r>>[2] = q /\ <<p, q, r>>[3] = r
  OBVIOUS
<1>7. ASSUME NEW a \in Nat
      PROVE  TypesAt(<<p, q, r>>, a) =
               IF a \in base .. base + size - 1 THEN {Unusable}
               ELSE IF Covers(e, a) THEN {e.type} ELSE {}
  <2>1. \A x : x \in TypesAt(<<p, q, r>>, a) <=>
             \/ Covers(p, a) /\ x = p.type
             \/ Covers(q, a) /\ x = q.type
             \/ Covers(r, a) /\ x = r.type
    BY <1>6, TypesAtDef
  <2>2. CASE a \in base .. base + size - 1
    <3>1. ~ Covers(p, a) /\ Covers(q, a) /\ ~ Covers(r, a)  BY <1>1, <1>5, <2>2
    <3> QED BY <2>1, <2>2, <3>1, <1>5
  <2>3. CASE a \notin base .. base + size - 1
    <3>1. ~ Covers(q, a) /\ (Covers(e, a) <=> Covers(p, a) \/ Covers(r, a))
      BY <1>1, <1>2, <1>5, <2>3
    <3> QED BY <2>1, <2>3, <3>1, <1>5
  <2> QED BY <2>2, <2>3
<1>8. <<p, q, r>> \in Seq(Entry)  BY <1>3
<1>9. Carve(e, base, size) \in Seq(Entry)  BY <1>4, <1>8
<1>10. \A a \in Nat : TypesAt(Carve(e, base, size), a) = TypesAt(<<p, q, r>>, a)  BY <1>4
<1> QED BY <1>7, <1>9, <1>10

\* Outside the two reserved ranges an entry keeps its type, nowhere does it reach
\* further than before, and the hypervisor's range is cut out of an entry that
\* strictly contains it.
LEMMA PiecesOfEntry ==
    ASSUME NEW e \in Entry
    PROVE  /\ Pieces(e) \in Seq(Entry)
           /\ \A a \in Nat :
                /\ a \notin HypervisorRange \cup LoaderRange =>
                     TypesAt(Pieces(e), a) = IF Covers(e, a) THEN {e.type} ELSE {}
                /\ ~ Covers(e, a) => TypesAt(Pieces(e), a) = {}
                /\ a \in HypervisorRange /\ Contains(e, Kernel, KernelSize) =>
                     TypesAt(Pieces(e), a) = {Unusable}
<1>0. Kernel \in Nat /\ KernelSize \in Nat /\ Loader \in Nat /\ LoaderSize \in Nat
      /\ Loader + LoaderSize <= Kernel
  BY ConstantsAreSane
<1>e. e.base \in Nat /\ e.len \in Nat  BY DEF Entry
<1>1. CASE Contains(e, Kernel, KernelSize)
  <2>1. Pieces(e) = Carve(e, Kernel, KernelSize)  BY <1>1 DEF Pieces
  <2>2. \A a \in HypervisorRange : a \in Nat => Covers(e, a)
    BY <1>0, <1>1, <1>e DEF HypervisorRange, Contains, Covers, End
  <2>3. Carve(e, Kernel, KernelSize) \in Seq(Entry)  BY <1>0, <1>1, CarveEntries
  <2>4. \A a \in Nat : TypesAt(Carve(e, Kernel, KernelSize), a) =
              IF a \in HypervisorRange THEN {Unusable}
              ELSE IF Covers(e, a) THEN {e.type} ELSE {}
    BY <1>0, <1>1, CarveEntries DEF HypervisorRange
  <2> QED BY <2>1, <2>2, <2>3, <2>4
<1>2. CASE ~ Contains(e, Kernel, KernelSize) /\ Contains(e, Loader, LoaderSize)
  <2>1. Pieces(e) = Carve(e, Loader, LoaderSize)  BY <1>2 DEF Pieces
  <2>2. \A a \in LoaderRange : a \in Nat => Covers(e, a)
    BY <1>0, <1>2, <1>e DEF LoaderRange, Contains, Covers, End
  <2>3. Carve(e, Loader, LoaderSize) \in Seq(Entry)  BY <1>0, <1>2, CarveEntries
  <2>4. \A a \in Nat : TypesAt(Carve(e, Loader, LoaderSize), a) =
              IF a \in LoaderRange THEN {Unusable}
              ELSE IF Covers(e, a) THEN {e.type} ELSE {}
    BY <1>0, <1>2, CarveEntries DEF LoaderRange
  <2> QED BY <1>2, <2>1, <2>2, <2>3, <2>4
<1>3. CASE ~ Contains(e, Kernel, KernelSize) /\ ~ Contains(e, Loader, LoaderSize)
  <2>1. Pieces(e) = <<e>>  BY <1>3 DEF Pieces
  <2>2. <<e>> \in Seq(Entry)  OBVIOUS
  <2> QED BY <1>3, <2>1, <2>2, OneEntry
<1> QED BY <1>1, <1>2, <1>3

\* The types a concatenation gives are those of either part.
LEMMA TypesOfConcat ==
    ASSUME NEW s \in Seq(Entry), NEW t \in Seq(Entry), NEW a
    PROVE  TypesAt(s \o t, a) = TypesAt(s, a) \cup TypesAt(t, a)
<1>1. /\ s \o t \in Seq(Entry) /\ Len(s \o t) = Len(s) + Len(t)
      /\ \A i \in 1 .. Len(s) + Len(t) :
            (s \o t)[i] = IF i <= Len(s) THEN s[i] ELSE t[i - Len(s)]
  BY ConcatProperties
<1>2. Len(s) \in Nat /\ Len(t) \in Nat /\ DOMAIN s = 1 .. Len(s) /\ DOMAIN t = 1 .. Len(t)
      /\ DOMAIN (s \o t) = 1 .. Len(s) + Len(t)
  BY <1>1, LenProperties
<1> DEFINE u == s \o t
<1>3. /\ DOMAIN u = 1 .. Len(s) + Len(t)
      /\ \A i \in 1 .. Len(s) : u[i] = s[i] /\ i \in DOMAIN u
      /\ \A i \in 1 .. Len(t) : u[Len(s) + i] = t[i] /\ Len(s) + i \in DOMAIN u
      /\ \A i \in DOMAIN u : i \in DOMAIN s \/ i - Len(s) \in DOMAIN t
      /\ \A i \in DOMAIN u : u[i] = IF i <= Len(s) THEN s[i] ELSE t[i - Len(s)]
  BY <1>1, <1>2
<1> HIDE DEF u
<1>4. ASSUME NEW x PROVE x \in TypesAt(u, a) <=> x \in TypesAt(s, a) \/ x \in TypesAt(t, a)
  <2>1. ASSUME x \in TypesAt(u, a) PROVE x \in TypesAt(s, a) \/ x \in TypesAt(t, a)
    <3>1. PICK i \in DOMAIN u : Covers(u[i], a) /\ x = u[i].type  BY <2>1, TypesAtDef
    <3>2. CASE i <= Len(s)
      <4>1. i \in DOMAIN s /\ u[i] = s[i]  BY <1>2, <1>3, <3>2
      <4> QED BY <3>1, <4>1, TypesAtDef
    <3>3. CASE ~ i <= Len(s)
      <4>1. i - Len(s) \in DOMAIN t /\ u[i] = t[i - Len(s)]  BY <1>2, <1>3, <3>3
      <4> QED BY <3>1, <4>1, TypesAtDef
    <3> QED BY <3>2, <3>3
  <2>2. ASSUME x \in TypesAt(s, a) PROVE x \in TypesAt(u, a)
    <3>1. PICK i \in DOMAIN s : Covers(s[i], a) /\ x = s[i].type  BY <2>2, TypesAtDef
    <3>2. i \in DOMAIN u /\ u[i] = s[i]  BY <1>2, <1>3
    <3> QED BY <3>1, <3>2, TypesAtDef
  <2>3. ASSUME x \in TypesAt(t, a) PROVE x \in TypesAt(u, a)
    <3>1. PICK i \in DOMAIN t : Covers(t[i], a) /\ x = t[i].type  BY <2>3, TypesAtDef
    <3>2. Len(s) + i \in DOMAIN u /\ u[Len(s) + i] = t[i]  BY <1>2, <1>3
    <3> QED BY <3>1, <3>2, TypesAtDef
  <2> QED BY <2>1, <2>2, <2>3
<1> QED BY <1>4 DEF u

---------------------------------------------------------------------------
(* The invariant *)

LEMMA MapTypes ==
    ASSUME TypeOK
    PROVE  /\ map \in Seq(Entry) /\ Len(map) \in Nat /\ DOMAIN map = 1 .. Len(map)
           /\ \A i \in 1 .. Len(map) : map[i] \in Entry
           /\ modified \in Seq(Entry) /\ Len(modified) \in Nat
           /\ DOMAIN modified = 1 .. Len(modified)
           /\ \A i \in 1 .. Len(modified) : modified[i] \in Entry
<1>1. map \in Seq(Entry) /\ modified \in Seq(Entry)  BY ConstantsAreSane DEF TypeOK
<1> QED BY <1>1, LenProperties, ElementOfSeq

LEMMA InitInv == Init => Inv
<1> SUFFICES ASSUME Init PROVE Inv
  OBVIOUS
<1>1. /\ map \in Maps /\ modified = <<>> /\ next = 1 /\ pc = "check"
      /\ seen = <<>>
  BY DEF Init
<1>2. map \in Seq(Entry) /\ Len(map) \in Nat  BY <1>1, ConstantsAreSane, LenProperties
<1>3. NoEntry \in Entry /\ <<>> \in Seq(Entry)
  BY DEF NoEntry, Entry, Types, Unusable
<1>4. TypeOK
  <2>1. next \in 1 .. Len(map) + 1
    BY <1>1, <1>2
  <2>2. /\ bx \in Nat /\ ss \in Nat /\ asked \in Nat /\ cont \in Nat
        /\ sig \in BOOLEAN /\ room \in BOOLEAN /\ carry \in BOOLEAN
    BY DEF Init
  <2>3. ax \in {"e820", "smap", "other"} /\ buffer \in Entry
    BY <1>3 DEF Init
  <2>4. modified \in Seq(Entry) /\ seen \in Seq(Entry)
    BY <1>1, <1>3
  <2>5. pc \in {"check", "create", "app", "vmcall", "iret", "original", "halted"}
    BY <1>1
  <2> QED BY <1>1, <2>1, <2>2, <2>3, <2>4, <2>5 DEF TypeOK
<1>5. BootInv
  <2>1. DOMAIN modified = {}  BY <1>1
  <2>2. 1 .. next - 1 = {}  BY <1>1
  <2>3. \A a : TypesAt(modified, a) = {} /\ Converted(next, a) = {}
    BY <2>1, <2>2 DEF TypesAt, Converted
  <2> QED BY <1>1, <2>3 DEF BootInv, Running
<1>6. CallInv  BY <1>1 DEF CallInv, Collected, Running
<1> QED BY <1>4, <1>5, <1>6 DEF Inv

LEMMA NextInv == Inv /\ [Next]_vars => Inv'
<1> SUFFICES ASSUME Inv, [Next]_vars PROVE Inv'
  OBVIOUS
<1>t. TypeOK  BY DEF Inv
<1>m. /\ map \in Seq(Entry) /\ Len(map) \in Nat
      /\ \A i \in 1 .. Len(map) : map[i] \in Entry
      /\ modified \in Seq(Entry) /\ Len(modified) \in Nat
      /\ \A i \in 1 .. Len(modified) : modified[i] \in Entry
  BY <1>t, MapTypes
\* A step of the running guest leaves the map alone.
<1>boot. ASSUME UNCHANGED boot, Running' => Running  PROVE BootInv'
  <2>1. map' = map /\ modified' = modified /\ next' = next  BY <1>boot DEF boot
  <2> QED BY <2>1, <1>boot DEF Inv, BootInv, Converted
<1>1. CASE MmuInit
  <2>1. /\ pc = "check" /\ pc' \in {"create", "halted"} /\ UNCHANGED boot /\ UNCHANGED guest
    BY <1>1 DEF MmuInit
  <2>2. TypeOK'  BY <1>t, <2>1 DEF TypeOK, boot, guest
  <2>3. BootInv'  BY <2>1, <1>boot DEF Running
  <2>4. CallInv'  BY <2>1 DEF Inv, CallInv, Collected, Running, boot, guest
  <2> QED BY <2>2, <2>3, <2>4 DEF Inv
<1>2. CASE MmuCreateModifiedE820MemoryMap
  <2>1. pc = "create" /\ map' = map /\ UNCHANGED guest /\ seen = <<>>
    BY <1>2 DEF MmuCreateModifiedE820MemoryMap, Inv, CallInv, Running
  <2>2. CASE next <= Len(map)
    <3>1. modified' = modified \o Pieces(map[next]) /\ next' = next + 1 /\ pc' = pc
      BY <1>2, <2>2 DEF MmuCreateModifiedE820MemoryMap
    <3>2. next \in 1 .. Len(map) /\ next \in Nat  BY <1>t, <1>m, <2>2 DEF TypeOK
    <3>3. map[next] \in Entry /\ Pieces(map[next]) \in Seq(Entry)
      BY <3>2, <1>m, PiecesOfEntry
    <3>4. modified' \in Seq(Entry)  BY <3>1, <3>3, <1>m, ConcatProperties
    <3>5. next' \in 1 .. Len(map) + 1  BY <3>1, <3>2, <1>m
    <3>6. TypeOK'  BY <1>t, <2>1, <3>1, <3>4, <3>5 DEF TypeOK, guest
    <3>7. ASSUME NEW a \in Nat PROVE TypesAt(modified', a) = Converted(next, a)'
      <4>1. TypesAt(modified', a) = TypesAt(modified, a) \cup TypesAt(Pieces(map[next]), a)
        BY <3>1, <3>3, <1>m, TypesOfConcat
      <4>2. TypesAt(modified, a) = Converted(next, a)  BY DEF Inv, BootInv
      <4>3. 1 .. next' - 1 = (1 .. next - 1) \cup {next}  BY <3>1, <3>2
      <4>4. Converted(next, a)' = UNION {TypesAt(Pieces(map[i]), a) : i \in 1 .. next' - 1}
        BY <2>1 DEF Converted
      <4>5. UNION {TypesAt(Pieces(map[i]), a) : i \in 1 .. next' - 1}
              = Converted(next, a) \cup TypesAt(Pieces(map[next]), a)
        BY <4>3 DEF Converted
      <4> QED BY <4>1, <4>2, <4>4, <4>5
    <3>8. BootInv'  BY <2>1, <3>1, <3>7 DEF BootInv, Running
    <3>9. CallInv'  BY <2>1, <3>1 DEF CallInv, Collected, Running, guest
    <3> QED BY <3>6, <3>8, <3>9 DEF Inv
  <2>3. CASE ~ next <= Len(map)
    <3>1. pc' = "app" /\ modified' = modified /\ next' = next
      BY <1>2, <2>3 DEF MmuCreateModifiedE820MemoryMap
    <3>2. next = Len(map) + 1  BY <1>t, <1>m, <2>3 DEF TypeOK
    <3>3. TypeOK'  BY <1>t, <2>1, <3>1 DEF TypeOK, guest
    <3>4. BootInv'  BY <2>1, <3>1, <3>2 DEF Inv, BootInv, Converted
    <3>5. CallInv'  BY <2>1, <3>1 DEF CallInv, Collected, guest
    <3> QED BY <3>3, <3>4, <3>5 DEF Inv
  <2> QED BY <2>2, <2>3
<1>3. CASE Int15
  <2>1. /\ pc = "app" /\ pc' = "vmcall" /\ UNCHANGED boot /\ asked' = bx' /\ bx' \in Nat
        /\ UNCHANGED <<buffer, cont, seen>>
    BY <1>3, ConstantsAreSane DEF Int15
  <2>2. TypeOK'  BY <1>3, <1>t, <2>1, ConstantsAreSane DEF Int15, TypeOK, boot
  <2>3. BootInv'  BY <2>1, <1>boot DEF Running
  <2>4. CallInv'  BY <2>1 DEF Inv, CallInv, Collected, Running, boot
  <2> QED BY <2>2, <2>3, <2>4 DEF Inv
<1>4. CASE VmcallE820
  <2>1. /\ pc = "vmcall" /\ pc' = "iret" /\ UNCHANGED boot /\ carry' = Flags(~ Served)
        /\ UNCHANGED <<sig, room, ss, asked, cont, seen>> /\ asked = bx /\ bx \in Nat
    BY <1>4, <1>t DEF VmcallE820, Inv, CallInv, TypeOK
  <2>2. BootInv'  BY <2>1, <1>boot DEF Running
  <2>3. Collected'  BY <2>1 DEF Inv, CallInv, Collected, boot
  <2>4. carry' \in BOOLEAN  BY <1>t, <2>1 DEF Flags, TypeOK, Served, Found
  <2>5. CASE Served
    <3>1. /\ buffer' = modified[bx + 1] /\ bx' = (IF Last(bx) THEN 0 ELSE bx + 1) /\ ax' = "smap"
      BY <1>4, <2>5 DEF VmcallE820
    <3>2. bx < Len(modified) /\ bx + 1 \in 1 .. Len(modified)
      BY <2>1, <2>5, <1>m DEF Served, Found
    <3>3. buffer' \in Entry /\ bx' \in Nat  BY <2>1, <3>1, <3>2, <1>m
    <3>4. TypeOK'  BY <1>t, <2>1, <2>4, <3>1, <3>3 DEF TypeOK, boot
    <3>5. CallInv'
      BY <2>1, <2>3, <3>1, <3>2 DEF CallInv, Running, Last, boot
    <3> QED BY <2>2, <3>4, <3>5 DEF Inv
  <2>6. CASE ~ Served
    <3>1. UNCHANGED <<buffer, bx, ax>>  BY <1>4, <2>6 DEF VmcallE820
    <3>2. TypeOK'  BY <1>t, <2>1, <2>4, <3>1 DEF TypeOK, boot
    <3>3. ss = 0 => carry'  BY <2>1, <2>6 DEF Flags
    <3>4. CallInv'  BY <2>1, <2>3, <3>3 DEF CallInv, Running
    <3> QED BY <2>2, <3>2, <3>4 DEF Inv
  <2> QED BY <2>5, <2>6
<1>5. CASE VmcallOriginal
  <2>1. pc = "vmcall" /\ pc' = "original" /\ UNCHANGED boot /\ UNCHANGED guest
    BY <1>5 DEF VmcallOriginal
  <2>2. TypeOK'  BY <1>t, <2>1 DEF TypeOK, boot, guest
  <2>3. BootInv'  BY <2>1, <1>boot DEF Running
  <2>4. CallInv'  BY <2>1 DEF Inv, CallInv, Collected, Running, boot, guest
  <2> QED BY <2>2, <2>3, <2>4 DEF Inv
<1>6. CASE OriginalService
  <2>1. /\ pc = "original" /\ pc' = "app" /\ UNCHANGED boot /\ carry' \in BOOLEAN
        /\ UNCHANGED <<ax, bx, sig, room, ss, buffer, asked, cont, seen>>
    BY <1>6 DEF OriginalService
  <2>2. TypeOK'  BY <1>t, <2>1 DEF TypeOK, boot
  <2>3. BootInv'  BY <2>1, <1>boot DEF Running
  <2>4. CallInv'  BY <2>1 DEF Inv, CallInv, Collected, Running, boot
  <2> QED BY <2>2, <2>3, <2>4 DEF Inv
<1>7. CASE Iret
  <2>1. /\ pc = "iret" /\ pc' = "app" /\ UNCHANGED boot
        /\ UNCHANGED <<ax, bx, sig, room, ss, carry, buffer, asked>>
    BY <1>7 DEF Iret
  <2>2. BootInv'  BY <2>1, <1>boot DEF Running
  <2>b. modified' = modified  BY <2>1 DEF boot
  <2>3. CASE ss = 0 /\ ~ carry
    <3>1. /\ cont' = bx
          /\ seen' = IF asked = 0 THEN <<buffer>>
                     ELSE IF asked = cont /\ seen # <<>> THEN Append(seen, buffer) ELSE <<>>
      BY <1>7, <2>3 DEF Iret
    <3>2. /\ asked < Len(modified) /\ buffer = modified[asked + 1]
          /\ bx = IF asked = Len(modified) - 1 THEN 0 ELSE asked + 1
      BY <2>1, <2>3 DEF Inv, CallInv
    <3>3. asked \in Nat /\ bx \in Nat /\ buffer \in Entry /\ seen \in Seq(Entry) /\ cont \in Nat
      BY <1>t DEF TypeOK
    <3>4. CASE asked = 0
      <4>1. seen' = <<buffer>>  BY <3>1, <3>4
      <4>2. Len(seen') = 1 /\ seen'[1] = buffer /\ seen' \in Seq(Entry)  BY <4>1, <3>3
      <4>3. Collected'
        BY <2>b, <3>1, <3>2, <3>4, <4>2, <1>m DEF Collected
      <4>4. TypeOK'  BY <1>t, <2>1, <3>1, <3>3, <4>2 DEF TypeOK, boot
      <4> QED BY <2>1, <2>2, <4>3, <4>4 DEF Inv, CallInv, Running
    <3>5. CASE asked # 0 /\ asked = cont /\ seen # <<>>
      <4>1. seen' = Append(seen, buffer)  BY <3>1, <3>5
      <4>2. Len(seen) \in Nat  BY <3>3, LenProperties
      <4>3. /\ seen' \in Seq(Entry) /\ Len(seen') = Len(seen) + 1
            /\ \A i \in 1 .. Len(seen) : seen'[i] = seen[i]
            /\ seen'[Len(seen) + 1] = buffer
        BY <3>3, <4>1, <4>2
      <4>4. /\ Len(seen) <= Len(modified)
            /\ \A i \in 1 .. Len(seen) : seen[i] = modified[i]
            /\ cont = IF Len(seen) = Len(modified) THEN 0 ELSE Len(seen)
        BY <3>5 DEF Inv, CallInv, Collected
      <4>5. asked = Len(seen)  BY <3>5, <4>4
      <4>6. Collected'
        <5>1. Len(seen') <= Len(modified)  BY <3>2, <3>3, <4>2, <4>3, <4>5, <1>m
        <5>2. \A i \in 1 .. Len(seen') : seen'[i] = modified[i]
          <6> SUFFICES ASSUME NEW i \in 1 .. Len(seen') PROVE seen'[i] = modified[i]
            OBVIOUS
          <6>1. i \in 1 .. Len(seen) \/ i = Len(seen) + 1  BY <4>2, <4>3
          <6> QED BY <6>1, <3>2, <4>3, <4>4, <4>5
        <5>3. cont' = IF Len(seen') = Len(modified) THEN 0 ELSE Len(seen')
          BY <3>1, <3>2, <4>2, <4>3, <4>5, <1>m
        <5> QED BY <2>b, <5>1, <5>2, <5>3 DEF Collected
      <4>7. TypeOK'  BY <1>t, <2>1, <3>1, <3>3, <4>3 DEF TypeOK, boot
      <4> QED BY <2>1, <2>2, <4>6, <4>7 DEF Inv, CallInv, Running
    <3>6. CASE asked # 0 /\ ~ (asked = cont /\ seen # <<>>)
      <4>1. seen' = <<>>  BY <3>1, <3>6
      <4>2. TypeOK'  BY <1>t, <2>1, <3>1, <3>3, <4>1 DEF TypeOK, boot
      <4> QED BY <2>1, <2>2, <4>1, <4>2 DEF Inv, CallInv, Collected, Running
    <3> QED BY <3>4, <3>5, <3>6
  <2>4. CASE ~ (ss = 0 /\ ~ carry)
    <3>1. cont' = 0 /\ seen' = <<>>  BY <1>7, <2>4 DEF Iret
    <3>2. TypeOK'  BY <1>t, <2>1, <3>1 DEF TypeOK, boot
    <3> QED BY <2>1, <2>2, <3>1, <3>2 DEF Inv, CallInv, Collected, Running
  <2> QED BY <2>3, <2>4
<1>8. CASE UNCHANGED vars
  <2>1. UNCHANGED <<boot, guest, pc>>  BY <1>8 DEF vars, boot, guest
  <2>2. BootInv'  BY <2>1, <1>boot DEF Running
  <2>3. TypeOK' /\ CallInv'
    BY <2>1 DEF Inv, TypeOK, CallInv, Collected, Running, boot, guest
  <2> QED BY <2>2, <2>3 DEF Inv
<1> QED BY <1>1, <1>2, <1>3, <1>4, <1>5, <1>6, <1>7, <1>8 DEF Next

LEMMA AlwaysInv == Spec => []Inv
BY InitInv, NextInv, PTL DEF Spec

---------------------------------------------------------------------------
(* The theorems *)

\* Every variable keeps its type; in particular no entry gets a negative length.
THEOREM TypesCorrect == Spec => []TypeOK
<1>1. Inv => TypeOK  BY DEF Inv
<1> QED BY <1>1, AlwaysInv, PTL

\* What the running guest is told of an address is what the pieces of all entries say.
LEMMA TypesWhenRunning ==
    ASSUME Inv, Running, NEW a \in Nat
    PROVE  \A x : x \in TypesAt(modified, a) <=>
                  \E i \in DOMAIN map : x \in TypesAt(Pieces(map[i]), a)
<1>1. next = Len(map) + 1 /\ TypesAt(modified, a) = Converted(next, a)
  BY DEF Inv, BootInv
<1>2. DOMAIN map = 1 .. Len(map) /\ Len(map) \in Nat  BY MapTypes DEF Inv
<1>3. 1 .. next - 1 = DOMAIN map  BY <1>1, <1>2
<1> QED BY <1>1, <1>3 DEF Converted

\* Outside the hypervisor's memory and the loader's page the guest is told what the
\* firmware said, for every firmware map.
THEOREM RestOfTheMapIsKept == Spec => []RestIsUnchanged
<1>1. Inv => RestIsUnchanged
  <2> SUFFICES ASSUME Inv, Running, NEW a \in Mentioned \ (HypervisorRange \cup LoaderRange)
               PROVE  TypesAt(modified, a) = TypesAt(map, a)
    BY DEF RestIsUnchanged
  <2>m. /\ DOMAIN map = 1 .. Len(map) /\ \A i \in DOMAIN map : map[i] \in Entry
    BY MapTypes DEF Inv
  <2>1. a \in Nat
    <3>1. PICK i \in DOMAIN map : a \in map[i].base .. End(map[i]) - 1  BY DEF Mentioned
    <3>2. map[i].base \in Nat /\ map[i].len \in Nat  BY <2>m DEF Entry
    <3> QED BY <3>1, <3>2 DEF End
  <2>2. \A i \in DOMAIN map :
           TypesAt(Pieces(map[i]), a) = IF Covers(map[i], a) THEN {map[i].type} ELSE {}
    BY <2>m, <2>1, PiecesOfEntry
  <2>3. \A x : x \in TypesAt(modified, a) <=>
               \E i \in DOMAIN map : Covers(map[i], a) /\ x = map[i].type
    <3>1. \A i \in DOMAIN map : \A x :
             x \in TypesAt(Pieces(map[i]), a) <=> Covers(map[i], a) /\ x = map[i].type
      BY <2>2
    <3> QED BY <3>1, <2>1, TypesWhenRunning
  <2>4. \A x : x \in TypesAt(map, a) <=>
               \E i \in DOMAIN map : Covers(map[i], a) /\ x = map[i].type
    BY TypesAtDef
  <2> QED BY <2>3, <2>4
<1> QED BY <1>1, AlwaysInv, PTL

\* The guest is told that the hypervisor's memory is unusable whenever the RAM it
\* lies in reaches beyond it and nothing else overlaps it.
THEOREM HypervisorIsToldUnusable == Spec => []HypervisorIsUnusable
<1>1. Inv => HypervisorIsUnusable
  <2> SUFFICES ASSUME Inv, Running, ReachesBeyond, OnlyOneThere, NEW a \in HypervisorRange
               PROVE  TypesAt(modified, a) = {Unusable}
    BY DEF HypervisorIsUnusable
  <2>m. /\ DOMAIN map = 1 .. Len(map) /\ \A i \in DOMAIN map : map[i] \in Entry
    BY MapTypes DEF Inv
  <2>0. a \in Nat  BY ConstantsAreSane DEF HypervisorRange
  <2>1. PICK i \in DOMAIN map : Contains(map[i], Kernel, KernelSize)  BY DEF ReachesBeyond
  <2>2. TypesAt(Pieces(map[i]), a) = {Unusable}  BY <2>0, <2>1, <2>m, PiecesOfEntry
  <2>3. a \in map[i].base .. End(map[i]) - 1
    <3>1. map[i].base \in Nat /\ map[i].len \in Nat  BY <2>m DEF Entry
    <3>2. Kernel \in Nat /\ KernelSize \in Nat  BY ConstantsAreSane
    <3> QED BY <2>1, <3>1, <3>2 DEF Contains, End, HypervisorRange
  <2>4. ASSUME NEW j \in DOMAIN map, j # i PROVE TypesAt(Pieces(map[j]), a) = {}
    <3>1. a \notin map[j].base .. End(map[j]) - 1  BY <2>3, <2>4 DEF OnlyOneThere
    <3>2. map[j].base \in Nat /\ map[j].len \in Nat  BY <2>m DEF Entry
    <3>3. ~ Covers(map[j], a)  BY <2>0, <3>1, <3>2 DEF Covers, End
    <3> QED BY <2>0, <2>m, <3>3, PiecesOfEntry
  <2>5. \A x : x \in TypesAt(modified, a) <=> x = Unusable
    <3>1. \A x : x \in TypesAt(modified, a) <=>
                 \E j \in DOMAIN map : x \in TypesAt(Pieces(map[j]), a)
      BY <2>0, TypesWhenRunning
    <3> QED BY <3>1, <2>2, <2>4
  <2> QED BY <2>5
<1> QED BY <1>1, AlwaysInv, PTL

\* Whoever walks the map with the continuation values gets exactly the map.
THEOREM EnumerationNeverErrs == Spec => []EnumerationIsExact
<1>1. Inv => EnumerationIsExact
  <2> SUFFICES ASSUME Inv, seen # <<>>
               PROVE  /\ Len(seen) <= Len(modified) /\ seen = SubSeq(modified, 1, Len(seen))
                      /\ cont = IF Len(seen) = Len(modified) THEN 0 ELSE Len(seen)
    BY DEF EnumerationIsExact
  <2>1. /\ Len(seen) <= Len(modified)
        /\ \A i \in 1 .. Len(seen) : seen[i] = modified[i]
        /\ cont = IF Len(seen) = Len(modified) THEN 0 ELSE Len(seen)
    BY DEF Inv, CallInv, Collected
  <2>2. seen \in Seq(Entry) /\ Len(seen) \in Nat  BY LenProperties DEF Inv, TypeOK
  <2>3. Len(modified) \in Nat /\ \A i \in 1 .. Len(modified) : modified[i] \in Entry
    BY MapTypes DEF Inv
  <2>4. \A i \in 1 .. Len(seen) : modified[i] \in Entry  BY <2>1, <2>2, <2>3
  <2> DEFINE s == SubSeq(modified, 1, Len(seen))
  <2>5. /\ s \in Seq(Entry)
        /\ Len(s) = IF 1 <= Len(seen) THEN Len(seen) - 1 + 1 ELSE 0
        /\ \A i \in 1 .. Len(seen) - 1 + 1 : s[i] = modified[1 + i - 1]
    BY <2>2, <2>4, SubSeqProperties
  <2>6. Len(s) = Len(seen) /\ \A i \in 1 .. Len(seen) : s[i] = seen[i]
    <3>1. Len(s) = Len(seen)  BY <2>2, <2>5
    <3>2. ASSUME NEW i \in 1 .. Len(seen) PROVE s[i] = seen[i]
      <4>1. i \in 1 .. Len(seen) - 1 + 1 /\ 1 + i - 1 = i  BY <2>2
      <4> HIDE DEF s
      <4> QED BY <4>1, <2>1, <2>5
    <3> QED BY <3>1, <3>2
  <2> HIDE DEF s
  <2>7. s = seen  BY <2>2, <2>5, <2>6, SeqEqual
  <2> QED BY <2>1, <2>7 DEF s
<1> QED BY <1>1, AlwaysInv, PTL

\* The caller can tell from CF whether it was served (stack segments based at 0).
THEOREM CallerCanAlwaysTell == Spec => CallerCanTell
<1> DEFINE Told == Handled /\ ss = 0 => IF carry' THEN UNCHANGED <<ax, bx, buffer>>
                                        ELSE ax' = "smap" /\ buffer' = modified[asked + 1]
<1>1. Inv /\ [Next]_vars => [Told]_vars
  <2> SUFFICES ASSUME Inv, Next, pc = "vmcall", pc' = "iret", ss = 0
               PROVE  IF carry' THEN UNCHANGED <<ax, bx, buffer>>
                      ELSE ax' = "smap" /\ buffer' = modified[asked + 1]
    BY DEF Handled
  <2>1. VmcallE820
    BY DEF Next, MmuInit, MmuCreateModifiedE820MemoryMap, Int15, VmcallOriginal,
           OriginalService, Iret
  <2>2. asked = bx  BY DEF Inv, CallInv
  <2>3. carry' = ~ Served  BY <2>1 DEF VmcallE820, Flags
  <2>4. CASE Served  BY <2>1, <2>2, <2>3, <2>4 DEF VmcallE820
  <2>5. CASE ~ Served  BY <2>1, <2>3, <2>5 DEF VmcallE820
  <2> QED BY <2>4, <2>5
<1> QED BY <1>1, AlwaysInv, PTL DEF Spec, CallerCanTell
=============================================================================
