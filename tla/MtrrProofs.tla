---------------------------- MODULE MtrrProofs ------------------------------
(***************************************************************************)
(* Theorems about Mtrr for every content of the registers and every page.  *)
(*                                                                         *)
(* The invariant says what the loop has ruled out so far (Searched) and,   *)
(* when it has returned, which register decided (Answered). That the       *)
(* answer is the processor's is then a fact about one state.               *)
(***************************************************************************)
EXTENDS Mtrr, TLAPS

NoHit(k) == \A j \in 1 .. k : ~ Hits(mtrr.ranges[j], page)

Searched == page >= FixedPages /\ NoHit(i)

Answered ==
    IF page < FixedPages THEN result = Fixed(mtrr, page)
    ELSE \/ \E k \in 1 .. vcnt : /\ NoHit(k - 1) /\ Hits(mtrr.ranges[k], page)
                                 /\ result = mtrr.ranges[k].type
         \/ NoHit(vcnt) /\ result = mtrr.default

Inv ==
    /\ TypeOK
    /\ pc = "off" => result = "none" /\ i = 0
    /\ pc # "off" => vcnt = Len(mtrr.ranges) /\ default = mtrr.default
    /\ pc = "loop" => Searched
    /\ (pc = "ready" /\ result # "none") => Answered

\* The indices computed from a page below 1 MB are those of its fixed region.
LEMMA FixedIndices ==
    ASSUME NEW p \in Nat, p < FixedPages
    PROVE  /\ p < 128 => (p \div 16) % 16 = p \div 16 /\ p \div 16 \in 0 .. 7
           /\ (p >= 128 /\ p < 192) =>
                 /\ (p \div 16 - 8) \div 2 = ((p - 128) \div 4) \div 8
                 /\ (p % 16) \div 4 + 4 * ((p \div 16) % 2) = ((p - 128) \div 4) % 8
                 /\ ((p - 128) \div 4) \div 8 \in 0 .. 1
                 /\ ((p - 128) \div 4) % 8 \in 0 .. 7
           /\ p >= 192 =>
                 /\ 2 * (p \div 16 - 12) + (p % 16) \div 8 = (p - 192) \div 8
                 /\ p % 8 = (p - 192) % 8
                 /\ (p - 192) \div 8 \in 0 .. 7 /\ (p - 192) % 8 \in 0 .. 7
<1>0. p \in 0 .. 255  BY DEF FixedPages
<1>1. p < 128 => (p \div 16) % 16 = p \div 16 /\ p \div 16 \in 0 .. 7
  BY <1>0, SMTT(30)
<1>2. ASSUME p >= 128, p < 192
      PROVE  /\ (p \div 16 - 8) \div 2 = ((p - 128) \div 4) \div 8
             /\ (p % 16) \div 4 + 4 * ((p \div 16) % 2) = ((p - 128) \div 4) % 8
             /\ ((p - 128) \div 4) \div 8 \in 0 .. 1
             /\ ((p - 128) \div 4) % 8 \in 0 .. 7
  BY <1>0, <1>2, SMTT(30)
<1>3. ASSUME p >= 192
      PROVE  /\ 2 * (p \div 16 - 12) + (p % 16) \div 8 = (p - 192) \div 8
             /\ p % 8 = (p - 192) % 8
             /\ (p - 192) \div 8 \in 0 .. 7 /\ (p - 192) % 8 \in 0 .. 7
  BY <1>0, <1>3, SMTT(30)
<1> QED BY <1>1, <1>2, <1>3

\* The code reads the fixed region the processor reads, and it holds a type.
LEMMA FixedIsRight ==
    ASSUME NEW s \in Setting, NEW p \in Nat, p < FixedPages
    PROVE  Fixed(s, p) = FixedType(s, p) /\ Fixed(s, p) \in Types
<1>1. /\ s.fix64 \in [0 .. 7 -> Types]
      /\ s.fix16 \in [0 .. 1 -> [0 .. 7 -> Types]]
      /\ s.fix4 \in [0 .. 7 -> [0 .. 7 -> Types]]
  BY DEF Setting
<1>2. CASE p < 128
  <2>1. (p \div 16) % 16 = p \div 16 /\ p \div 16 \in 0 .. 7  BY <1>2, FixedIndices
  <2>2. Fixed(s, p) = s.fix64[p \div 16] /\ FixedType(s, p) = s.fix64[p \div 16]
    BY <1>2, <2>1 DEF Fixed, Fixed64K, FixedType
  <2> QED BY <1>1, <2>1, <2>2
<1>3. CASE p >= 128 /\ p < 192
  <2> DEFINE m == ((p - 128) \div 4) \div 8
             k == ((p - 128) \div 4) % 8
  <2>1. /\ (p \div 16 - 8) \div 2 = m /\ (p % 16) \div 4 + 4 * ((p \div 16) % 2) = k
        /\ m \in 0 .. 1 /\ k \in 0 .. 7
    BY <1>3, FixedIndices
  <2>2. ~ (p < 128)  BY <1>3
  <2>3. Fixed(s, p) = s.fix16[m][k] /\ FixedType(s, p) = s.fix16[m][k]
    BY <1>3, <2>2, <2>1, Zenon DEF Fixed, Fixed16K, FixedType
  <2> HIDE DEF m, k
  <2> QED BY <1>1, <2>1, <2>3
<1>4. CASE p >= 192
  <2> DEFINE m == (p - 192) \div 8
             k == (p - 192) % 8
  <2>1. /\ 2 * (p \div 16 - 12) + (p % 16) \div 8 = m /\ p % 8 = k
        /\ m \in 0 .. 7 /\ k \in 0 .. 7
    BY <1>4, FixedIndices
  <2>2. ~ (p < 128) /\ ~ (p < 192)  BY <1>4
  <2>3. Fixed(s, p) = s.fix4[m][k] /\ FixedType(s, p) = s.fix4[m][k]
    BY <2>2, <2>1, Zenon DEF Fixed, Fixed4K, FixedType
  <2> HIDE DEF m, k
  <2> QED BY <1>1, <2>1, <2>3
<1> QED BY <1>2, <1>3, <1>4

\* What the register settings are, unfolded once.
LEMMA Registers ==
    ASSUME TypeOK
    PROVE  /\ mtrr \in Setting /\ mtrr.default \in Types
           /\ mtrr.ranges \in Seq(Range) /\ Len(mtrr.ranges) \in Nat
           /\ \A k \in 1 .. Len(mtrr.ranges) : mtrr.ranges[k] \in Range
<1>1. mtrr \in Setting  BY ConstantsAreSane DEF TypeOK
<1>2. mtrr.ranges \in Seq(Range) /\ mtrr.default \in Types  BY <1>1 DEF Setting
<1>3. ASSUME NEW R, NEW q \in Seq(R)
      PROVE  Len(q) \in Nat /\ \A k \in 1 .. Len(q) : q[k] \in R
  OBVIOUS
<1> QED BY <1>1, <1>2, <1>3

LEMMA InvInit == Init => Inv
<1> SUFFICES ASSUME Init PROVE Inv  OBVIOUS
<1> QED BY DEF Init, Inv, TypeOK

LEMMA InvNext == Inv /\ [Next]_vars => Inv'
<1> SUFFICES ASSUME Inv, [Next]_vars PROVE Inv'  OBVIOUS
<1>0. /\ mtrr \in Settings /\ mtrr \in Setting /\ mtrr.default \in Types
      /\ Len(mtrr.ranges) \in Nat /\ \A k \in 1 .. Len(mtrr.ranges) : mtrr.ranges[k] \in Range
  BY Registers DEF Inv, TypeOK
<1>1. CASE MtrrInit
  BY <1>0, <1>1 DEF Inv, MtrrInit, TypeOK
<1>2. ASSUME NEW p \in Pages, MtrrGetPageMemoryType(p) PROVE Inv'
  <2>0. p \in Nat  BY ConstantsAreSane
  <2>1. vcnt = Len(mtrr.ranges) /\ default = mtrr.default
    BY <1>2 DEF Inv, MtrrGetPageMemoryType
  <2>2. CASE p < FixedPages
    <3>1. /\ page' = p /\ i' = 0 /\ result' = Fixed(mtrr, p) /\ pc' = "ready"
          /\ mtrr' = mtrr /\ default' = default /\ vcnt' = vcnt
      BY <1>2, <2>2 DEF MtrrGetPageMemoryType
    <3>2. Fixed(mtrr, p) \in Types  BY <1>0, <2>0, <2>2, FixedIsRight
    <3>3. TypeOK'  BY <1>0, <2>0, <2>1, <3>1, <3>2 DEF TypeOK
    <3>4. Answered'  BY <2>2, <3>1 DEF Answered
    <3> QED BY <2>1, <3>1, <3>3, <3>4 DEF Inv
  <2>3. CASE ~ (p < FixedPages)
    <3>1. /\ page' = p /\ i' = 0 /\ result' = "none" /\ pc' = "loop"
          /\ mtrr' = mtrr /\ default' = default /\ vcnt' = vcnt
      BY <1>2, <2>3 DEF MtrrGetPageMemoryType
    <3>2. TypeOK'  BY <1>0, <2>0, <2>1, <3>1 DEF TypeOK
    <3>3. Searched'  BY <2>0, <2>3, <3>1 DEF Searched, NoHit, FixedPages
    <3> QED BY <2>1, <3>1, <3>2, <3>3 DEF Inv
  <2> QED BY <2>2, <2>3
<1>3. CASE NextRange
  <2>0. /\ pc = "loop" /\ i < vcnt /\ i \in Nat /\ vcnt = Len(mtrr.ranges)
        /\ default = mtrr.default /\ page >= FixedPages /\ page \in Nat /\ NoHit(i)
        /\ mtrr' = mtrr /\ default' = default /\ vcnt' = vcnt /\ page' = page
    BY <1>0, <1>3 DEF NextRange, Inv, TypeOK, Searched
  <2>1. i + 1 \in 1 .. vcnt /\ mtrr.ranges[i + 1] \in Range  BY <1>0, <2>0
  <2>2. CASE Hits(mtrr.ranges[i + 1], page)
    <3>1. result' = mtrr.ranges[i + 1].type /\ pc' = "ready" /\ i' = i
      BY <1>3, <2>2 DEF NextRange
    <3>2. mtrr.ranges[i + 1].type \in Types  BY <2>1 DEF Range
    <3>3. TypeOK'  BY <1>0, <2>0, <3>1, <3>2 DEF TypeOK
    <3>4. ~ (page < FixedPages)  BY <2>0 DEF FixedPages
    <3>5. i + 1 - 1 = i  BY <2>0
    <3>6. /\ NoHit(i + 1 - 1) /\ Hits(mtrr.ranges[i + 1], page)
          /\ result' = mtrr.ranges[i + 1].type
      BY <2>0, <2>2, <3>1, <3>5
    <3>7. Answered'  BY <2>0, <2>1, <3>4, <3>6 DEF Answered, NoHit
    <3> QED BY <2>0, <3>1, <3>3, <3>7 DEF Inv
  <2>3. CASE ~ Hits(mtrr.ranges[i + 1], page)
    <3>1. i' = i + 1 /\ pc' = "loop" /\ result' = result
      BY <1>3, <2>0, <2>3 DEF NextRange
    <3>2. TypeOK'  BY <1>0, <2>0, <2>1, <3>1 DEF TypeOK, Inv
    <3>3. NoHit(i + 1)  BY <2>0, <2>3 DEF NoHit
    <3>4. Searched'  BY <2>0, <3>1, <3>3 DEF Searched, NoHit
    <3> QED BY <2>0, <3>1, <3>2, <3>4 DEF Inv
  <2> QED BY <2>2, <2>3
<1>4. CASE NoRange
  <2>0. /\ pc = "loop" /\ i = vcnt /\ vcnt = Len(mtrr.ranges) /\ default = mtrr.default
        /\ page >= FixedPages /\ page \in Nat /\ NoHit(i)
        /\ mtrr' = mtrr /\ default' = default /\ vcnt' = vcnt /\ page' = page /\ i' = i
        /\ result' = default /\ pc' = "ready"
    BY <1>0, <1>4 DEF NoRange, Inv, TypeOK, Searched
  <2>1. TypeOK'  BY <1>0, <2>0 DEF TypeOK
  <2>2. ~ (page < FixedPages)  BY <2>0 DEF FixedPages
  <2>3. Answered'  BY <2>0, <2>2 DEF Answered, NoHit
  <2> QED BY <2>0, <2>1, <2>3 DEF Inv
<1>5. CASE UNCHANGED vars
  BY <1>5 DEF Inv, TypeOK, Searched, Answered, NoHit, vars
<1> QED BY <1>1, <1>2, <1>3, <1>4, <1>5 DEF Next

\* With base and mask in the kept bits, the masked comparison is containment.
LEMMA HitsIsContains ==
    ASSUME TypeOK, Fits(mtrr, page), NEW k \in 1 .. Len(mtrr.ranges)
    PROVE  Hits(mtrr.ranges[k], page) <=> Contains(mtrr.ranges[k], page)
<1>1. /\ page \in Nat /\ page < KeptPages
      /\ mtrr.ranges[k].base \in Nat /\ mtrr.ranges[k].base < KeptPages /\ KeptPages \in Nat
  BY Registers, ConstantsAreSane DEF Fits, TypeOK, Range
<1>2. \A x \in Nat : x < KeptPages => x % KeptPages = x
  BY <1>1
<1>3. page % KeptPages = page /\ mtrr.ranges[k].base % KeptPages = mtrr.ranges[k].base
  BY <1>1, <1>2
<1> QED BY <1>3 DEF Hits, Contains

\* Without a conflict, the first range that contains the page has the combined type.
LEMMA FirstDecides ==
    ASSUME TypeOK, NoConflict(mtrr, page), NEW k \in Containing(mtrr, page),
           \A j \in 1 .. k - 1 : j \notin Containing(mtrr, page)
    PROVE  mtrr.ranges[k].type
             = Combined({mtrr.ranges[j].type : j \in Containing(mtrr, page)})
<1> DEFINE t  == mtrr.ranges[k].type
           ts == {mtrr.ranges[j].type : j \in Containing(mtrr, page)}
<1>1. t \in ts  OBVIOUS
<1>2. ~ \E j \in Containing(mtrr, page) : j < k
  BY Registers DEF Containing
<1>3. CASE t = "UC"  BY <1>1, <1>3 DEF Combined
<1>4. CASE \A j \in Containing(mtrr, page) : mtrr.ranges[j].type = t
  <2>1. ts = {t}  BY <1>4
  <2>2. \A S : S = {t} => S # {"WT", "WB"}  OBVIOUS
  <2>3. (CHOOSE x \in ts : TRUE) = t  BY <2>1
  <2>4. "UC" \in ts => t = "UC"  BY <2>1
  <2>5. ts # {"WT", "WB"}  BY <2>1, <2>2
  <2> HIDE DEF ts, t
  <2>6. Combined(ts) = t  BY <2>3, <2>4, <2>5 DEF Combined
  <2> QED BY <2>6 DEF ts, t
<1> QED BY <1>2, <1>3, <1>4 DEF NoConflict

LEMMA InvImpliesType == Inv => TypeIsTheProcessors
<1> SUFFICES ASSUME Inv, pc = "ready", result # "none",
                    Enabled(mtrr), Fits(mtrr, page), NoConflict(mtrr, page)
             PROVE  result = ProcessorType(mtrr, page)
  BY DEF TypeIsTheProcessors
<1>0. /\ TypeOK /\ page \in Nat /\ mtrr \in Setting /\ Answered
      /\ vcnt = Len(mtrr.ranges) /\ mtrr.e /\ mtrr.fe
  BY Registers DEF Inv, TypeOK, Enabled
<1>1. CASE page < FixedPages
  <2>1. result = FixedType(mtrr, page)  BY <1>0, <1>1, FixedIsRight DEF Answered
  <2> QED BY <1>0, <1>1, <2>1 DEF ProcessorType
<1>2. CASE ~ (page < FixedPages)
  <2>1. \A k \in 1 .. vcnt : Hits(mtrr.ranges[k], page) <=> k \in Containing(mtrr, page)
    BY <1>0, HitsIsContains DEF Containing
  <2>2. ASSUME NEW k \in 1 .. vcnt, NoHit(k - 1), Hits(mtrr.ranges[k], page),
               result = mtrr.ranges[k].type
        PROVE  result = ProcessorType(mtrr, page)
    <3>1. k \in Containing(mtrr, page)  BY <2>1, <2>2
    <3>2. vcnt \in Nat  BY <1>0 DEF TypeOK
    <3>3. \A j \in 1 .. k - 1 : j \notin Containing(mtrr, page)
      BY <2>1, <2>2, <3>2 DEF NoHit
    <3>4. result = Combined({mtrr.ranges[j].type : j \in Containing(mtrr, page)})
      BY <1>0, <2>2, <3>1, <3>3, FirstDecides
    <3> QED BY <1>0, <1>2, <3>1, <3>4 DEF ProcessorType
  <2>3. ASSUME NoHit(vcnt), result = mtrr.default
        PROVE  result = ProcessorType(mtrr, page)
    <3>1. Containing(mtrr, page) = {}  BY <1>0, <2>1, <2>3 DEF NoHit, Containing
    <3> QED BY <1>0, <1>2, <2>3, <3>1 DEF ProcessorType
  <2> QED BY <1>0, <1>2, <2>2, <2>3 DEF Answered
<1> QED BY <1>1, <1>2

\* The kept values and the answer always have their types.
THEOREM TypesCorrect == Spec => []TypeOK
<1>1. Inv => TypeOK  BY DEF Inv
<1> QED BY InvInit, InvNext, <1>1, PTL DEF Spec

\* The type the EPT leaf gets is the processor's, for every content of the registers.
THEOREM TypeIsAlwaysTheProcessors == Spec => []TypeIsTheProcessors
<1> QED BY InvInit, InvNext, InvImpliesType, PTL DEF Spec
=============================================================================
