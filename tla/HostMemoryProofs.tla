-------------------------- MODULE HostMemoryProofs --------------------------
(***************************************************************************)
(* Theorems about HostMemory for any number of processors, any sizes asked *)
(* for by ACPICA and any number of EPT violations.                         *)
(*                                                                         *)
(* The allocator keeps one address. The invariant ties it to all it has    *)
(* handed out (Stacked): it is page-aligned and no block ends above it, so *)
(* that the next block, a page further on, meets nothing. What is taken    *)
(* away again lies inside the block it was part of (HolesAreInBlocks).     *)
(*                                                                         *)
(* How far the address gets is a count of pages (Counted): what has been   *)
(* handed out since ACPICA was done, and what the requests still waiting   *)
(* will take, are together what the functions called so far take.          *)
(***************************************************************************)
EXTENDS HostMemory, SequenceTheorems, TLAPS

GoodRequest ==
    {r \in [use: Uses, size: Nat] : r.use = "apStack" => r.size = CPU_STACK_SIZE}

\* The part of a block that may be taken away.
HoleOf(b, h) ==
    /\ h.from >= b.base /\ h.to <= End(b)
    /\ \/ b.use = "ioBitmap"
       \/ b.use = "apStack" /\ h.to <= b.base + PAGE_SIZE

Stacked ==
    /\ AddressOffset(nextAvailableVa) = 0 /\ nextAvailableVa >= HEAP_ADDRESS
    /\ \A i \in 1 .. Len(blocks) :
          /\ blocks[i].base >= HEAP_ADDRESS + PAGE_SIZE
          /\ End(blocks[i]) <= nextAvailableVa

HolesAreInBlocks ==
    \A h \in holes : \E i \in 1 .. Len(blocks) : HoleOf(blocks[i], h)

RspIsABlock ==
    hostRsp # 0 => \E i \in 1 .. Len(blocks) : hostRsp = blocks[i].base

TablesAreCounted ==
    eptNext = IF pc \in {"acpi", "gdt", "aps"} THEN EPT_PML4_PA
              ELSE EPT_PML4_PA + PAGE_SIZE * EptTables(machine.top)

Inv ==
    /\ TypeOK /\ todo \in Seq(GoodRequest)
    /\ Stacked /\ BlocksAreApart /\ HolesAreInBlocks /\ RspIsABlock
    /\ TablesAreCounted

---------------------------------------------------------------------------
(* Rounding to pages *)

LEMMA Rounding ==
    ASSUME NEW a \in Nat
    PROVE  /\ AddressOffset(a) \in 0 .. PAGE_SIZE - 1
           /\ AlignAddressLower(a) \in Nat /\ AddressOffset(AlignAddressLower(a)) = 0
           /\ AlignAddressLower(a) <= a
           /\ AlignAddressUpper(a) \in Nat /\ AddressOffset(AlignAddressUpper(a)) = 0
           /\ a <= AlignAddressUpper(a)
BY SMTT(30) DEF AddressOffset, AlignAddressLower, AlignAddressUpper, PAGE_SIZE

LEMMA AlignedSums ==
    ASSUME NEW a \in Nat, NEW b \in Nat, AddressOffset(a) = 0, AddressOffset(b) = 0
    PROVE  AddressOffset(a + b) = 0 /\ AddressOffset(a + PAGE_SIZE) = 0
BY SMTT(30) DEF AddressOffset, PAGE_SIZE

LEMMA PagesAreRound ==
    /\ AlignAddressUpper(PAGE_SIZE) = PAGE_SIZE
    /\ AlignAddressUpper(CPU_STACK_SIZE) = CPU_STACK_SIZE
    /\ AddressOffset(HEAP_ADDRESS) = 0
BY DEF AlignAddressUpper, AlignAddressLower, AddressOffset, PAGE_SIZE, CPU_STACK_SIZE,
       HEAP_ADDRESS, MB

LEMMA EndOfBlock ==
    ASSUME NEW b \in Block
    PROVE  End(b) \in Nat /\ b.base <= End(b)
BY Rounding DEF End, Block

---------------------------------------------------------------------------
(* The requests *)

LEMMA RequestsAreGood ==
    ASSUME NEW n \in 1 .. 8
    PROVE  /\ GdtRequests(n) \in Seq(GoodRequest)
           /\ ApRequests(n) \in Seq(GoodRequest)
           /\ VmxRequests \in Seq(GoodRequest)
           /\ << >> \in Seq(GoodRequest)
           /\ << Request("e820", PAGE_SIZE) >> \in Seq(GoodRequest)
           /\ << Request("code", PAGE_SIZE) >> \in Seq(GoodRequest)
<1>1. ASSUME NEW m \in Nat, NEW r \in GoodRequest
      PROVE  Times(m, r) \in Seq(GoodRequest)
  BY <1>1 DEF Times
<1>2. \A use \in Uses, size \in Nat :
         use # "apStack" => Request(use, size) \in GoodRequest
  BY DEF Request, GoodRequest
<1>3. Request("apStack", CPU_STACK_SIZE) \in GoodRequest
      /\ Request("ist", CPU_STACK_SIZE) \in GoodRequest
  BY DEF Request, GoodRequest, CPU_STACK_SIZE, PAGE_SIZE, Uses
<1>4. /\ Request("gdt", 24 + 16 * n) \in GoodRequest
      /\ Request("vmxon", PAGE_SIZE) \in GoodRequest
      /\ Request("vcpu", PAGE_SIZE) \in GoodRequest
      /\ Request("vmcs", PAGE_SIZE) \in GoodRequest
      /\ Request("msrBitmap", 4 * 1024) \in GoodRequest
      /\ Request("exitStack", PAGE_SIZE) \in GoodRequest
      /\ Request("ioBitmap", PAGE_SIZE) \in GoodRequest
      /\ Request("e820", PAGE_SIZE) \in GoodRequest
      /\ Request("code", PAGE_SIZE) \in GoodRequest
  BY <1>2 DEF Uses, PAGE_SIZE
<1>5. GdtRequests(n) \in Seq(GoodRequest)
  <2>1. Times(2 * n, Request("ist", CPU_STACK_SIZE)) \in Seq(GoodRequest)  BY <1>1, <1>3
  <2>2. << Request("gdt", 24 + 16 * n) >> \in Seq(GoodRequest)  BY <1>4
  <2> QED BY <2>1, <2>2 DEF GdtRequests
<1>6. ApRequests(n) \in Seq(GoodRequest)  BY <1>1, <1>3 DEF ApRequests
<1>7. VmxRequests \in Seq(GoodRequest)  BY <1>4 DEF VmxRequests
<1> QED BY <1>4, <1>5, <1>6, <1>7

---------------------------------------------------------------------------
(* The invariant *)

LEMMA InitInv == Init => Inv
<1> SUFFICES ASSUME Init PROVE Inv  OBVIOUS
<1> USE DEF Init
<1>1. TypeOK /\ todo \in Seq(GoodRequest)
  BY ConstantsAreSane DEF TypeOK, EPT_PML4_PA, HEAP_ADDRESS, MB
<1>2. Stacked  BY PagesAreRound DEF Stacked, HEAP_ADDRESS, MB
<1>3. BlocksAreApart /\ HolesAreInBlocks /\ RspIsABlock /\ TablesAreCounted
  BY DEF BlocksAreApart, HolesAreInBlocks, RspIsABlock, TablesAreCounted
<1> QED BY <1>1, <1>2, <1>3 DEF Inv

LEMMA AllocInv == Inv /\ MmuAllocVa => Inv'
<1> SUFFICES ASSUME Inv, MmuAllocVa PROVE Inv'  OBVIOUS
<1> USE DEF Inv
<1> DEFINE r   == Head(todo)
           va  == nextAvailableVa + PAGE_SIZE
           new == [use |-> r.use, base |-> va, size |-> r.size]
           n   == Len(blocks)
<1>1. /\ UNCHANGED <<machine, pc, eptNext, acpiEnd, launches, decodes>>
      /\ r \in GoodRequest /\ r.size \in Nat /\ r.use \in Uses
      /\ todo' \in Seq(GoodRequest) /\ todo' \in Seq([use: Uses, size: Nat])
  BY DEF MmuAllocVa, TypeOK, GoodRequest
<1>2. /\ nextAvailableVa \in Nat /\ AddressOffset(nextAvailableVa) = 0
      /\ BlockBase(nextAvailableVa) = va /\ va \in Nat
      /\ BlockLength(nextAvailableVa, r.size) = AlignAddressUpper(r.size)
  BY <1>1 DEF TypeOK, Stacked, BlockBase, BlockLength, PAGE_SIZE
<1>3. /\ nextAvailableVa' = va + AlignAddressUpper(r.size)
      /\ blocks' = Append(blocks, new)
      /\ holes' = holes \cup TakenAway(r.use, va, r.size)
      /\ hostRsp' = (IF r.use = "exitStack" THEN va ELSE hostRsp)
  BY <1>2 DEF MmuAllocVa
<1>4. /\ new \in Block /\ new.base = va /\ new.use = r.use /\ new.size = r.size
      /\ End(new) = nextAvailableVa' /\ End(new) \in Nat
      /\ AddressOffset(va) = 0 /\ AddressOffset(End(new)) = 0
  <2>1. new \in Block /\ End(new) = va + AlignAddressUpper(r.size)
    BY <1>1, <1>2 DEF Block, End
  <2>2. AlignAddressUpper(r.size) \in Nat /\ AddressOffset(AlignAddressUpper(r.size)) = 0
    BY <1>1, Rounding
  <2>3. AddressOffset(va) = 0  BY <1>2, AlignedSums
  <2>4. End(new) = nextAvailableVa' /\ End(new) \in Nat  BY <1>2, <1>3, <2>1, <2>2
  <2>5. AddressOffset(va + AlignAddressUpper(r.size)) = 0
    BY <1>2, <2>2, <2>3, AlignedSums
  <2> QED BY <2>1, <2>3, <2>4, <2>5
<1>5. /\ blocks \in Seq(Block) /\ n \in Nat /\ Len(blocks') = n + 1
      /\ \A i \in 1 .. n : blocks'[i] = blocks[i] /\ blocks[i] \in Block
      /\ blocks'[n + 1] = new
  BY <1>3, <1>4 DEF TypeOK
<1>6. \A i \in 1 .. n : End(blocks[i]) \in Nat /\ blocks[i].base \in Nat
  BY <1>5, EndOfBlock DEF Block
<1> HIDE DEF new
<1>7. \A i \in 1 .. n : End(blocks[i]) <= nextAvailableVa
  BY DEF Stacked
<1>8. Stacked'
  <2>1. va >= HEAP_ADDRESS + PAGE_SIZE /\ End(new) >= va /\ HEAP_ADDRESS \in Nat
    BY <1>2, <1>4, EndOfBlock DEF Stacked, PAGE_SIZE, HEAP_ADDRESS, MB
  <2>2. AddressOffset(nextAvailableVa') = 0 /\ nextAvailableVa' >= HEAP_ADDRESS
    BY <1>2, <1>4, <2>1 DEF PAGE_SIZE
  <2>3. ASSUME NEW i \in 1 .. n + 1
        PROVE  blocks'[i].base >= HEAP_ADDRESS + PAGE_SIZE
               /\ End(blocks'[i]) <= nextAvailableVa'
    <3>1. CASE i = n + 1  BY <1>4, <1>5, <2>1, <3>1
    <3>2. CASE i \in 1 .. n
      <4>1. blocks'[i] = blocks[i] /\ End(blocks[i]) <= nextAvailableVa
        BY <1>5, <1>7, <3>2
      <4>2. nextAvailableVa <= nextAvailableVa'
        BY <1>2, <1>4, <2>1 DEF PAGE_SIZE
      <4>3. End(blocks[i]) <= nextAvailableVa'  BY <1>2, <1>4, <1>6, <3>2, <4>1, <4>2
      <4> QED BY <3>2, <4>1, <4>3 DEF Stacked
    <3> QED BY <1>5, <2>3, <3>1, <3>2
  <2> QED BY <1>5, <2>2, <2>3 DEF Stacked, End
<1>9. BlocksAreApart'
  <2>1. ASSUME NEW i \in 1 .. n + 1 PROVE AddressOffset(blocks'[i].base) = 0
    <3>1. CASE i = n + 1  BY <1>4, <1>5, <3>1
    <3>2. CASE i \in 1 .. n  BY <1>5, <3>2 DEF BlocksAreApart
    <3> QED BY <1>5, <2>1, <3>1, <3>2
  <2>2. ASSUME NEW i \in 1 .. n + 1, NEW j \in 1 .. n + 1, i < j
        PROVE  End(blocks'[i]) + PAGE_SIZE <= blocks'[j].base
    <3>0. i \in 1 .. n  BY <1>5, <2>2
    <3>1. CASE j = n + 1
      <4>1. End(blocks[i]) <= nextAvailableVa  BY <1>7, <3>0
      <4> QED BY <1>2, <1>4, <1>5, <1>6, <3>0, <3>1, <4>1 DEF PAGE_SIZE
    <3>2. CASE j \in 1 .. n  BY <1>5, <2>2, <3>0, <3>2 DEF BlocksAreApart
    <3> QED BY <1>5, <2>2, <3>1, <3>2
  <2> QED BY <1>5, <2>1, <2>2 DEF BlocksAreApart, End
<1>10. \A h \in TakenAway(r.use, va, r.size) : h \in Hole /\ HoleOf(new, h)
  <2> SUFFICES ASSUME NEW h \in TakenAway(r.use, va, r.size)
               PROVE  h \in Hole /\ HoleOf(new, h)
    OBVIOUS
  <2>1. AlignAddressLower(va) = va  BY <1>2, <1>4 DEF AlignAddressLower
  <2>2. CASE r.use = "apStack"
    <3>1. h = Unmapped(va, PAGE_SIZE)  BY <2>2 DEF TakenAway
    <3>2. h = [from |-> va, to |-> va + PAGE_SIZE]
      BY <1>4, <2>1, <3>1, PagesAreRound DEF Unmapped, PAGE_SIZE
    <3>3. r.size = CPU_STACK_SIZE  BY <1>1, <2>2 DEF GoodRequest
    <3>4. End(new) = va + CPU_STACK_SIZE  BY <1>3, <1>4, <3>3, PagesAreRound
    <3> QED BY <1>2, <1>4, <2>2, <3>2, <3>4 DEF HoleOf, Hole, CPU_STACK_SIZE, PAGE_SIZE
  <2>3. CASE r.use = "ioBitmap"
    <3>1. h = Unmapped(va, r.size)  BY <2>3 DEF TakenAway
    <3>2. h = [from |-> va, to |-> End(new)]
      <4>1. r.size + AddressOffset(va) = r.size  BY <1>1, <1>4
      <4> QED BY <1>3, <1>4, <2>1, <3>1, <4>1 DEF Unmapped
    <3> QED BY <1>2, <1>4, <2>3, <3>2 DEF HoleOf, Hole
  <2>4. CASE r.use \notin {"apStack", "ioBitmap"}  BY <2>4 DEF TakenAway
  <2> QED BY <2>2, <2>3, <2>4
<1>11. HolesAreInBlocks'
  <2> SUFFICES ASSUME NEW h \in holes'
               PROVE  \E i \in 1 .. n + 1 : HoleOf(blocks'[i], h)
    BY <1>5 DEF HolesAreInBlocks, HoleOf, End
  <2>1. CASE h \in holes
    <3>1. PICK i \in 1 .. n : HoleOf(blocks[i], h)  BY <2>1 DEF HolesAreInBlocks
    <3> QED BY <1>5, <3>1
  <2>2. CASE h \in TakenAway(r.use, va, r.size)
    <3>1. HoleOf(blocks'[n + 1], h)  BY <1>5, <1>10, <2>2
    <3> QED BY <1>5, <3>1
  <2> QED BY <1>3, <2>1, <2>2
<1>12. RspIsABlock'
  <2>1. CASE r.use = "exitStack"
    <3>1. hostRsp' = blocks'[n + 1].base  BY <1>3, <1>4, <1>5, <2>1
    <3> QED BY <1>5, <3>1 DEF RspIsABlock
  <2>2. CASE r.use # "exitStack"
    <3>1. hostRsp' = hostRsp  BY <1>3, <2>2
    <3> QED BY <1>5, <3>1 DEF RspIsABlock
  <2> QED BY <2>1, <2>2
<1>13. TypeOK'
  <2>1. blocks' \in Seq(Block)  BY <1>3, <1>4, <1>5
  <2>2. holes' \subseteq Hole  BY <1>3, <1>10 DEF TypeOK
  <2>3. hostRsp' \in Nat  BY <1>2, <1>3 DEF TypeOK
  <2> QED BY <1>1, <1>4, <2>1, <2>2, <2>3 DEF TypeOK
<1>14. TablesAreCounted'  BY <1>1 DEF TablesAreCounted
<1> QED BY <1>1, <1>8, <1>9, <1>11, <1>12, <1>13, <1>14

\* A call changes no memory: it only says what will be asked for.
LEMMA CallInv ==
    ASSUME Inv, NEW from, NEW to, NEW requests \in Seq(GoodRequest), Calls(from, to, requests)
    PROVE  /\ todo' \in Seq(GoodRequest) /\ todo' \in Seq([use: Uses, size: Nat])
           /\ Stacked' /\ BlocksAreApart' /\ HolesAreInBlocks' /\ RspIsABlock'
           /\ UNCHANGED <<machine, nextAvailableVa, blocks, holes, hostRsp>>
           /\ pc \in from /\ pc' = to
<1>1. /\ UNCHANGED <<machine, nextAvailableVa, blocks, holes, hostRsp>>
      /\ pc \in from /\ pc' = to /\ todo' = requests
  BY DEF Calls
<1>2. todo' \in Seq([use: Uses, size: Nat])
  <2>1. GoodRequest \subseteq [use: Uses, size: Nat]  BY DEF GoodRequest
  <2>2. requests \in Seq([use: Uses, size: Nat])  BY <2>1, SeqMonotonic
  <2> QED BY <1>1, <2>2
<1> QED BY <1>1, <1>2
        DEF Inv, Stacked, BlocksAreApart, HolesAreInBlocks, HoleOf, RspIsABlock, End

LEMMA EptTablesType ==
    ASSUME NEW top \in Nat \ {0}
    PROVE  EptTables(top) \in Nat /\ (top <= MaxTop => EptTables(top) <= 20479)
BY SMTT(30) DEF EptTables, MaxTop

LEMMA CallersInv ==
    Inv /\ (Next /\ ~ MmuAllocVa) => Inv'
<1> SUFFICES ASSUME Inv, Next, ~ MmuAllocVa PROVE Inv'  OBVIOUS
<1> USE DEF Inv
<1>0. machine.cpus \in 1 .. 8 /\ machine.top \in Nat \ {0}
  BY ConstantsAreSane DEF TypeOK
<1>1. ASSUME NEW size \in AcpiSizes, AcpiOsAllocate(size) PROVE Inv'
  <2>1. << Request("acpi", size) >> \in Seq(GoodRequest)
    BY ConstantsAreSane DEF Request, GoodRequest, Uses
  <2> QED BY <1>1, <2>1, CallInv DEF AcpiOsAllocate, TypeOK, TablesAreCounted
<1>2. CASE GdtSetupFinalGdt
  BY <1>0, <1>2, RequestsAreGood, CallInv DEF GdtSetupFinalGdt, TypeOK, TablesAreCounted
<1>3. CASE LapicSignalAllAPs
  BY <1>0, <1>3, RequestsAreGood, CallInv DEF LapicSignalAllAPs, TypeOK, TablesAreCounted
<1>4. CASE MmuMapMemoryEntriesInEpt
  <2>1. << >> \in Seq(GoodRequest)  OBVIOUS
  <2>2. Calls({"aps"}, "ept", << >>) /\ UNCHANGED <<acpiEnd, launches, decodes>>
        /\ eptNext' = eptNext + PAGE_SIZE * EptTables(machine.top)
    BY <1>4 DEF MmuMapMemoryEntriesInEpt
  <2>3. pc = "aps" /\ pc' = "ept" /\ machine' = machine  BY <2>2 DEF Calls
  <2>4. EptTables(machine.top) \in Nat  BY <1>0, EptTablesType
  <2>5. eptNext' = EPT_PML4_PA + PAGE_SIZE * EptTables(machine.top) /\ eptNext' \in Nat
    BY <2>2, <2>3, <2>4 DEF TablesAreCounted, EPT_PML4_PA, MB, PAGE_SIZE
  <2> QED BY <2>1, <2>2, <2>3, <2>5, CallInv DEF TypeOK, TablesAreCounted
<1>5. CASE MmuCreateModifiedE820MemoryMap
  <2>1. Calls({"ept"}, "e820", << Request("e820", PAGE_SIZE) >>)
        /\ UNCHANGED <<eptNext, acpiEnd, launches, decodes>>
    BY <1>5 DEF MmuCreateModifiedE820MemoryMap
  <2>2. << Request("e820", PAGE_SIZE) >> \in Seq(GoodRequest)  BY <1>0, RequestsAreGood
  <2>3. pc = "ept" /\ pc' = "e820" /\ machine' = machine  BY <2>1 DEF Calls
  <2>4. TypeOK' /\ TablesAreCounted'
    BY <2>1, <2>2, <2>3, CallInv DEF TypeOK, TablesAreCounted
  <2> QED BY <2>1, <2>2, <2>4, CallInv
<1>6. CASE VmxInit
  <2>1. Calls({"e820", "vmx"}, "vmx", VmxRequests)
        /\ UNCHANGED <<eptNext, acpiEnd, decodes>>
        /\ launches < 2 /\ launches' = launches + 1
    BY <1>6 DEF VmxInit
  <2>2. launches' \in 0 .. 2  BY <2>1 DEF TypeOK
  <2>3. VmxRequests \in Seq(GoodRequest)  BY <1>0, RequestsAreGood
  <2>4. pc \in {"e820", "vmx"} /\ pc' = "vmx" /\ machine' = machine  BY <2>1 DEF Calls
  <2>5. TypeOK' /\ TablesAreCounted'
    BY <2>1, <2>2, <2>3, <2>4, CallInv DEF TypeOK, TablesAreCounted
  <2> QED BY <2>1, <2>3, <2>5, CallInv
<1>7. CASE HandleEptViolation
  <2>1. Calls({"vmx", "guest"}, "guest", << Request("code", PAGE_SIZE) >>)
        /\ UNCHANGED <<eptNext, acpiEnd, launches>>
        /\ decodes < MaxDecodes /\ decodes' = decodes + 1
    BY <1>7 DEF HandleEptViolation
  <2>2. decodes' \in 0 .. MaxDecodes  BY <2>1, ConstantsAreSane DEF TypeOK
  <2>3. << Request("code", PAGE_SIZE) >> \in Seq(GoodRequest)  BY <1>0, RequestsAreGood
  <2>4. pc \in {"vmx", "guest"} /\ pc' = "guest" /\ machine' = machine  BY <2>1 DEF Calls
  <2>5. TypeOK' /\ TablesAreCounted'
    BY <2>1, <2>2, <2>3, <2>4, CallInv DEF TypeOK, TablesAreCounted
  <2> QED BY <2>1, <2>3, <2>5, CallInv
<1> QED BY <1>1, <1>2, <1>3, <1>4, <1>5, <1>6, <1>7 DEF Next

LEMMA StepInv == Inv /\ [Next]_vars => Inv'
<1> SUFFICES ASSUME Inv, [Next]_vars PROVE Inv'  OBVIOUS
<1>1. CASE UNCHANGED vars
  BY <1>1 DEF vars, Inv, TypeOK, Stacked, BlocksAreApart, HolesAreInBlocks, HoleOf,
     RspIsABlock, TablesAreCounted, End
<1> QED BY <1>1, AllocInv, CallersInv

THEOREM Invariance == Spec => []Inv
BY InitInv, StepInv, PTL DEF Spec

---------------------------------------------------------------------------
(* The theorems *)

\* The variables stay in their types.
THEOREM TypesAreKept == Spec => []TypeOK
<1>1. Inv => TypeOK  BY DEF Inv
<1> QED BY <1>1, Invariance, PTL

\* No block that MmuAllocVa returns runs into another or into the page in front of it.
THEOREM MemoryIsNotShared == Spec => []BlocksAreApart
<1>1. Inv => BlocksAreApart  BY DEF Inv
<1> QED BY <1>1, Invariance, PTL

\* A block is where the invariant says.
LEMMA WhereABlockIs ==
    ASSUME Inv, NEW i \in 1 .. Len(blocks)
    PROVE  /\ blocks[i] \in Block /\ blocks[i].base \in Nat /\ End(blocks[i]) \in Nat
           /\ blocks[i].base <= End(blocks[i])
           /\ blocks[i].base >= HEAP_ADDRESS + PAGE_SIZE
           /\ \A j \in 1 .. Len(blocks) : i < j => End(blocks[i]) + PAGE_SIZE <= blocks[j].base
           /\ \A j \in 1 .. Len(blocks) : j < i => End(blocks[j]) + PAGE_SIZE <= blocks[i].base
<1>1. blocks[i] \in Block  BY DEF Inv, TypeOK
<1>2. blocks[i].base \in Nat /\ End(blocks[i]) \in Nat /\ blocks[i].base <= End(blocks[i])
  BY <1>1, EndOfBlock DEF Block
<1> QED BY <1>1, <1>2 DEF Inv, Stacked, BlocksAreApart

\* Nothing the hypervisor reads or writes is ever taken out of the mapping.
THEOREM MemoryStaysMapped == Spec => []UsedMemoryStaysMapped
<1>1. Inv => UsedMemoryStaysMapped
  <2> SUFFICES ASSUME Inv, NEW i \in 1 .. Len(blocks), NEW h \in holes,
                      blocks[i].use # "ioBitmap"
               PROVE  ~ Meets(IF blocks[i].use = "apStack" THEN blocks[i].base + PAGE_SIZE
                              ELSE blocks[i].base, End(blocks[i]), h)
    BY DEF UsedMemoryStaysMapped
  <2>1. PICK j \in 1 .. Len(blocks) : HoleOf(blocks[j], h)  BY DEF Inv, HolesAreInBlocks
  <2>2. h.from \in Nat /\ h.to \in Nat  BY DEF Inv, TypeOK, Hole
  <2>3. i \in Nat /\ j \in Nat  BY DEF Inv, TypeOK
  <2>4. CASE i = j
    BY <2>1, <2>2, <2>4, WhereABlockIs DEF HoleOf, Meets, PAGE_SIZE
  <2>5. CASE i < j
    <3>1. End(blocks[i]) + PAGE_SIZE <= blocks[j].base  BY <2>5, WhereABlockIs
    <3>2. End(blocks[i]) <= h.from
      BY <2>1, <2>2, <3>1, WhereABlockIs DEF HoleOf, PAGE_SIZE
    <3> QED BY <2>2, <3>2, WhereABlockIs DEF Meets
  <2>6. CASE j < i
    <3>1. End(blocks[j]) + PAGE_SIZE <= blocks[i].base  BY <2>6, WhereABlockIs
    <3>2. h.to <= blocks[i].base
      BY <2>1, <2>2, <3>1, WhereABlockIs DEF HoleOf, PAGE_SIZE
    <3> QED BY <2>2, <3>2, WhereABlockIs DEF Meets, PAGE_SIZE
  <2> QED BY <2>3, <2>4, <2>5, <2>6
<1> QED BY <1>1, Invariance, PTL

\* The VM-exit handler has a page of stack that is mapped and no one else's.
THEOREM HandlerHasAStack == Spec => []ExitStackHasAPage
<1>1. Inv => ExitStackHasAPage
  <2> SUFFICES ASSUME Inv, hostRsp # 0 PROVE
         /\ hostRsp - PAGE_SIZE >= HEAP_ADDRESS
         /\ \A j \in 1 .. Len(blocks) :
               End(blocks[j]) <= hostRsp - PAGE_SIZE \/ blocks[j].base >= hostRsp
         /\ \A h \in holes : ~ Meets(hostRsp - PAGE_SIZE, hostRsp, h)
    BY DEF ExitStackHasAPage
  <2>1. PICK i \in 1 .. Len(blocks) : hostRsp = blocks[i].base  BY DEF Inv, RspIsABlock
  <2>2. hostRsp \in Nat /\ hostRsp >= HEAP_ADDRESS + PAGE_SIZE /\ HEAP_ADDRESS \in Nat
    BY <2>1, WhereABlockIs DEF HEAP_ADDRESS, MB
  <2>3. ASSUME NEW j \in 1 .. Len(blocks)
        PROVE  End(blocks[j]) <= hostRsp - PAGE_SIZE \/ blocks[j].base >= hostRsp
    <3>0. i \in Nat /\ j \in Nat  BY DEF Inv, TypeOK
    <3>1. CASE j < i
      <4>1. End(blocks[j]) + PAGE_SIZE <= hostRsp  BY <2>1, <3>1, WhereABlockIs
      <4> QED BY <2>2, <4>1, WhereABlockIs DEF PAGE_SIZE
    <3>2. CASE j = i  BY <2>1, <2>2, <3>2
    <3>3. CASE i < j
      <4>1. End(blocks[i]) + PAGE_SIZE <= blocks[j].base /\ hostRsp <= End(blocks[i])
        BY <2>1, <3>3, WhereABlockIs
      <4> QED BY <2>2, <4>1, WhereABlockIs DEF PAGE_SIZE
    <3> QED BY <3>0, <3>1, <3>2, <3>3
  <2>4. ASSUME NEW h \in holes PROVE ~ Meets(hostRsp - PAGE_SIZE, hostRsp, h)
    <3>1. PICK j \in 1 .. Len(blocks) : HoleOf(blocks[j], h)  BY DEF Inv, HolesAreInBlocks
    <3>2. h.from \in Nat /\ h.to \in Nat  BY DEF Inv, TypeOK, Hole
    <3>3. CASE End(blocks[j]) <= hostRsp - PAGE_SIZE
      BY <2>2, <3>1, <3>2, <3>3, WhereABlockIs DEF HoleOf, Meets, PAGE_SIZE
    <3>4. CASE blocks[j].base >= hostRsp
      BY <2>2, <3>1, <3>2, <3>4, WhereABlockIs DEF HoleOf, Meets, PAGE_SIZE
    <3> QED BY <2>3, <3>3, <3>4
  <2>5. hostRsp - PAGE_SIZE >= HEAP_ADDRESS  BY <2>2 DEF PAGE_SIZE
  <2> QED BY <2>3, <2>4, <2>5
<1> QED BY <1>1, Invariance, PTL

\* With an E820 map that ends below 39.8 GB no EPT table is a heap block.
THEOREM TablesStayOutOfTheHeap == Spec => []EptTablesStayBelowHeap
<1>1. Inv => EptTablesStayBelowHeap
  <2> SUFFICES ASSUME Inv, machine.top <= MaxTop
               PROVE  /\ eptNext + PAGE_SIZE <= HEAP_ADDRESS
                      /\ \A i \in 1 .. Len(blocks) : eptNext + PAGE_SIZE <= blocks[i].base
    BY DEF EptTablesStayBelowHeap
  <2>1. machine.top \in Nat \ {0}  BY ConstantsAreSane DEF Inv, TypeOK
  <2>2. EptTables(machine.top) \in Nat /\ EptTables(machine.top) <= 20479
    BY <2>1, EptTablesType
  <2>3. eptNext + PAGE_SIZE <= HEAP_ADDRESS /\ eptNext \in Nat
    BY <2>2 DEF Inv, TablesAreCounted, EPT_PML4_PA, HEAP_ADDRESS, MB, PAGE_SIZE
  <2>4. HEAP_ADDRESS \in Nat  BY DEF HEAP_ADDRESS, MB
  <2> QED BY <2>3, <2>4, WhereABlockIs DEF PAGE_SIZE
<1> QED BY <1>1, Invariance, PTL

---------------------------------------------------------------------------
(* How much is taken *)

\* The pages the next request of a function takes when l are left, on n
\* processors: its block's and the one in front of it.
HeadPages(fn, n, l) ==
    CASE fn = "gdt" -> IF l = 2 * n + 1 THEN 2 ELSE 5
      [] fn = "aps" -> 5
      [] OTHER      -> 2

\* The pages the l requests left still take.
Owed(fn, n, l) ==
    CASE fn = "gdt" -> IF l = 2 * n + 1 THEN 2 + 10 * n ELSE 5 * l
      [] fn = "aps" -> 5 * l
      [] OTHER      -> 2 * l

\* The pages the functions called since ACPICA was done take in all, when fn is
\* the last of them, after v launches and d decoded EPT violations.
Taken(fn, n, v, d) ==
    LET stacks == IF fn \in {"aps", "ept", "e820", "vmx", "guest"} THEN 5 * (n - 1) ELSE 0
        map    == IF fn \in {"e820", "vmx", "guest"} THEN 2 ELSE 0
    IN  2 + 10 * n + stacks + map + 14 * v + 2 * d

\* These requests have the sizes that were counted for them.
Sized(fn, n, requests) ==
    /\ fn = "gdt" => Len(requests) <= 2 * n + 1
    /\ \A i \in 1 .. Len(requests) :
          AlignAddressUpper(requests[i].size)
              = PAGE_SIZE * (HeadPages(fn, n, Len(requests) - i + 1) - 1)

\* Nothing is launched before VmxInit, nothing decoded before a guest runs.
Early ==
    /\ pc \notin {"vmx", "guest"} => launches = 0
    /\ pc # "guest" => decodes = 0

\* What has been handed out since ACPICA was done and what is still to come is
\* what the functions called take.
Counted ==
    pc # "acpi" =>
        /\ Sized(pc, machine.cpus, todo)
        /\ nextAvailableVa + PAGE_SIZE * Owed(pc, machine.cpus, Len(todo))
             = acpiEnd + PAGE_SIZE * Taken(pc, machine.cpus, launches, decodes)

LEMMA Sizes ==
    /\ AlignAddressUpper(PAGE_SIZE) = PAGE_SIZE
    /\ AlignAddressUpper(4 * 1024) = PAGE_SIZE
    /\ AlignAddressUpper(CPU_STACK_SIZE) = 4 * PAGE_SIZE
    /\ \A n \in 1 .. 8 : AlignAddressUpper(24 + 16 * n) = PAGE_SIZE
BY SMTT(30) DEF AlignAddressUpper, AlignAddressLower, AddressOffset, PAGE_SIZE, CPU_STACK_SIZE

LEMMA OwedValues ==
    ASSUME NEW n \in 1 .. 8, NEW l \in Nat
    PROVE  /\ Owed("gdt", n, 2 * n + 1) = 2 + 10 * n
           /\ Owed("aps", n, l) = 5 * l
           /\ \A fn : fn \notin {"gdt", "aps"} => Owed(fn, n, l) = 2 * l
           /\ \A fn : Owed(fn, n, l) \in Nat
           /\ \A fn : Owed(fn, n, 0) = 0
<1>1. Owed("gdt", n, 2 * n + 1) = 2 + 10 * n  BY DEF Owed
<1>2. Owed("aps", n, l) = 5 * l  BY DEF Owed
<1>3. ASSUME NEW fn, fn \notin {"gdt", "aps"} PROVE Owed(fn, n, l) = 2 * l
  BY <1>3 DEF Owed
<1>4. ASSUME NEW fn PROVE Owed(fn, n, l) \in Nat
  <2>1. CASE fn = "gdt"
    <3>1. Owed(fn, n, l) = IF l = 2 * n + 1 THEN 2 + 10 * n ELSE 5 * l  BY <2>1 DEF Owed
    <3> QED BY <3>1
  <2> QED BY <1>2, <1>3, <2>1
<1>5. ASSUME NEW fn PROVE Owed(fn, n, 0) = 0
  <2>1. CASE fn = "gdt"
    <3>1. Owed(fn, n, 0) = IF 0 = 2 * n + 1 THEN 2 + 10 * n ELSE 5 * 0  BY <2>1 DEF Owed
    <3> QED BY <3>1
  <2>2. CASE fn = "aps"  BY <2>2 DEF Owed
  <2>3. CASE fn \notin {"gdt", "aps"}  BY <2>3 DEF Owed
  <2> QED BY <2>1, <2>2, <2>3
<1> QED BY <1>1, <1>2, <1>3, <1>4, <1>5

LEMMA TakenValues ==
    ASSUME NEW n \in 1 .. 8, NEW v \in Nat, NEW d \in Nat
    PROVE  /\ Taken("gdt", n, v, d) = 2 + 10 * n + 14 * v + 2 * d
           /\ Taken("aps", n, v, d) = Taken("gdt", n, v, d) + 5 * (n - 1)
           /\ Taken("ept", n, v, d) = Taken("aps", n, v, d)
           /\ Taken("e820", n, v, d) = Taken("ept", n, v, d) + 2
           /\ Taken("vmx", n, v, d) = Taken("e820", n, v, d)
           /\ Taken("vmx", n, v + 1, d) = Taken("vmx", n, v, d) + 14
           /\ Taken("guest", n, v, d) = Taken("vmx", n, v, d)
           /\ Taken("guest", n, v, d + 1) = Taken("guest", n, v, d) + 2
           /\ \A fn : Taken(fn, n, v, d) \in Nat
<1>1. /\ Taken("gdt", n, v, d) = 2 + 10 * n + 14 * v + 2 * d
      /\ Taken("aps", n, v, d) = 2 + 10 * n + 5 * (n - 1) + 14 * v + 2 * d
      /\ Taken("ept", n, v, d) = 2 + 10 * n + 5 * (n - 1) + 14 * v + 2 * d
      /\ \A x \in {"e820", "vmx", "guest"} : \A u, w \in Nat :
            Taken(x, n, u, w) = 2 + 10 * n + 5 * (n - 1) + 2 + 14 * u + 2 * w
  BY DEF Taken
<1>2. ASSUME NEW fn PROVE Taken(fn, n, v, d) \in Nat
  <2> DEFINE a == IF fn \in {"aps", "ept", "e820", "vmx", "guest"} THEN 5 * (n - 1) ELSE 0
             b == IF fn \in {"e820", "vmx", "guest"} THEN 2 ELSE 0
  <2>1. a \in Nat /\ b \in Nat  OBVIOUS
  <2>2. Taken(fn, n, v, d) = 2 + 10 * n + a + b + 14 * v + 2 * d  BY DEF Taken
  <2> HIDE DEF a, b
  <2> QED BY <2>1, <2>2
<1>3. Taken("e820", n, v, d) = Taken("ept", n, v, d) + 2  BY <1>1
<1>4. /\ Taken("vmx", n, v, d) = Taken("e820", n, v, d)
      /\ Taken("guest", n, v, d) = Taken("vmx", n, v, d)
  BY <1>1
<1>5. Taken("vmx", n, v + 1, d) = Taken("vmx", n, v, d) + 14
  <2>1. /\ Taken("vmx", n, v, d) = 2 + 10 * n + 5 * (n - 1) + 2 + 14 * v + 2 * d
        /\ Taken("vmx", n, v + 1, d) = 2 + 10 * n + 5 * (n - 1) + 2 + 14 * (v + 1) + 2 * d
    BY DEF Taken
  <2> QED BY <2>1
<1>6. Taken("guest", n, v, d + 1) = Taken("guest", n, v, d) + 2
  <2>1. /\ Taken("guest", n, v, d) = 2 + 10 * n + 5 * (n - 1) + 2 + 14 * v + 2 * d
        /\ Taken("guest", n, v, d + 1) = 2 + 10 * n + 5 * (n - 1) + 2 + 14 * v + 2 * (d + 1)
    BY DEF Taken
  <2> QED BY <2>1
<1>7. Taken("aps", n, v, d) = Taken("gdt", n, v, d) + 5 * (n - 1)  BY <1>1
<1> QED BY <1>1, <1>2, <1>3, <1>4, <1>5, <1>6, <1>7

LEMMA OwedStep ==
    ASSUME NEW fn, NEW n \in 1 .. 8, NEW l \in Nat \ {0}, fn = "gdt" => l <= 2 * n + 1
    PROVE  /\ Owed(fn, n, l) = HeadPages(fn, n, l) + Owed(fn, n, l - 1)
           /\ HeadPages(fn, n, l) \in Nat /\ Owed(fn, n, l - 1) \in Nat
<1>1. CASE fn = "gdt"
  <2>1. CASE l = 2 * n + 1
    <3>1. Owed(fn, n, l) = 2 + 10 * n /\ HeadPages(fn, n, l) = 2
      BY <1>1, <2>1 DEF Owed, HeadPages
    <3>2. Owed(fn, n, l - 1) = 5 * (l - 1)  BY <1>1, <2>1 DEF Owed
    <3> QED BY <2>1, <3>1, <3>2
  <2>2. CASE l # 2 * n + 1
    <3>1. Owed(fn, n, l) = 5 * l /\ HeadPages(fn, n, l) = 5
      BY <1>1, <2>2 DEF Owed, HeadPages
    <3>2. Owed(fn, n, l - 1) = 5 * (l - 1)  BY <1>1, <2>2 DEF Owed
    <3> QED BY <3>1, <3>2
  <2> QED BY <2>1, <2>2
<1>2. CASE fn = "aps"
  <2>1. Owed(fn, n, l) = 5 * l /\ HeadPages(fn, n, l) = 5 /\ Owed(fn, n, l - 1) = 5 * (l - 1)
    BY <1>2 DEF Owed, HeadPages
  <2> QED BY <2>1
<1>3. CASE fn \notin {"gdt", "aps"}
  <2>1. Owed(fn, n, l) = 2 * l /\ HeadPages(fn, n, l) = 2 /\ Owed(fn, n, l - 1) = 2 * (l - 1)
    BY <1>3 DEF Owed, HeadPages
  <2> QED BY <2>1
<1> QED BY <1>1, <1>2, <1>3

LEMMA CountTypes ==
    ASSUME Inv
    PROVE  /\ machine.cpus \in 1 .. 8 /\ Len(todo) \in Nat /\ nextAvailableVa \in Nat
           /\ acpiEnd \in Nat /\ launches \in Nat /\ decodes \in Nat
           /\ AddressOffset(nextAvailableVa) = 0
           /\ todo \in Seq([use: Uses, size: Nat])
BY ConstantsAreSane DEF Inv, TypeOK, Stacked

LEMMA InitCounted == Init => Early /\ Counted
BY DEF Init, Early, Counted

LEMMA StepEarly == Early /\ [Next]_vars => Early'
BY DEF Early, Next, vars, Calls, MmuAllocVa, AcpiOsAllocate, GdtSetupFinalGdt, LapicSignalAllAPs,
       MmuMapMemoryEntriesInEpt, MmuCreateModifiedE820MemoryMap, VmxInit, HandleEptViolation

\* A request takes the pages that were counted for it.
LEMMA AllocCounted == Inv /\ Counted /\ MmuAllocVa => Counted'
<1> SUFFICES ASSUME Inv, Counted, MmuAllocVa, pc # "acpi" PROVE Counted'
  BY DEF Counted, MmuAllocVa
<1> DEFINE l == Len(todo)
           r == Head(todo)
           n == machine.cpus
           h == HeadPages(pc, n, l)
           o == Owed(pc, n, l - 1)
           t == Taken(pc, n, launches, decodes)
<1>1. /\ machine' = machine /\ pc' = pc /\ acpiEnd' = acpiEnd
      /\ launches' = launches /\ decodes' = decodes
      /\ todo # << >> /\ todo' = Tail(todo)
      /\ nextAvailableVa' = BlockBase(nextAvailableVa) + BlockLength(nextAvailableVa, r.size)
  BY DEF MmuAllocVa
<1>2. /\ n \in 1 .. 8 /\ l \in Nat \ {0} /\ nextAvailableVa \in Nat /\ acpiEnd \in Nat
      /\ r = todo[1] /\ r.size \in Nat
      /\ Len(todo') = l - 1 /\ \A i \in 1 .. l - 1 : todo'[i] = todo[i + 1]
  <2>1. todo \in Seq([use: Uses, size: Nat]) /\ todo # << >>  BY <1>1, CountTypes
  <2>2. l \in Nat \ {0} /\ r = todo[1] /\ r \in [use: Uses, size: Nat]
    <3> DEFINE R == [use: Uses, size: Nat]
    <3>1. todo \in Seq(R) /\ todo # << >>  BY <2>1
    <3> HIDE DEF R
    <3>2. l \in Nat \ {0} /\ r = todo[1] /\ r \in R  BY <3>1
    <3> QED BY <3>2 DEF R
  <2>3. Len(todo') = l - 1 /\ \A i \in 1 .. l - 1 : todo'[i] = todo[i + 1]
    BY <1>1, <2>1
  <2> QED BY <2>2, <2>3, CountTypes
<1>3. /\ pc = "gdt" => l <= 2 * n + 1
      /\ \A i \in 1 .. l : AlignAddressUpper(todo[i].size)
                             = PAGE_SIZE * (HeadPages(pc, n, l - i + 1) - 1)
      /\ nextAvailableVa + PAGE_SIZE * Owed(pc, n, l) = acpiEnd + PAGE_SIZE * t
  BY DEF Counted, Sized
<1>4. Owed(pc, n, l) = h + o /\ h \in Nat /\ o \in Nat
  <2> HIDE DEF n, l
  <2> QED BY <1>2, <1>3, OwedStep
<1>5. nextAvailableVa' = nextAvailableVa + PAGE_SIZE + PAGE_SIZE * (h - 1)
  <2>1. AddressOffset(nextAvailableVa) = 0  BY CountTypes
  <2>2. BlockBase(nextAvailableVa) = nextAvailableVa + PAGE_SIZE
    BY <1>2, <2>1 DEF BlockBase, PAGE_SIZE
  <2>3. BlockLength(nextAvailableVa, r.size) = AlignAddressUpper(r.size)
    BY <1>2, <2>1 DEF BlockLength
  <2>4. 1 \in 1 .. l /\ l - 1 + 1 = l  BY <1>2
  <2>5. AlignAddressUpper(r.size) = PAGE_SIZE * (h - 1)  BY <1>2, <1>3, <2>4
  <2> QED BY <1>1, <2>2, <2>3, <2>5
<1>6. nextAvailableVa' + PAGE_SIZE * o = acpiEnd + PAGE_SIZE * t
  <2> HIDE DEF h, o, t
  <2>1. nextAvailableVa' + PAGE_SIZE * o = nextAvailableVa + PAGE_SIZE * (h + o)
    BY <1>2, <1>4, <1>5 DEF PAGE_SIZE
  <2> QED BY <1>3, <1>4, <2>1
<1>7. ASSUME NEW i \in 1 .. l - 1
      PROVE  AlignAddressUpper(todo'[i].size)
               = PAGE_SIZE * (HeadPages(pc, n, l - 1 - i + 1) - 1)
  <2>1. i + 1 \in 1 .. l /\ todo'[i] = todo[i + 1] /\ l - 1 - i + 1 = l - (i + 1) + 1
    BY <1>2
  <2> QED BY <1>3, <2>1
<1> HIDE DEF l, n, o, t
<1>8. Sized(pc', machine'.cpus, todo')
  <2>1. machine'.cpus = n /\ pc' = pc /\ Len(todo') = l - 1  BY <1>1, <1>2 DEF n
  <2>2. pc = "gdt" => l - 1 <= 2 * n + 1  BY <1>2, <1>3
  <2> QED BY <1>7, <2>1, <2>2 DEF Sized
<1>10. nextAvailableVa' + PAGE_SIZE * Owed(pc', machine'.cpus, Len(todo'))
         = acpiEnd' + PAGE_SIZE * Taken(pc', machine'.cpus, launches', decodes')
  <2>1. machine'.cpus = n /\ pc' = pc /\ Len(todo') = l - 1  BY <1>1, <1>2 DEF n
  <2>2. Taken(pc', machine'.cpus, launches', decodes') = t  BY <1>1 DEF t, n
  <2> QED BY <1>1, <1>6, <2>1, <2>2 DEF o
<1> QED BY <1>8, <1>10 DEF Counted, Sized, AlignAddressUpper, AlignAddressLower, AddressOffset

\* A function called when nothing is left adds what it takes.
LEMMA CallCounted ==
    ASSUME Inv, Counted, NEW from, NEW to, NEW requests, NEW k \in Nat,
           Calls(from, to, requests), "acpi" \notin from, acpiEnd' = acpiEnd,
           Sized(to, machine.cpus, requests),
           Owed(to, machine.cpus, Len(requests)) = k,
           Taken(to, machine.cpus, launches', decodes')
             = Taken(pc, machine.cpus, launches, decodes) + k
    PROVE  Counted'
<1> DEFINE o == Owed(pc, machine.cpus, Len(todo))
           t == Taken(pc, machine.cpus, launches, decodes)
           u == Taken(to, machine.cpus, launches', decodes')
<1>1. /\ pc \in from /\ todo = << >> /\ pc # "acpi"
      /\ machine' = machine /\ pc' = to /\ todo' = requests /\ nextAvailableVa' = nextAvailableVa
  BY DEF Calls
<1>2. /\ machine.cpus \in 1 .. 8 /\ nextAvailableVa \in Nat /\ acpiEnd \in Nat
      /\ launches \in Nat /\ decodes \in Nat
  BY CountTypes
<1>3. Len(todo) = 0  BY <1>1
<1>4. o = 0  BY <1>2, <1>3, OwedValues
<1>5. t \in Nat  BY <1>2, TakenValues
<1>6. nextAvailableVa + PAGE_SIZE * o = acpiEnd + PAGE_SIZE * t  BY <1>1 DEF Counted
<1>7. u = t + k  OBVIOUS
<1>8. nextAvailableVa + PAGE_SIZE * k = acpiEnd + PAGE_SIZE * u
  <2> HIDE DEF o, t, u
  <2> QED BY <1>2, <1>4, <1>5, <1>6, <1>7 DEF PAGE_SIZE
<1>9. Sized(pc', machine'.cpus, todo')
  BY <1>1 DEF Sized, AlignAddressUpper, AlignAddressLower, AddressOffset
<1>10. /\ Owed(pc', machine'.cpus, Len(todo')) = k
       /\ Taken(pc', machine'.cpus, launches', decodes') = u
  BY <1>1
<1>11. nextAvailableVa' + PAGE_SIZE * Owed(pc', machine'.cpus, Len(todo'))
         = acpiEnd' + PAGE_SIZE * Taken(pc', machine'.cpus, launches', decodes')
  BY <1>1, <1>8, <1>10
<1> QED BY <1>9, <1>11 DEF Counted, Sized, AlignAddressUpper, AlignAddressLower, AddressOffset

\* The requests of each function, with the pages they take.
LEMMA RequestsAreCounted ==
    ASSUME NEW n \in 1 .. 8
    PROVE  /\ Sized("gdt", n, GdtRequests(n))
           /\ Owed("gdt", n, Len(GdtRequests(n))) = 2 + 10 * n
           /\ Sized("aps", n, ApRequests(n))
           /\ Owed("aps", n, Len(ApRequests(n))) = 5 * (n - 1)
           /\ Sized("vmx", n, VmxRequests)
           /\ Owed("vmx", n, Len(VmxRequests)) = 14
<1>1. Len(GdtRequests(n)) = 2 * n + 1
      /\ GdtRequests(n)[1].size = 24 + 16 * n
      /\ \A i \in 2 .. 2 * n + 1 : GdtRequests(n)[i].size = CPU_STACK_SIZE
  <2> DEFINE a == << Request("gdt", 24 + 16 * n) >>
             b == Times(2 * n, Request("ist", CPU_STACK_SIZE))
             R == [use: Uses, size: Nat]
  <2>1. a \in Seq(R) /\ b \in Seq(R) /\ Len(a) = 1 /\ Len(b) = 2 * n
    BY DEF Request, Times, Uses, CPU_STACK_SIZE, PAGE_SIZE
  <2>2. a[1].size = 24 + 16 * n  BY DEF Request
  <2>3. \A i \in 1 .. 2 * n : b[i].size = CPU_STACK_SIZE  BY DEF Request, Times
  <2>4. GdtRequests(n) = a \o b  BY DEF GdtRequests
  <2> HIDE DEF a, b, R
  <2>5. Len(a \o b) = Len(a) + Len(b)
        /\ \A i \in 1 .. Len(a) + Len(b) :
              (a \o b)[i] = IF i <= Len(a) THEN a[i] ELSE b[i - Len(a)]
    BY <2>1, ConcatProperties
  <2>6. /\ Len(a \o b) = 2 * n + 1 /\ (a \o b)[1] = a[1]
        /\ \A i \in 2 .. 2 * n + 1 : (a \o b)[i] = b[i - 1] /\ i - 1 \in 1 .. 2 * n
    BY <2>1, <2>5
  <2> QED BY <2>2, <2>3, <2>4, <2>6
<1>2. ASSUME NEW i \in 1 .. Len(GdtRequests(n))
      PROVE  AlignAddressUpper(GdtRequests(n)[i].size)
               = PAGE_SIZE * (HeadPages("gdt", n, Len(GdtRequests(n)) - i + 1) - 1)
  <2> DEFINE l == Len(GdtRequests(n)) - i + 1
  <2>1. CASE i = 1
    <3>1. l = 2 * n + 1  BY <1>1, <2>1
    <3> HIDE DEF l
    <3>2. HeadPages("gdt", n, l) = 2  BY <3>1 DEF HeadPages
    <3>3. AlignAddressUpper(GdtRequests(n)[i].size) = PAGE_SIZE  BY <1>1, <2>1, Sizes
    <3> QED BY <3>2, <3>3 DEF PAGE_SIZE, l
  <2>2. CASE i # 1
    <3>1. l # 2 * n + 1 /\ i \in 2 .. 2 * n + 1  BY <1>1, <2>2
    <3> HIDE DEF l
    <3>2. HeadPages("gdt", n, l) = 5  BY <3>1 DEF HeadPages
    <3>3. AlignAddressUpper(GdtRequests(n)[i].size) = 4 * PAGE_SIZE  BY <1>1, <3>1, Sizes
    <3> QED BY <3>2, <3>3 DEF PAGE_SIZE, l
  <2> QED BY <2>1, <2>2
<1>3. Len(ApRequests(n)) = n - 1
      /\ \A i \in 1 .. n - 1 : ApRequests(n)[i].size = CPU_STACK_SIZE
  BY DEF ApRequests, Times, Request
<1>4. ASSUME NEW i \in 1 .. Len(ApRequests(n))
      PROVE  AlignAddressUpper(ApRequests(n)[i].size)
               = PAGE_SIZE * (HeadPages("aps", n, Len(ApRequests(n)) - i + 1) - 1)
  <2>1. AlignAddressUpper(ApRequests(n)[i].size) = 4 * PAGE_SIZE  BY <1>3, Sizes
  <2>2. \A l : HeadPages("aps", n, l) = 5  BY DEF HeadPages
  <2> QED BY <2>1, <2>2 DEF PAGE_SIZE
<1>5. Len(VmxRequests) = 7
      /\ \A i \in 1 .. 7 : AlignAddressUpper(VmxRequests[i].size) = PAGE_SIZE
  <2>1. Len(VmxRequests) = 7 /\ \A i \in 1 .. 7 : VmxRequests[i].size \in {PAGE_SIZE, 4 * 1024}
    BY DEF VmxRequests, Request
  <2> QED BY <2>1, Sizes
<1>6. ASSUME NEW i \in 1 .. Len(VmxRequests)
      PROVE  AlignAddressUpper(VmxRequests[i].size)
               = PAGE_SIZE * (HeadPages("vmx", n, Len(VmxRequests) - i + 1) - 1)
  <2>1. AlignAddressUpper(VmxRequests[i].size) = PAGE_SIZE  BY <1>5
  <2>2. \A l : HeadPages("vmx", n, l) = 2  BY DEF HeadPages
  <2> QED BY <2>1, <2>2 DEF PAGE_SIZE
<1>7. 2 * n + 1 <= 2 * n + 1  OBVIOUS
<1>8. Sized("gdt", n, GdtRequests(n))  BY <1>1, <1>2, <1>7 DEF Sized
<1>9. Sized("aps", n, ApRequests(n))  BY <1>4 DEF Sized
<1>10. Sized("vmx", n, VmxRequests)  BY <1>6 DEF Sized
<1>11. Owed("gdt", n, Len(GdtRequests(n))) = 2 + 10 * n  BY <1>1 DEF Owed
<1>12. Owed("aps", n, Len(ApRequests(n))) = 5 * (n - 1)  BY <1>3 DEF Owed
<1>13. Owed("vmx", n, Len(VmxRequests)) = 14
  <2>1. Owed("vmx", n, Len(VmxRequests)) = 2 * Len(VmxRequests)  BY DEF Owed
  <2> QED BY <1>5, <2>1
<1> QED BY <1>8, <1>9, <1>10, <1>11, <1>12, <1>13

\* The same for the functions that ask for one page, and for the one that asks for none.
LEMMA PagesAreCounted ==
    ASSUME NEW n
    PROVE  /\ \A fn \in {"e820", "guest"} : \A use :
                 /\ Sized(fn, n, << Request(use, PAGE_SIZE) >>)
                 /\ Owed(fn, n, Len(<< Request(use, PAGE_SIZE) >>)) = 2
           /\ Sized("ept", n, << >>) /\ Owed("ept", n, Len(<< >>)) = 0
<1>1. ASSUME NEW fn \in {"e820", "guest"}, NEW use
      PROVE  /\ Sized(fn, n, << Request(use, PAGE_SIZE) >>)
             /\ Owed(fn, n, Len(<< Request(use, PAGE_SIZE) >>)) = 2
  <2> DEFINE s == << Request(use, PAGE_SIZE) >>
  <2>1. Len(s) = 1 /\ s[1].size = PAGE_SIZE  BY DEF Request
  <2>2. \A l : HeadPages(fn, n, l) = 2  BY DEF HeadPages
  <2> HIDE DEF s
  <2>3. Sized(fn, n, s)  BY <2>1, <2>2, Sizes DEF PAGE_SIZE, Sized
  <2>4. Owed(fn, n, Len(s)) = 2 * Len(s)  BY DEF Owed
  <2>5. Owed(fn, n, Len(s)) = 2  BY <2>1, <2>4
  <2> QED BY <2>3, <2>5 DEF s
<1>2. Sized("ept", n, << >>)  BY DEF Sized
<1>3. Owed("ept", n, Len(<< >>)) = 0  BY DEF Owed
<1> QED BY <1>1, <1>2, <1>3

LEMMA CallersCounted == Inv /\ Early /\ Counted /\ (Next /\ ~ MmuAllocVa) => Counted'
<1> SUFFICES ASSUME Inv, Early, Counted, Next, ~ MmuAllocVa PROVE Counted'  OBVIOUS
<1>0. /\ machine.cpus \in 1 .. 8 /\ nextAvailableVa \in Nat /\ acpiEnd \in Nat
      /\ launches \in Nat /\ decodes \in Nat
  BY CountTypes
\* What each function has taken in all.
<1>t. /\ Taken("gdt", machine.cpus, launches, decodes)
           = 2 + 10 * machine.cpus + 14 * launches + 2 * decodes
      /\ Taken("aps", machine.cpus, launches, decodes)
           = Taken("gdt", machine.cpus, launches, decodes) + 5 * (machine.cpus - 1)
      /\ Taken("ept", machine.cpus, launches, decodes)
           = Taken("aps", machine.cpus, launches, decodes)
      /\ Taken("e820", machine.cpus, launches, decodes)
           = Taken("ept", machine.cpus, launches, decodes) + 2
      /\ Taken("vmx", machine.cpus, launches, decodes)
           = Taken("e820", machine.cpus, launches, decodes)
      /\ Taken("vmx", machine.cpus, launches + 1, decodes)
           = Taken("vmx", machine.cpus, launches, decodes) + 14
      /\ Taken("guest", machine.cpus, launches, decodes)
           = Taken("vmx", machine.cpus, launches, decodes)
      /\ Taken("guest", machine.cpus, launches, decodes + 1)
           = Taken("guest", machine.cpus, launches, decodes) + 2
      /\ \A fn : Taken(fn, machine.cpus, launches, decodes) \in Nat
  BY <1>0, TakenValues
<1>1. ASSUME NEW size \in AcpiSizes, AcpiOsAllocate(size) PROVE Counted'
  BY <1>1 DEF AcpiOsAllocate, Calls, Counted
<1>2. CASE GdtSetupFinalGdt
  <2>1. /\ acpiEnd' = nextAvailableVa /\ nextAvailableVa' = nextAvailableVa
        /\ machine' = machine /\ pc' = "gdt" /\ todo' = GdtRequests(machine.cpus)
        /\ launches' = 0 /\ decodes' = 0 /\ launches = 0 /\ decodes = 0
    BY <1>2 DEF GdtSetupFinalGdt, Calls, Early
  <2>2. /\ Sized("gdt", machine.cpus, GdtRequests(machine.cpus))
        /\ Owed("gdt", machine.cpus, Len(GdtRequests(machine.cpus))) = 2 + 10 * machine.cpus
    BY <1>0, RequestsAreCounted
  <2>3. Taken("gdt", machine.cpus, 0, 0) = 2 + 10 * machine.cpus  BY <1>0, <1>t, <2>1
  <2>4. Sized(pc', machine'.cpus, todo')
    BY <2>1, <2>2 DEF Sized, AlignAddressUpper, AlignAddressLower, AddressOffset
  <2>5. nextAvailableVa' + PAGE_SIZE * Owed(pc', machine'.cpus, Len(todo'))
          = acpiEnd' + PAGE_SIZE * Taken(pc', machine'.cpus, launches', decodes')
    BY <2>1, <2>2, <2>3
  <2> QED BY <2>4, <2>5 DEF Counted, Sized, AlignAddressUpper, AlignAddressLower, AddressOffset
<1>3. CASE LapicSignalAllAPs
  <2>1. /\ Calls({"gdt"}, "aps", ApRequests(machine.cpus)) /\ pc \in {"gdt"}
        /\ acpiEnd' = acpiEnd /\ launches' = launches /\ decodes' = decodes
    BY <1>3 DEF LapicSignalAllAPs, Calls
  <2>2. /\ Sized("aps", machine.cpus, ApRequests(machine.cpus))
        /\ Owed("aps", machine.cpus, Len(ApRequests(machine.cpus))) = 5 * (machine.cpus - 1)
    BY <1>0, RequestsAreCounted
  <2>3. Taken("aps", machine.cpus, launches', decodes')
          = Taken(pc, machine.cpus, launches, decodes) + 5 * (machine.cpus - 1)
    BY <1>0, <1>t, <2>1
  <2>4. 5 * (machine.cpus - 1) \in Nat  BY <1>0
  <2> QED BY <2>1, <2>2, <2>3, <2>4, CallCounted
<1>4. CASE MmuMapMemoryEntriesInEpt
  <2>1. /\ Calls({"aps"}, "ept", << >>) /\ pc \in {"aps"}
        /\ acpiEnd' = acpiEnd /\ launches' = launches /\ decodes' = decodes
    BY <1>4 DEF MmuMapMemoryEntriesInEpt, Calls
  <2>2. /\ Sized("ept", machine.cpus, << >>)
        /\ Owed("ept", machine.cpus, Len(<< >>)) = 0
    BY <1>0, PagesAreCounted
  <2>3. Taken("ept", machine.cpus, launches', decodes')
          = Taken(pc, machine.cpus, launches, decodes) + 0
    BY <1>0, <1>t, <2>1
  <2>4. 0 \in Nat  BY <1>0
  <2> QED BY <2>1, <2>2, <2>3, <2>4, CallCounted
<1>5. CASE MmuCreateModifiedE820MemoryMap
  <2>1. /\ Calls({"ept"}, "e820", << Request("e820", PAGE_SIZE) >>) /\ pc \in {"ept"}
        /\ acpiEnd' = acpiEnd /\ launches' = launches /\ decodes' = decodes
    BY <1>5 DEF MmuCreateModifiedE820MemoryMap, Calls
  <2>2. /\ Sized("e820", machine.cpus, << Request("e820", PAGE_SIZE) >>)
        /\ Owed("e820", machine.cpus, Len(<< Request("e820", PAGE_SIZE) >>)) = 2
    BY <1>0, PagesAreCounted
  <2>3. Taken("e820", machine.cpus, launches', decodes')
          = Taken(pc, machine.cpus, launches, decodes) + 2
    BY <1>0, <1>t, <2>1
  <2>4. 2 \in Nat  BY <1>0
  <2> QED BY <2>1, <2>2, <2>3, <2>4, CallCounted
<1>6. CASE VmxInit
  <2>1. /\ Calls({"e820", "vmx"}, "vmx", VmxRequests) /\ pc \in {"e820", "vmx"}
        /\ acpiEnd' = acpiEnd /\ launches' = launches + 1 /\ decodes' = decodes
    BY <1>6 DEF VmxInit, Calls
  <2>2. /\ Sized("vmx", machine.cpus, VmxRequests)
        /\ Owed("vmx", machine.cpus, Len(VmxRequests)) = 14
    BY <1>0, RequestsAreCounted
  <2>3. Taken("vmx", machine.cpus, launches', decodes')
          = Taken(pc, machine.cpus, launches, decodes) + 14
    <3>1. CASE pc = "e820"  BY <1>0, <1>t, <2>1, <3>1
    <3>2. CASE pc = "vmx"  BY <1>0, <1>t, <2>1, <3>2
    <3> QED BY <2>1, <3>1, <3>2
  <2>4. 14 \in Nat  BY <1>0
  <2> QED BY <2>1, <2>2, <2>3, <2>4, CallCounted
<1>7. CASE HandleEptViolation
  <2>1. /\ Calls({"vmx", "guest"}, "guest", << Request("code", PAGE_SIZE) >>)
        /\ pc \in {"vmx", "guest"}
        /\ acpiEnd' = acpiEnd /\ launches' = launches /\ decodes' = decodes + 1
    BY <1>7 DEF HandleEptViolation, Calls
  <2>2. /\ Sized("guest", machine.cpus, << Request("code", PAGE_SIZE) >>)
        /\ Owed("guest", machine.cpus, Len(<< Request("code", PAGE_SIZE) >>)) = 2
    BY <1>0, PagesAreCounted
  <2>3. Taken("guest", machine.cpus, launches', decodes')
          = Taken(pc, machine.cpus, launches, decodes) + 2
    <3>1. CASE pc = "vmx"  BY <1>0, <1>t, <2>1, <3>1
    <3>2. CASE pc = "guest"  BY <1>0, <1>t, <2>1, <3>2
    <3> QED BY <2>1, <3>1, <3>2
  <2>4. 2 \in Nat  BY <1>0
  <2> QED BY <2>1, <2>2, <2>3, <2>4, CallCounted
<1> QED BY <1>1, <1>2, <1>3, <1>4, <1>5, <1>6, <1>7 DEF Next

LEMMA AlwaysCounted == Spec => [](Inv /\ Early /\ Counted)
<1>1. Init => Inv /\ Early /\ Counted  BY InitInv, InitCounted
<1>2. (Inv /\ Early /\ Counted) /\ [Next]_vars => (Inv /\ Early /\ Counted)'
  <2> SUFFICES ASSUME Inv, Early, Counted, [Next]_vars PROVE Inv' /\ Early' /\ Counted'
    OBVIOUS
  <2>1. CASE UNCHANGED vars
    <3>1. Counted'
      BY <2>1 DEF vars, Counted, Sized, AlignAddressUpper, AlignAddressLower, AddressOffset
    <3> QED BY <3>1, <2>1, StepInv, StepEarly
  <2> QED BY <2>1, StepInv, StepEarly, AllocCounted, CallersCounted
<1> QED BY <1>1, <1>2, PTL DEF Spec

\* The heap is never handed out beyond its end while there is room for what was
\* asked for: neither ACPICA, nor the number of processors, nor failed launches
\* and decoded EPT violations in any order, ever take more than was counted.
THEOREM TheHeapLasts == Spec => []HeapLasts
<1>1. Inv /\ Counted => HeapLasts
  <2> SUFFICES ASSUME Inv, Counted, pc # "acpi",
                      acpiEnd + PAGE_SIZE * PagesTaken(machine.cpus) <= MEMORY_END
               PROVE  nextAvailableVa <= MEMORY_END
    BY DEF HeapLasts
  <2> DEFINE n    == machine.cpus
             next == nextAvailableVa
             o    == Owed(pc, n, Len(todo))
             t    == Taken(pc, n, launches, decodes)
             p    == PagesTaken(n)
  <2>1. /\ n \in 1 .. 8 /\ Len(todo) \in Nat /\ next \in Nat /\ acpiEnd \in Nat
        /\ launches \in Nat /\ decodes \in Nat
    BY CountTypes
  <2>2. next + PAGE_SIZE * o = acpiEnd + PAGE_SIZE * t /\ acpiEnd + PAGE_SIZE * p <= MEMORY_END
    BY DEF Counted
  <2>3. o \in Nat
    <3> HIDE DEF n
    <3> QED BY <2>1, OwedValues
  <2>4. t \in Nat /\ p \in Nat /\ t <= p
    <3> HIDE DEF n
    <3> QED BY <2>1 DEF Taken, PagesTaken
  <2>5. MEMORY_END \in Nat  BY ConstantsAreSane DEF MEMORY_END, HEAP_ADDRESS, MB
  <2> HIDE DEF n, next, o, t, p
  <2>6. next <= MEMORY_END  BY <2>1, <2>2, <2>3, <2>4, <2>5 DEF PAGE_SIZE
  <2> QED BY <2>6 DEF next
<1> QED BY <1>1, AlwaysCounted, PTL
=============================================================================
