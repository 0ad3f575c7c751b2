----------------------------- MODULE HostMemory -----------------------------
(***************************************************************************)
(* The hypervisor's own memory and what is laid out in it, from the first  *)
(* allocation of ACPICA to the copies of guest code that every EPT         *)
(* violation leaves behind (src/minihv/map.c and its callers).             *)
(*                                                                         *)
(* MmuAllocVa hands out addresses of memory that MmuInit has mapped, never *)
(* gets one back and knows no end. Three kinds of memory meet in it: the   *)
(* blocks, the pages taken out of the mapping (the guard page of a stack,  *)
(* the I/O bitmaps) and the page in front of every block, which belongs to *)
(* nobody and is the stack of the VM-exit handler when the block is the    *)
(* one VmxSetVmcsHostRipAndRsp asked for. The EPT tables grow towards the  *)
(* heap from below.                                                        *)
(*                                                                         *)
(* Addresses are physical, in bytes: the virtual address is a constant     *)
(* away.                                                                   *)
(***************************************************************************)
EXTENDS Integers, Sequences

CONSTANTS
    HeapSize,   \* the mapped memory from HEAP_ADDRESS on, 100 MB in the code
    Machines,   \* [cpus: of the MADT, top: the end of the E820 map in 2-MB regions]
    AcpiSizes,  \* the sizes AcpiOsAllocate is asked for
    MaxAcpi,    \* bound: the allocations of ACPICA
    MaxDecodes  \* bound: the EPT violations that are decoded

PAGE_SIZE == 4096
MB        == 1048576

EPT_PML4_PA    == 52 * MB
HEAP_ADDRESS   == 132 * MB
MEMORY_END     == HEAP_ADDRESS + HeapSize
CPU_STACK_SIZE == 4 * PAGE_SIZE

ASSUME ConstantsAreSane ==
    /\ HeapSize \in Nat
    /\ Machines \subseteq [cpus: 1 .. 8, top: Nat \ {0}]
    /\ AcpiSizes \subseteq Nat \ {0}
    /\ MaxAcpi \in Nat /\ MaxDecodes \in Nat

Uses == {"acpi", "gdt", "ist", "apStack", "e820", "vmxon", "vcpu", "vmcs", "msrBitmap",
         "exitStack", "ioBitmap", "code"}

VARIABLES
    machine,
    pc,         \* the function that has run last
    todo,       \* the requests the running function has left, in order
    nextAvailableVa,
    blocks,     \* what has been handed out, in order: [use, base, size]
    holes,      \* what MmuUnmapFromVa has taken away: [from, to)
    hostRsp,    \* HOST_RSP of the current VMCS, 0 before
    eptNext,    \* the last table EptGetNextTableAddress has returned
    acpiEnd,    \* nextAvailableVa when ACPICA was done
    launches,   \* the calls of VmxInit
    decodes     \* the EPT violations decoded

vars == <<machine, pc, todo, nextAvailableVa, blocks, holes, hostRsp, eptNext, acpiEnd,
          launches, decodes>>

Init ==
    /\ machine \in Machines
    /\ pc = "acpi" /\ todo = << >>
    /\ nextAvailableVa = HEAP_ADDRESS /\ blocks = << >> /\ holes = {}
    /\ hostRsp = 0 /\ eptNext = EPT_PML4_PA
    /\ acpiEnd = HEAP_ADDRESS /\ launches = 0 /\ decodes = 0

---------------------------------------------------------------------------
(* The allocator *)

AddressOffset(a)     == a % PAGE_SIZE
AlignAddressLower(a) == a - AddressOffset(a)
AlignAddressUpper(a) == AlignAddressLower(a + PAGE_SIZE - 1)

\* Mutant: an aligned address is not moved.
BlockBaseTight(next) == AlignAddressUpper(next)

\* MmuGetNextAvailableVa, aligned: an address that is aligned is moved a page, too.
BlockBase(next) == next + (PAGE_SIZE - AddressOffset(next))

\* Mutant: the length is not rounded up.
BlockLengthRaw(next, size) == size

\* Mutant: a length of whole pages takes one more.
BlockLengthLong(next, size) == AlignAddressLower(size + AddressOffset(next) + PAGE_SIZE)

BlockLength(next, size) == AlignAddressUpper(size + AddressOffset(next))

\* Mutant: the page behind is taken away, too.
UnmappedWide(va, size) ==
    [from |-> AlignAddressLower(va),
     to   |-> AlignAddressLower(va) + AlignAddressUpper(size + PAGE_SIZE)]

\* MmuUnmapFromVa
Unmapped(va, size) ==
    [from |-> AlignAddressLower(va),
     to   |-> AlignAddressLower(va) + AlignAddressUpper(size + AddressOffset(va))]

\* What the caller does with the new block: an application processor's stack loses its
\* lowest page, the I/O bitmaps are taken away once they are filled.
TakenAway(use, va, size) ==
    CASE use = "apStack"  -> {Unmapped(va, PAGE_SIZE)}
      [] use = "ioBitmap" -> {Unmapped(va, size)}
      [] OTHER            -> {}

\* The next request of the running function.
MmuAllocVa ==
    /\ todo # << >> /\ todo' = Tail(todo)
    /\ LET r  == Head(todo)
           va == BlockBase(nextAvailableVa)
       IN  /\ nextAvailableVa' = va + BlockLength(nextAvailableVa, r.size)
           /\ blocks' = Append(blocks, [use |-> r.use, base |-> va, size |-> r.size])
           /\ holes' = holes \cup TakenAway(r.use, va, r.size)
           /\ hostRsp' = IF r.use = "exitStack" THEN va ELSE hostRsp
    /\ UNCHANGED <<machine, pc, eptNext, acpiEnd, launches, decodes>>

---------------------------------------------------------------------------
(* Its callers, in the order of Init64 *)

Request(use, size) == [use |-> use, size |-> size]
Times(n, r)        == [k \in 1 .. n |-> r]

\* The table of descriptors, then two interrupt stacks for each processor.
GdtRequests(n) ==
    << Request("gdt", 24 + 16 * n) >> \o Times(2 * n, Request("ist", CPU_STACK_SIZE))

\* Every processor but the boot processor.
ApRequests(n) == Times(n - 1, Request("apStack", CPU_STACK_SIZE))

VmxRequests ==
    << Request("vmxon", PAGE_SIZE), Request("vcpu", PAGE_SIZE), Request("vmcs", PAGE_SIZE),
       Request("msrBitmap", 4 * 1024), Request("exitStack", PAGE_SIZE),
       Request("ioBitmap", PAGE_SIZE), Request("ioBitmap", PAGE_SIZE) >>

\* A call is over when its requests are met.
Calls(from, to, requests) ==
    /\ pc \in from /\ todo = << >>
    /\ pc' = to /\ todo' = requests
    /\ UNCHANGED <<machine, nextAvailableVa, blocks, holes, hostRsp>>

\* AcpiOsFree gives nothing back.
AcpiOsAllocate(size) ==
    /\ Len(blocks) < MaxAcpi
    /\ Calls({"acpi"}, "acpi", << Request("acpi", size) >>)
    /\ UNCHANGED <<eptNext, acpiEnd, launches, decodes>>

GdtSetupFinalGdt ==
    /\ Calls({"acpi"}, "gdt", GdtRequests(machine.cpus))
    /\ acpiEnd' = nextAvailableVa
    /\ UNCHANGED <<eptNext, launches, decodes>>

LapicSignalAllAPs ==
    /\ Calls({"gdt"}, "aps", ApRequests(machine.cpus))
    /\ UNCHANGED <<eptNext, acpiEnd, launches, decodes>>

\* Mutant: each table is taken twice.
EptTablesTwice(top) ==
    LET last == 116 + top - 1
    IN  2 * (16 + top + (last \div 512 + 1) + (last \div 262144 + 1))

\* The tables below the PML4 for 32 MB at 0 and for as many bytes as the E820 map's end
\* says, from 232 MB on: page tables, directories, directory-pointer tables.
EptTables(top) ==
    LET last == 116 + top - 1
    IN  16 + top + (last \div 512 + 1) + (last \div 262144 + 1)

MmuMapMemoryEntriesInEpt ==
    /\ Calls({"aps"}, "ept", << >>)
    /\ eptNext' = eptNext + PAGE_SIZE * EptTables(machine.top)
    /\ UNCHANGED <<acpiEnd, launches, decodes>>

MmuCreateModifiedE820MemoryMap ==
    /\ Calls({"ept"}, "e820", << Request("e820", PAGE_SIZE) >>)
    /\ UNCHANGED <<eptNext, acpiEnd, launches, decodes>>

\* Init64 calls it, and InitCurrentProcessorVmx again when the launch has failed.
VmxInit ==
    /\ launches < 2
    /\ Calls({"e820", "vmx"}, "vmx", VmxRequests)
    /\ launches' = launches + 1
    /\ UNCHANGED <<eptNext, acpiEnd, decodes>>

\* An EPT violation that is decoded copies the guest's instruction.
HandleEptViolation ==
    /\ decodes < MaxDecodes
    /\ Calls({"vmx", "guest"}, "guest", << Request("code", PAGE_SIZE) >>)
    /\ decodes' = decodes + 1
    /\ UNCHANGED <<eptNext, acpiEnd, launches>>

Next ==
    \/ MmuAllocVa
    \/ \E size \in AcpiSizes : AcpiOsAllocate(size)
    \/ GdtSetupFinalGdt \/ LapicSignalAllAPs
    \/ MmuMapMemoryEntriesInEpt \/ MmuCreateModifiedE820MemoryMap
    \/ VmxInit \/ HandleEptViolation

Spec == Init /\ [][Next]_vars

---------------------------------------------------------------------------
(* Properties *)

Block == [use: Uses, base: Nat, size: Nat]
Hole  == [from: Nat, to: Nat]

TypeOK ==
    /\ machine \in Machines
    /\ pc \in {"acpi", "gdt", "aps", "ept", "e820", "vmx", "guest"}
    /\ todo \in Seq([use: Uses, size: Nat])
    /\ nextAvailableVa \in Nat /\ blocks \in Seq(Block) /\ holes \subseteq Hole
    /\ hostRsp \in Nat /\ eptNext \in Nat /\ acpiEnd \in Nat
    /\ launches \in 0 .. 2 /\ decodes \in 0 .. MaxDecodes

End(b) == b.base + AlignAddressUpper(b.size)

\* Blocks are page-aligned, none runs into another, and a page that is nobody's lies
\* in front of each: a stack that grows out of its block meets no other block first.
BlocksAreApart ==
    /\ \A i \in 1 .. Len(blocks) : AddressOffset(blocks[i].base) = 0
    /\ \A i, j \in 1 .. Len(blocks) :
          i < j => End(blocks[i]) + PAGE_SIZE <= blocks[j].base

Meets(from, to, h) == from < h.to /\ h.from < to

\* What the hypervisor itself reads and writes stays mapped: only the lowest page of an
\* application processor's stack and the I/O bitmaps are ever taken away.
UsedMemoryStaysMapped ==
    \A i \in 1 .. Len(blocks), h \in holes :
        LET b    == blocks[i]
            from == IF b.use = "apStack" THEN b.base + PAGE_SIZE ELSE b.base
        IN  b.use # "ioBitmap" => ~ Meets(from, End(b), h)

\* HOST_RSP is the lowest address of its block, so the exit handler's stack is what lies
\* below: one mapped page of the heap that no block claims, and no more than that (the
\* MSR bitmaps end where it ends).
ExitStackHasAPage ==
    hostRsp # 0 =>
        /\ hostRsp - PAGE_SIZE >= HEAP_ADDRESS
        /\ \A i \in 1 .. Len(blocks) :
              End(blocks[i]) <= hostRsp - PAGE_SIZE \/ blocks[i].base >= hostRsp
        /\ \A h \in holes : ~ Meets(hostRsp - PAGE_SIZE, hostRsp, h)

\* The E820 map may end at most here: just below 40 GB, with 4-KB pages throughout.
MaxTop == 20421

\* The EPT tables end below every block.
EptTablesStayBelowHeap ==
    machine.top <= MaxTop =>
        /\ eptNext + PAGE_SIZE <= HEAP_ADDRESS
        /\ \A i \in 1 .. Len(blocks) : eptNext + PAGE_SIZE <= blocks[i].base

\* The pages taken for n processors since ACPICA was done: each block's and the one in
\* front of it; five for a stack, two for the rest.
PagesTaken(n) == 2 + 5 * (2 * n) + 5 * (n - 1) + 2 + 14 * launches + 2 * decodes

\* Nothing is handed out beyond the mapped memory while there is room for what is
\* needed: in 100 MB some 12700 EPT violations can be decoded (vmx.c:1241).
HeapLasts ==
    (pc # "acpi" /\ acpiEnd + PAGE_SIZE * PagesTaken(machine.cpus) <= MEMORY_END) =>
        nextAvailableVa <= MEMORY_END
=============================================================================
