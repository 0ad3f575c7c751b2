-------------------------------- MODULE Ept --------------------------------
(***************************************************************************)
(* The extended page tables that translate guest-physical addresses        *)
(* (src/minihv/ept.c): EptInitialization, the loop of EptMapGuestPaToPa     *)
(* with the entry pointers it keeps from one page to the next, the two     *)
(* calls MmuMapMemoryEntriesInEpt makes around the hypervisor's memory,    *)
(* and PciEcamRestrictAccessOnReservedSerialPort (src/minihv/pcci.c).      *)
(*                                                                         *)
(* A table is its number: table n is at EPT_PML4_PA + n * EPT_TABLE_SIZE.  *)
(* An entry pointer is the pair <<table, index>>. Page numbers stand for   *)
(* page-aligned addresses. The read, write and execute bits of an entry    *)
(* always change together: acc.                                            *)
(***************************************************************************)
EXTENDS Integers

CONSTANTS
    Fan,            \* EPT_TABLE_NUMBER_OF_ENTRIES
    PageSize,       \* EPT_PAGE_SIZE
    MaxTable,       \* bound: the last EPT table number a run may allocate
    Junk,           \* the entry found in RAM that was never cleared
    KernelPage,     \* KERNEL_ADDRESS as a page number
    KernelPages,    \* KERNEL_RESERVED_MEMORY in pages
    MaxAddresses,   \* what MmuGetMaxE820Entry may return, in bytes
    EcamPages,      \* the pages the reserved port's ECAM registers may lie in
    MemoryType      \* MtrrGetPageMemoryType, as a function of the page

Index == 0 .. Fan - 1
Table == 0 .. MaxTable
Page  == 0 .. Fan * Fan * Fan * Fan - 1
Types == {"UC", "WC", "WT", "WP", "WB", "none"}

Entry == [acc: BOOLEAN, to: Nat, type: Types]

PagesIn(bytes) == (bytes + PageSize - 1) \div PageSize

KernelEnd == KernelPage + KernelPages

\* MmuInit halts unless the hypervisor's memory is inside the E820 map, so the
\* map ends above it; the guest-physical space is 48 bits wide.
ASSUME ConstantsAreSane ==
    /\ Fan \in Nat /\ Fan >= 2 /\ PageSize \in Nat \ {0} /\ MaxTable \in Nat
    /\ Junk \in Entry
    /\ KernelPage \in Nat /\ KernelPages \in Nat
    /\ MaxAddresses \subseteq Nat
    /\ \A max \in MaxAddresses : KernelEnd + PagesIn(max) - 1 \in Page
    /\ EcamPages \subseteq Page
    /\ MemoryType \in [Page -> Types]

VARIABLES
    tables,     \* the contents of the EPT table pages, cleared or not
    last,       \* currentTableAddress: the last table handed out
    depth,      \* history: the depth (0 PML4 .. 3 PT) a table was linked at
    loop,       \* EptMapGuestPaToPa: page, left and what it keeps of the last page
    max,        \* the highest E820 address
    ecam,       \* m_reservedSerialPortEcamPa
    stage       \* "off", "low", "high" (the two calls), "mapped", then
                \* "restricted", or "open" when there is no MCFG table

vars == <<tables, last, depth, loop, max, ecam, stage>>

---------------------------------------------------------------------------
(* Addresses and entries *)

Pml4Index(p) == (p \div (Fan * Fan * Fan)) % Fan
PdptIndex(p) == (p \div (Fan * Fan)) % Fan
PdIndex(p)   == (p \div Fan) % Fan
PtIndex(p)   == p % Fan

Zero    == [acc |-> FALSE, to |-> 0, type |-> "none"]
Link(n) == [acc |-> TRUE, to |-> n, type |-> "none"]
Leaf(p) == [acc |-> TRUE, to |-> p, type |-> MemoryType[p]]
Cleared == [i \in Index |-> Zero]

Memory == [tab |-> tables, last |-> last, depth |-> depth]
At(m, ptr) == m.tab[ptr[1]][ptr[2]]

\* Mutant: the new table is not cleared.
EnsureUncleared(m, ptr) ==
    IF At(m, ptr).acc THEN m
    ELSE [tab   |-> [m.tab EXCEPT ![ptr[1]][ptr[2]] = Link(m.last + 1)],
          last  |-> m.last + 1,
          depth |-> [m.depth EXCEPT ![m.last + 1] = m.depth[ptr[1]] + 1]]

\* An entry that gives no access gets the next table, cleared.
Ensure(m, ptr) ==
    IF At(m, ptr).acc THEN m
    ELSE LET n == m.last + 1
         IN  [tab   |-> [m.tab EXCEPT ![ptr[1]][ptr[2]] = Link(n), ![n] = Cleared],
              last  |-> n,
              depth |-> [m.depth EXCEPT ![n] = m.depth[ptr[1]] + 1]]

\* The entry a page's walk ends in, or NoPtr when a level gives no access.
NoPtr == <<-1, -1>>
LeafPtr(p) ==
    LET m  == Memory
        p4 == <<0, Pml4Index(p)>>
        p3 == <<At(m, p4).to, PdptIndex(p)>>
        p2 == <<At(m, p3).to, PdIndex(p)>>
        p1 == <<At(m, p2).to, PtIndex(p)>>
    IN  IF At(m, p4).acc /\ At(m, p3).acc /\ At(m, p2).acc /\ At(m, p1).acc
        THEN p1 ELSE NoPtr

Accessible(p)  == LeafPtr(p) # NoPtr
Translation(p) == At(Memory, LeafPtr(p))

---------------------------------------------------------------------------
(* The loop and its callers *)

\* The indices of the page before: none yet (MAX_WORD) when a call starts.
NoIndices == <<-1, -1, -1>>

Start(page, pages) ==
    [page |-> page, left |-> pages, old |-> NoIndices,
     pml4 |-> NoPtr, pdpt |-> NoPtr, pd |-> NoPtr]

\* Mutant: an equal PDPT index jumps to map_pt.
LevelsKeptWrongLabel ==
    LET p == loop.page
    IN  IF PdIndex(p) = loop.old[3] \/ PdptIndex(p) = loop.old[2] THEN 3
        ELSE IF Pml4Index(p) = loop.old[1] THEN 1
        ELSE 0

\* How many of the entry pointers the gotos keep: 3 map_pt, 2 map_pd, 1 map_pdpt.
LevelsKept ==
    LET p == loop.page
    IN  IF PdIndex(p) = loop.old[3] THEN 3
        ELSE IF PdptIndex(p) = loop.old[2] THEN 2
        ELSE IF Pml4Index(p) = loop.old[1] THEN 1
        ELSE 0

Init ==
    /\ tables = [t \in Table |-> [i \in Index |-> Junk]]
    /\ last = 0
    /\ depth = [t \in Table |-> 0]
    /\ loop = Start(0, 0)
    /\ max \in MaxAddresses
    /\ ecam = 0
    /\ stage = "off"

\* EptInitialization, and the first call of MmuMapMemoryEntriesInEpt.
EptInitialization ==
    /\ stage = "off"
    /\ tables' = [tables EXCEPT ![0] = Cleared]
    /\ loop' = Start(0, KernelPage)
    /\ stage' = "low"
    /\ UNCHANGED <<last, depth, max, ecam>>

\* Mutant: the second call starts at KERNEL_ADDRESS.
MapAboveKernelFromKernel ==
    /\ stage = "low" /\ loop.left = 0
    /\ loop' = Start(KernelPage, PagesIn(max))
    /\ stage' = "high"
    /\ UNCHANGED <<tables, last, depth, max, ecam>>

MapAboveKernel ==
    /\ stage = "low" /\ loop.left = 0
    /\ loop' = Start(KernelEnd, PagesIn(max))
    /\ stage' = "high"
    /\ UNCHANGED <<tables, last, depth, max, ecam>>

MapReturn ==
    /\ stage = "high" /\ loop.left = 0
    /\ stage' = "mapped"
    /\ UNCHANGED <<tables, last, depth, loop, max, ecam>>

\* One iteration of EptMapGuestPaToPa. A leaf that gives access is left as it is.
MapPage ==
    /\ stage \in {"low", "high"} /\ loop.left > 0
    /\ last + 3 <= MaxTable     \* bound
    /\ LET p    == loop.page
           kept == LevelsKept
           pml4 == IF kept < 1 THEN <<0, Pml4Index(p)>> ELSE loop.pml4
           m1   == IF kept < 1 THEN Ensure(Memory, pml4) ELSE Memory
           pdpt == IF kept < 2 THEN <<At(m1, pml4).to, PdptIndex(p)>> ELSE loop.pdpt
           m2   == IF kept < 2 THEN Ensure(m1, pdpt) ELSE m1
           pd   == IF kept < 3 THEN <<At(m2, pdpt).to, PdIndex(p)>> ELSE loop.pd
           m3   == IF kept < 3 THEN Ensure(m2, pd) ELSE m2
           pt   == <<At(m3, pd).to, PtIndex(p)>>
       IN  /\ tables' = IF At(m3, pt).acc THEN m3.tab
                        ELSE [m3.tab EXCEPT ![pt[1]][pt[2]] = Leaf(p)]
           /\ last' = m3.last /\ depth' = m3.depth
           /\ loop' = [page |-> p + 1, left |-> loop.left - 1,
                       old |-> <<Pml4Index(p), PdptIndex(p), PdIndex(p)>>,
                       pml4 |-> pml4, pdpt |-> pdpt, pd |-> pd]
    /\ UNCHANGED <<max, ecam, stage>>

\* Mutant: access is taken away one level too high.
RestrictPd(p) ==
    /\ stage = "mapped"
    /\ tables' = IF Accessible(p)
                 THEN LET d == <<At(Memory, <<At(Memory, <<0, Pml4Index(p)>>).to,
                                              PdptIndex(p)>>).to, PdIndex(p)>>
                      IN  [tables EXCEPT ![d[1]][d[2]].acc = FALSE]
                 ELSE tables
    /\ ecam' = p
    /\ stage' = "restricted"
    /\ UNCHANGED <<last, depth, loop, max>>

\* PciEcamRestrictAccessOnReservedSerialPort: both EptGetEntryValue and
\* EptSetEntryValue give up when a level of the walk gives no access.
Restrict(p) ==
    /\ stage = "mapped"
    /\ tables' = IF Accessible(p)
                 THEN [tables EXCEPT ![LeafPtr(p)[1]][LeafPtr(p)[2]].acc = FALSE]
                 ELSE tables
    /\ ecam' = p
    /\ stage' = "restricted"
    /\ UNCHANGED <<last, depth, loop, max>>

\* AcpiGetPciEcam finds no MCFG table; Init64 ignores the status.
RestrictFails ==
    /\ stage = "mapped"
    /\ stage' = "open"
    /\ UNCHANGED <<tables, last, depth, loop, max, ecam>>

Next ==
    \/ EptInitialization \/ MapPage \/ MapAboveKernel \/ MapReturn
    \/ \E p \in EcamPages : Restrict(p)
    \/ RestrictFails

Spec == Init /\ [][Next]_vars

---------------------------------------------------------------------------
(* Properties *)

TypeOK ==
    /\ tables \in [Table -> [Index -> Entry]]
    /\ last \in Table
    /\ depth \in [Table -> 0 .. 3]
    /\ loop.page \in Nat /\ loop.left \in Nat
    /\ max \in MaxAddresses
    /\ ecam \in Page
    /\ stage \in {"off", "low", "high", "mapped", "restricted", "open"}

Live == stage # "off"

\* The tables in use form a tree over cleared tables: an entry that gives access
\* leads one level down, to a table no other entry leads to. The entry pointers
\* kept across iterations must never link a table twice or skip a level.
TablesAreATree ==
    Live => \A t \in 0 .. last : depth[t] < 3 =>
        \A i \in Index : tables[t][i].acc =>
            /\ tables[t][i].to \in 1 .. last
            /\ depth[tables[t][i].to] = depth[t] + 1
            /\ \A u \in 0 .. last : depth[u] < 3 =>
                  \A j \in Index : (tables[u][j].acc /\ tables[u][j].to = tables[t][i].to)
                                   => (u = t /\ j = i)

\* At no point of the boot can the guest reach a page of the hypervisor's memory
\* (its image, its page tables, the EPT itself and the heap).
HypervisorIsHidden ==
    Live => \A p \in Page : Accessible(p) =>
        Translation(p).to \notin KernelPage .. KernelEnd - 1

\* When the mapping is done the guest has exactly the pages below the hypervisor
\* and as many pages above it as the E820 map has in all, each at its own address
\* with the type the MTRRs give it. Once access to the reserved serial port is
\* restricted, exactly the page of its registers is missing.
Promised == (0 .. KernelPage - 1) \cup (KernelEnd .. KernelEnd + PagesIn(max) - 1)
GuestHasItsMemory ==
    stage \in {"mapped", "restricted", "open"} =>
        \A p \in Page :
            /\ Accessible(p) <=> p \in Promised /\ ~ (stage = "restricted" /\ p = ecam)
            /\ Accessible(p) => Translation(p) = Leaf(p)

\* Every step gives one promised page, takes one page away, or changes nothing
\* the guest can see: the gotos of the loop never lose or misplace a page.
View == [p \in Page |->
           IF Live /\ Accessible(p)
           THEN [frame |-> Translation(p).to, type |-> Translation(p).type]
           ELSE [frame |-> -1, type |-> "none"]]
Guest == INSTANCE GuestMemory
            WITH view <- View, Reserved <- KernelPage .. KernelEnd - 1
ImplementsGuestMemory == Guest!Spec
=============================================================================
