-------------------------------- MODULE Mmu --------------------------------
(***************************************************************************)
(* The hypervisor's own four-level page tables (src/minihv/map.c): the     *)
(* bump allocator of tables, the loops of MmuMapToVaInternal and           *)
(* MmuUnmapFromVaInternal (one iteration per step), and the calls that     *)
(* the boot code and the exit handlers make on them.                       *)
(*                                                                         *)
(* A table is its number: table n is at PML4_ADDRESS + n * TABLE_SIZE, and *)
(* table 0 is the PML4. An address is a byte number, a page number is an   *)
(* address divided by PageSize. Memory the hypervisor never cleared holds  *)
(* the arbitrary entry Junk.                                               *)
(***************************************************************************)
EXTENDS Integers

CONSTANTS
    Fan,            \* TABLE_NO_OF_ENTRIES
    PageSize,       \* PAGE_SIZE
    MaxTable,       \* bound: the last table number a run may allocate
    Junk,           \* the entry found in RAM that was never cleared
    KernelPa,       \* KERNEL_ADDRESS
    KernelBytes,    \* KERNEL_RESERVED_MEMORY
    ChunkExists,    \* what MmuCheckIfChunkExists may answer for the kernel chunk
    VideoPa,        \* VIDEO_MEMORY_ADDRESS
    Offset,         \* VIRTUAL_TO_PHYSICAL_OFFSET, a multiple of PageSize
    MapCalls,       \* the (pa, size, uc) MmuMapToVa is called with
    IdentityCalls,  \* the (pa, size, uc) MmuMapToVaInternal maps at va = pa
    UnmapCalls      \* the (va, size) MmuUnmapFromVa is called with

Index  == 0 .. Fan - 1
Table  == 0 .. MaxTable
VPages == 0 .. Fan * Fan * Fan * Fan - 1

Entry  == [present: BOOLEAN, to: Nat, uc: BOOLEAN]
Zero   == [present |-> FALSE, to |-> 0, uc |-> FALSE]

ASSUME ConstantsAreSane ==
    /\ Fan \in Nat \ {0} /\ PageSize \in Nat \ {0} /\ MaxTable \in Nat
    /\ Junk \in Entry
    /\ KernelPa \in Nat /\ KernelBytes \in Nat /\ VideoPa \in Nat /\ Offset \in Nat
    /\ ChunkExists \subseteq BOOLEAN
    /\ MapCalls      \subseteq [pa: Nat, size: Nat, uc: BOOLEAN]
    /\ IdentityCalls \subseteq [pa: Nat, size: Nat, uc: BOOLEAN]
    /\ UnmapCalls    \subseteq [va: Nat, size: Nat]
    \* What is mapped one-to-one is below 1 MB, PA2VA starts near 1 TB.
    /\ VideoPa + 2 * PageSize <= Offset
    /\ \A c \in IdentityCalls : c.pa + c.size <= Offset

VARIABLES
    tables,     \* the contents of the table pages, cleared or not
    last,       \* currentPdptTablePa: the last table handed out
    depth,      \* history: the depth (0 PML4 .. 3 PT) a table was linked at
    job,        \* the loop in progress: kind, next page, pages left
    phase       \* "off", "kernel", "video" (MmuInit), "on" (CR3 written), "halted"

vars == <<tables, last, depth, job, phase>>

Idle == [kind |-> "idle", va |-> 0, pa |-> 0, left |-> 0, uc |-> FALSE]

---------------------------------------------------------------------------
(* Addresses *)

Pml4Index(v) == (v \div (Fan * Fan * Fan)) % Fan
PdptIndex(v) == (v \div (Fan * Fan)) % Fan
PdIndex(v)   == (v \div Fan) % Fan
PtIndex(v)   == v % Fan

PageOf(addr) == addr \div PageSize

\* AlignAddressUpper(size + offset in the page) in pages.
PagesSpanned(addr, size) == ((addr % PageSize) + size + PageSize - 1) \div PageSize

PA2VA(addr) == addr + Offset

\* Offset is 1 TB less KERNEL_ADDRESS, a multiple of the page size, and every
\* range a call is made on is inside the address space four levels span.
ASSUME CallsFit ==
    LET Fit(va, pages) == PageOf(va) \in VPages /\ PageOf(va) + pages <= Fan * Fan * Fan * Fan
    IN  /\ Offset % PageSize = 0
        /\ Fit(PA2VA(KernelPa), PagesSpanned(KernelPa, KernelBytes))
        /\ \A c \in MapCalls : Fit(PA2VA(c.pa), PagesSpanned(c.pa, c.size))
        /\ \A c \in UnmapCalls : Fit(c.va, PagesSpanned(c.va, c.size))

---------------------------------------------------------------------------
(* The tables. A memory is the triple the map loop updates. *)

Memory == [tab |-> tables, last |-> last, depth |-> depth]

Link(n)        == [present |-> TRUE, to |-> n, uc |-> FALSE]
Leaf(frame, u) == [present |-> TRUE, to |-> frame, uc |-> u]
Cleared        == [i \in Index |-> Zero]

\* Mutant: the new table is not cleared.
DescendUncleared(m, t, i) ==
    IF m.tab[t][i].present THEN m
    ELSE [tab   |-> [m.tab EXCEPT ![t][i] = Link(m.last + 1)],
          last  |-> m.last + 1,
          depth |-> [m.depth EXCEPT ![m.last + 1] = m.depth[t] + 1]]

\* A missing upper-level entry gets the next table, cleared, at the next depth.
Descend(m, t, i) ==
    IF m.tab[t][i].present THEN m
    ELSE LET n == m.last + 1
         IN  [tab   |-> [m.tab EXCEPT ![t][i] = Link(n), ![n] = Cleared],
              last  |-> n,
              depth |-> [m.depth EXCEPT ![n] = m.depth[t] + 1]]

\* Mutant: the leaf is written whether it is present or not.
FillLeafAlways(m, t, i, leaf) == [m EXCEPT !.tab[t][i] = leaf]

\* A missing leaf is filled, a present one is left as it is.
FillLeaf(m, t, i, leaf) ==
    IF m.tab[t][i].present THEN m ELSE [m EXCEPT !.tab[t][i] = leaf]

\* One iteration of the map loop.
MapOne(m0, v, leaf) ==
    LET m1 == Descend(m0, 0, Pml4Index(v))
        t1 == m1.tab[0][Pml4Index(v)].to
        m2 == Descend(m1, t1, PdptIndex(v))
        t2 == m2.tab[t1][PdptIndex(v)].to
        m3 == Descend(m2, t2, PdIndex(v))
        t3 == m3.tab[t2][PdIndex(v)].to
    IN  FillLeaf(m3, t3, PtIndex(v), leaf)

\* The entry reached for page v, or Zero when a level is missing.
Walk(v) ==
    LET e0 == tables[0][Pml4Index(v)]
        e1 == tables[e0.to][PdptIndex(v)]
        e2 == tables[e1.to][PdIndex(v)]
        e3 == tables[e2.to][PtIndex(v)]
    IN  IF e0.present /\ e1.present /\ e2.present /\ e3.present THEN e3 ELSE Zero

\* The table whose leaf a present walk reaches.
LeafTable(v) == tables[tables[tables[0][Pml4Index(v)].to][PdptIndex(v)].to][PdIndex(v)].to

---------------------------------------------------------------------------
(* Init and the calls *)

Init ==
    /\ tables = [t \in Table |-> [i \in Index |-> Junk]]
    /\ last = 0
    /\ depth = [t \in Table |-> 0]
    /\ job = Idle
    /\ phase = "off"

MapJob(pa, size, va, uc) ==
    [kind |-> "map", va |-> PageOf(va), pa |-> PageOf(pa),
     left |-> PagesSpanned(pa, size), uc |-> uc]

\* Bound: room for the tables the whole call may need.
Room(n) == last + 3 * n <= MaxTable

MmuInit ==
    /\ phase = "off"
    /\ \/ /\ TRUE \in ChunkExists
          /\ tables' = [tables EXCEPT ![0] = Cleared]
          /\ job' = MapJob(KernelPa, KernelBytes, PA2VA(KernelPa), FALSE)
          /\ phase' = "kernel"
       \/ /\ FALSE \in ChunkExists
          /\ phase' = "halted"
          /\ UNCHANGED <<tables, job>>
    /\ UNCHANGED <<last, depth>>

MmuInitMapVideo ==
    /\ phase = "kernel" /\ job = Idle
    /\ job' = MapJob(VideoPa, 2 * PageSize, VideoPa, FALSE)
    /\ phase' = "video"
    /\ UNCHANGED <<tables, last, depth>>

MmuInitWriteCr3 ==
    /\ phase = "video" /\ job = Idle
    /\ phase' = "on"
    /\ UNCHANGED <<tables, last, depth, job>>

MmuMapToVa(c) ==
    /\ phase = "on" /\ job = Idle
    /\ Room(PagesSpanned(c.pa, c.size))
    /\ job' = MapJob(c.pa, c.size, PA2VA(c.pa), c.uc)
    /\ UNCHANGED <<tables, last, depth, phase>>

MapIdentity(c) ==
    /\ phase = "on" /\ job = Idle
    /\ Room(PagesSpanned(c.pa, c.size))
    /\ job' = MapJob(c.pa, c.size, c.pa, c.uc)
    /\ UNCHANGED <<tables, last, depth, phase>>

MmuUnmapFromVa(c) ==
    /\ phase = "on" /\ job = Idle
    /\ job' = [kind |-> "unmap", va |-> PageOf(c.va), pa |-> 0,
               left |-> PagesSpanned(c.va, c.size), uc |-> FALSE]
    /\ UNCHANGED <<tables, last, depth, phase>>

\* Mutant: PhysicalAddress is not advanced.
MapPageSameFrame ==
    /\ job.kind = "map" /\ job.left > 0
    /\ last + 3 <= MaxTable
    /\ LET m == MapOne(Memory, job.va, Leaf(job.pa, job.uc))
       IN  tables' = m.tab /\ last' = m.last /\ depth' = m.depth
    /\ job' = [job EXCEPT !.va = @ + 1, !.left = @ - 1]
    /\ UNCHANGED phase

\* One iteration of MmuMapToVaInternal.
MapPage ==
    /\ job.kind = "map" /\ job.left > 0
    /\ last + 3 <= MaxTable    \* bound
    /\ LET m == MapOne(Memory, job.va, Leaf(job.pa, job.uc))
       IN  tables' = m.tab /\ last' = m.last /\ depth' = m.depth
    /\ job' = [job EXCEPT !.va = @ + 1, !.pa = @ + 1, !.left = @ - 1]
    /\ UNCHANGED phase

\* Mutant: VirtualAddress is not advanced after a page was removed.
UnmapPageSameVa ==
    /\ job.kind = "unmap" /\ job.left > 0
    /\ tables' = IF Walk(job.va).present
                 THEN [tables EXCEPT ![LeafTable(job.va)][PtIndex(job.va)] = Zero]
                 ELSE tables
    /\ job' = [job EXCEPT !.left = @ - 1]
    /\ UNCHANGED <<last, depth, phase>>

\* One iteration of MmuUnmapFromVaInternal. A missing entry at any level is a
\* "continue" that leaves VirtualAddress where it is.
UnmapPage ==
    /\ job.kind = "unmap" /\ job.left > 0
    /\ IF Walk(job.va).present
       THEN /\ tables' = [tables EXCEPT ![LeafTable(job.va)][PtIndex(job.va)] = Zero]
            /\ job' = [job EXCEPT !.va = @ + 1, !.left = @ - 1]
       ELSE /\ job' = [job EXCEPT !.left = @ - 1]
            /\ UNCHANGED tables
    /\ UNCHANGED <<last, depth, phase>>

Return ==
    /\ job.kind \in {"map", "unmap"} /\ job.left = 0
    /\ job' = Idle
    /\ UNCHANGED <<tables, last, depth, phase>>

Next ==
    \/ MmuInit \/ MmuInitMapVideo \/ MmuInitWriteCr3
    \/ \E c \in MapCalls : MmuMapToVa(c)
    \/ \E c \in IdentityCalls : MapIdentity(c)
    \/ \E c \in UnmapCalls : MmuUnmapFromVa(c)
    \/ MapPage \/ UnmapPage \/ Return

Spec == Init /\ [][Next]_vars

---------------------------------------------------------------------------
(* Properties *)

TypeOK ==
    /\ tables \in [Table -> [Index -> Entry]]
    /\ last \in Table
    /\ depth \in [Table -> 0 .. 3]
    /\ job \in [kind: {"idle", "map", "unmap"}, va: Nat, pa: Nat, left: Nat, uc: BOOLEAN]
    /\ phase \in {"off", "kernel", "video", "on", "halted"}

Live == phase \notin {"off", "halted"}    \* MmuInit has cleared the PML4

\* Every entry of an upper-level table in use that is present leads to a table
\* the allocator handed out, one level further down. (A table that was linked
\* but not cleared would violate it: Junk would be followed.)
LinksGoDown ==
    Live => \A t \in 0 .. last : depth[t] < 3 =>
        \A i \in Index : tables[t][i].present =>
            /\ tables[t][i].to \in 1 .. last
            /\ depth[tables[t][i].to] = depth[t] + 1

\* No two entries share a table: the tables form a tree. Otherwise a mapping
\* made through one address would appear at another.
NoSharedTable ==
    Live => \A t, u \in 0 .. last : (depth[t] < 3 /\ depth[u] < 3) =>
        \A i, j \in Index :
            (/\ tables[t][i].present /\ tables[u][j].present
             /\ tables[t][i].to = tables[u][j].to) => (t = u /\ i = j)

\* No table is lost: every one the allocator has handed out is linked, so with
\* NoSharedTable there is one per part of the address space that has ever been
\* mapped, however often it is mapped and unmapped. (Tables are never freed and
\* the allocator knows no limit.)
EveryTableIsLinked ==
    Live => \A n \in 1 .. last : \E t \in 0 .. last : \E i \in Index :
        depth[t] < 3 /\ tables[t][i].present /\ tables[t][i].to = n

\* Reading junk left in RAM, two links to a table and a table that leads nowhere
\* are what could go wrong in the three branches that take a table.
TablesAreATree == LinksGoDown /\ NoSharedTable /\ EveryTableIsLinked

\* A page has one frame for ever: below Offset its own number (video memory, the
\* trampoline), above it the one VA2PA gives. A translation the processor still
\* caches after an unmap (no INVLPG follows) is right when the page comes back.
MappedAtItsAddress ==
    Live => \A v \in VPages : Walk(v).present =>
        Walk(v).to = IF v < PageOf(Offset) THEN v ELSE v - PageOf(Offset)

\* Mapping never changes a translation that is already there, whatever frame or
\* caching attribute the new call asks for (the "Present == 0" test of the leaf).
MapNeverRemaps ==
    [][\A v \in VPages : (Live /\ job.kind = "map" /\ Walk(v).present) => Walk(v)' = Walk(v)]_vars

\* The page tables implement an address space that fills holes and removes
\* longest mapped prefixes, one call at a time.
NoFrame == [frame |-> -1, uc |-> FALSE]
SpaceOf == [v \in VPages |->
              IF Live /\ Walk(v).present THEN [frame |-> Walk(v).to, uc |-> Walk(v).uc]
              ELSE NoFrame]
Abstract == INSTANCE AddressSpace WITH space <- SpaceOf
ImplementsAddressSpace == Abstract!Spec
===========================================================================
