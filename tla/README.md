# A TLA+ verification of the minihv bare-metal hypervisor

`src/minihv` is a small 64-bit hypervisor. It is loaded at a fixed physical
address, builds its own page tables, finds the machine's processors and devices,
hides its own memory and one serial port, puts the boot processor into VMX
operation and starts the machine's original boot loader as a real-mode guest.
From then on it runs only when the guest exits. This directory holds TLA+ models
of its core, TLC configurations that check them on small machines, and proofs
that TLAPS checks for every value of the constants.

All modules are in plain TLA+. `tlc -config X.cfg M` repeats a run, `tlapm M.tla`
a proof. `PROJECT.json` maps every definition to the source lines it translates.

## 1. The system

### How it runs

One processor does all the work, in the order of `Init64` (`init64.c`):

    InitSerOrVid -> MmuInit -> AcpiInit, AcpiGetProcessors -> IdtInit -> LapicInit
      -> trampoline, LapicSignalAllAPs -> MtrrInit -> EptInitialization
      -> MmuMapMemoryEntriesInEpt -> PciEcamRestrictAccessOnReservedSerialPort
      -> VmxConfigureGuestCode -> VmxPatchRealModeInt15hE820 -> VmxInit
      -> (the guest runs; the host continues only in VmxVmExitHandler)

If `VMLAUNCH` fails, `VmxInit` returns, `Init64` waits for the other processors and
calls `VmxInit` once more. `LapicSendIpi` writes nothing to the APIC
(`local_apic.c:202`), and `ApInit64` returns at once, so there is exactly one
thread of hypervisor code. Its partners are the guest, which chooses every
access, call and register, the firmware, which leaves its MSRs, tables and memory
map, and the VMX instructions, which may fail. That is where the
nondeterminism of the models comes from.

### Components

| Component | State | Operations | What makes it correct |
|---|---|---|---|
| Host page tables (`map.c`, `map.h`) | table pages from `PML4_ADDRESS` up, `currentPdptTablePa` | `MmuInit`, `MmuMapToVa`, `MmuMapToVaInternal`, `MmuUnmapFromVa` | the tables stay a tree over cleared pages; a translation is never replaced by a map; a page is where `PA2VA` says; an unmap takes what it was asked, up to the first hole |
| Allocators and heap (`map.c`, `ept.c`) | `nextAvailableVa`, the last EPT table | `MmuGetNextAvailableVa`, `MmuAllocVa`, `EptGetNextTableAddress` and their callers | blocks are apart, what is used stays mapped, the EPT tables end below the heap, the exit handler has a stack |
| Guest page walk (`map.c`) | none (reads guest memory) | `MmuGetEntryPhysicalAddressFromPageTable` | finds the page the processor would fetch from |
| Extended page tables (`ept.c`, `map.c`, `pcci.c`) | EPT tables, `currentTableAddress`, `m_reservedSerialPortEcamPa` | `EptInitialization`, `EptMapGuestPaToPa`, `EptSetEntryValue`, the two mapping calls, the restriction | the guest has all its memory one-to-one with its memory type, never a page of the hypervisor, and not the port's page |
| Memory types (`mtrr.c`) | copies of the MTRRs | `MtrrInit`, `MtrrGetPageMemoryType` | the type is the one the processor would use |
| E820 and INT 15h (`map.c`, `vmx.c`, `_guest.asm`) | the firmware's map, the modified map, the real-mode vector | `MmuCreateModifiedE820MemoryMap`, `MmuGetModifiedE820MemoryEntry`, `VmxPatchRealModeInt15hE820`, `VmxBasicExitReasonVmcall` | only reserved ranges change type; an enumeration is exact; a caller can tell whether it was served |
| VMX start (`init64.c`, `vmx.c`) | CR4, `IA32_FEATURE_CONTROL`, the current VMCS, `m_numberOfCpusInVmxMode` | `VmxInit` and its steps, the wait, `InitCurrentProcessorVmx` | `VMLAUNCH` only on a prepared VMCS; the count is exact; the guest starts |
| VMCS contents (`vmx.c`) | control, host and guest fields | `VmxSetVmcsVmxControls`, `VmxSetVmcsHostArea`, `VmxSetVmcsGuestStateArea` | controls obey the capability MSRs; the host state is that of the host |
| VM-exit dispatch (`vmx.c`, `_guest_host_switch.asm`) | the guest's registers, RIP, CR4, XCR0, the VM-execution controls | `VmxVmExitHandler` with CPUID, XSETBV, VMCALL and its default; the set-up of controls, masks and bitmaps | exits, handlers and VMRESUME look to the guest like a processor; no ordinary instruction stops the machine |
| EPT violations (`vmx.c`, `map.c`) | three static variables of the last decoded access | `VmxBasicExitReasonEptViolation`, `MmuGetEntryPhysicalAddressFromPageTable` | a read of the port's vendor register says "no device"; nothing else changes |
| PCI and serial port (`pci.c`, `pcci.c`, `init64.c`) | `gPort`, the reserved port and its bus address | `PciInit`'s scan, `PciSearchDevice`, `InitSerOrVid`, the page in configuration space | the reserved function is the first serial port, the log uses that port, and only its page is hidden |
| Local APIC, other processors (`local_apic.c`, `_trampoline.asm`) | trampoline slots, stacks | `LapicInit`, `LapicSignalAllAPs` | each processor gets its own stack and task register |
| ACPI tables (`acpi.c`) | `gCpu`, `gNrOfCpus` | `AcpiInit`, `AcpiGetProcessors`, `AcpiGetPciEcam` | one entry per usable processor, at most eight |
| Interrupts (`idt.c`, `idt_handler.c`) | the IDT | `IdtInit`, `IsrCommonHandler` | an exception does not loop or deadlock |
| Log and console (`dbglog.c`, `print.c`, `console.c`, `cconsole.c`, `vvga.c`) | screen, row, column, output routine, the line break that is held back | `DbgDebugLog`, `ConsolePrint`, `ConsolePutChar`, `SetNewLine`, `Init` | each line reaches its readers once; the screen shows the end of the text |
| 32-bit entry, guest loader (assembly) | none | mode switches, disk read | straight-line code |
| Compiled, never called (`mhvvmx.c`, `vmx_exit_handler.c`, `cmd.c`, `list.c`, `time.c`, `pit.c`, `mem_manag.c`, ...) | | | `mhvvmx.c` says what `VmxInit` should do |
| ACPICA, diStorm | vendored | | |

### Where the components meet

* **Host page tables** are used by everybody: ACPI tables, the LAPIC, the ECAM
  window, guest memory and the EPT-violation decoder are all mapped by
  `MmuMapToVa` and unmapped later, in overlapping windows.
* **E820 → EPT, E820 → guest.** `MmuInit` halts unless the hypervisor's memory lies in
  usable RAM. The EPT's upper end is the map's highest address. The guest learns of
  the hole only through INT 15h: the EPT and the modified map must agree.
* **PCI → EPT → exit handler.** The restriction removes one leaf; every access to
  that page, and to any page the EPT never mapped, ends in the EPT-violation handler.
* **VMX start → exit handlers.** After `VMLAUNCH` the boot code's variables are
  only read by the exit handlers.
* **Heap → everybody.** ACPICA, the tables of each processor, both launches and every
  decoded EPT violation take blocks from one cursor; guard pages and I/O bitmaps
  are unmapped out of it; the EPT tables grow towards it.
* **PCI → log.** `PciInit` chooses the port the log is printed to, the search it starts
  the port that is hidden from the guest.

### What is hard about it

There is almost no test code in the repository: the program runs on a bare
machine or not at all. `PROJECT.json` lists each hazard with its line. They are,
in groups: memory that was never cleared becoming a page table; cursors and entry
pointers kept between iterations; calls that fill only some of the holes; lengths
and counters that are unsigned; steps of `VmxInit` that fail and are only logged
or not noticed at all; a wait for something nobody does; a guest that interleaves
complete, failing and foreign calls; static variables that survive from one
exit to the next; two loops that must come to the same device; and allocators that
know no end.

## 2. The modules

### `AddressSpace`, `Mmu`, `MCMmu`, `MmuProofs`: host page tables

`Mmu` keeps the table pages (`tables`), the bump allocator's cursor (`last` is
`currentPdptTablePa`), the loop in progress (`job`) and where `MmuInit` is (`phase`).
RAM that was never cleared holds the entry `Junk`, which may be *present*: a
table linked before it is cleared makes stale data part of the address space.
`MapPage` is one iteration of `MmuMapToVaInternal` with its three "no table yet"
branches (`Descend`) and the leaf that is only written if it is not present
(`FillLeaf`); `UnmapPage` one iteration of `MmuUnmapFromVaInternal`, whose
`continue` does *not* advance the address, so an unmap stops being useful at the first
hole. `MmuMapToVa`, `MapIdentity` and `MmuUnmapFromVa` start a loop, `Return` ends it.

`AddressSpace` is what the tables promise: a partial function from pages to
frames; mapping fills holes, unmapping removes the mapped prefix. `Mmu` is shown to
implement it through the mapping `space <- SpaceOf` (the walk of every page).

### `GuestMemory`, `Ept`, `MCEpt`, `EptProofs`: extended page tables

`EptMapGuestPaToPa` keeps the entry pointers of the page before and jumps into the
middle of the walk (`map_pt`, `map_pd`, `map_pdpt`) when an index did not change.
The order of its tests matters: an equal PD index keeps all three pointers even if the
PDPT index changed. `LevelsKept` and `MapPage` translate the gotos as they are.
The two calls around the hypervisor are `EptInitialization` and
`MapAboveKernel`; `Restrict` is `PciEcamRestrictAccessOnReservedSerialPort` with the
walks of `EptGetEntryValue` and `EptSetEntryValue`; `RestrictFails` is the missing MCFG
table whose status `Init64` ignores.

`GuestMemory` is the promise: pages are given one-to-one, the reserved ones
never, and pages may be taken away.

### `VmxStart`, `MCVmxStart`, `VmxProofs`: entering VMX

One action per step of `Init64` and `VmxInit` that can fail or that others depend on.
`hw` is the machine: vendor, CPUID's VMX bit, the MADT's order of processors, and
the instructions that fail on it; `msr` is `IA32_FEATURE_CONTROL`. `MsrSetBit`
does what the code does: it ors in `1ULL < BitIndex`. An exception without a gate
(only #DE and #UD have one, `idt.c`) resets the machine; #UD comes back to the
instruction that raised it (`VmClearUndefined`). The count is a DWORD. Names that
`VmExit` has too carry the prefix `Start` (`StartSpec`); `Listings` are the MADT's.

### `E820`, `MCE820`, `E820Proofs`: the memory map the guest sees

Boot: `MmuInit`'s check of the firmware's map, then one iteration of
`MmuCreateModifiedE820MemoryMap` per step; `Carve` splits an entry that strictly contains a
reserved range. Then the guest: `Int15` calls any service with any EBX, EDX,
ECX and stack segment; `VmcallE820` serves it; `VmcallOriginal` and `OriginalService` are the
original vector; `Iret` goes back to the caller. `seen`, `asked` and `cont` are
history: the enumeration the caller has collected so far.

### `Mtrr`, `MCMtrr`, `MtrrProofs`: the memory type of a page

`MtrrInit` keeps the number of variable ranges and the default type.
`MtrrGetPageMemoryType` answers at once for a page below 1 MB (`Fixed`, with the
code's own index computations) and otherwise starts a search, one range per
`NextRange`; `NoRange` gives the default. `Ept` takes the result as the constant
`MemoryType`. `ProcessorType` is the reference: the processor's rules for the
same registers, written without the code's shifts and masks.

### `EcamExit`, `MCEcamExit`, `VmxProofs`: the hidden serial port

The guest has several instructions, some of which share an instruction pointer
(other address spaces, other code segments), and accesses hidden and ordinary
addresses with them. `EptViolation` decodes; `EptViolationAgain` is the path
`lastGuestRip == guestRip` that reuses the static variables. The handler finds the
instruction on a path of its own: `HandlerLocation` takes a 16-bit stack segment
for real mode, RIP without the code segment's base, and walks every guest that pages
with `GuestWalk`, which is `MmuGetEntryPhysicalAddressFromPageTable` and knows 4-KB
and 2-MB pages. `Location` and `ProcessorWalk` are where the processor fetched
it. If the two agree (`Found`) diStorm sees the instruction; what it makes of other
bytes is left open (`WantsRax`). Names that `VmExit` has too carry the prefix `Ecam` (`EcamSpec`):
the theorems about the start and both exit handlers are in `VmxProofs`.

### `Pci`, `MCPci`, `PciProofs`: the port of the log and the port that is hidden

`PciVisit` is one step of `PciInit`'s scan over the functions the header types
announce; a MosChip function met while the log has no port starts the search
(`SearchFunction`, one function of `PciSearchDevice` per step, which leaves a device at
the first function of another vendor and passes over another class); `InitSerial` then takes the
port from the function the scan is at, and `PciInitEnds` moves the output. `gPort` is the
scan's choice, `reserved` the search's: they come from different registers and different
loops. `Restrict` computes the page of the window that is taken from the guest.

### `HostMemory`, `MCHostMemory`, `HostMemoryProofs`: who owns which address

Addresses are bytes. Each caller of the allocator is an action that puts its
requests in `todo`; `MmuAllocVa` serves one as `MmuGetNextAvailableVa` does: an
address that is aligned already is moved a whole page (`BlockBase`), the length is
rounded (`BlockLength`). Blocks, unmapped ranges (`holes`), HOST_RSP and the last EPT
table are kept. The page in front of every block belongs to nobody, and the exit
handler's stack is there by accident: `HOST_RSP` is the *lowest* address of its
block. `EptTables` counts the tables for the end of the E820 map.

### `GuestCode`, `GuestProcessor`, `VmExit`, `MCVmExit`, `VmxProofs`: exits

`GuestProcessor` is the promise: a processor that executes one instruction after the
other, shows a hypervisor in CPUID and its own OSXSAVE bit, answers the hooked INT
15h, and ends only at instructions that are not `Ordinary`. `VmExit` is the code:
which controls are written from which capability MSRs (`Asked`, `Cleared`,
`CheckExecutionControls`), which instructions exit under them, under the masks of
CR0 and CR4 and under the bitmaps, the exit stub's saved registers (`frame`), the handlers
with their early returns, the RIP they leave, the default that leaves VMX operation, and
VM entry, which refuses illegal controls. `VmExit` implements `GuestProcessor` with the saved
registers standing for the guest's between exit and VMRESUME.

### `Console`, `MCConsole`, `ConsoleProofs`: a line of the log

`DbgDebugLog` puts what one call does, character by character and switch by switch, in
`todo`; each step is `ConsolePutChar`, `SetNewLine`, `Init` or `InitOnlyCons`. A line
goes to the output `Init` chooses (the serial port, once `PciInit` has found
it) and then once more to the console, and leaves the output at the console. An error and an ACPI
message hold the console's line break back, print dots and give it afterwards.
`ConsolePutChar` keeps row and column through tabs, wraps and line breaks and scrolls
at most one row per character. `text` and `port` are history: what the console and the serial
port were given. What a reader sees is read by position: `Inked` are the cells with a visible
character, `InOrder` puts them in order.

## 3. What the runs check

Twelve runs; two of them look for something the source says and the code does
not do. The size of each instance is chosen so that every branch of the loops, every
failure and every guard below is taken.

### Passing runs

| Run | What it shows |
|---|---|
| `mmu` | `TablesAreATree`: links lead one level down to cleared tables, no two to the same one, and no table taken is lost. `MappedAtItsAddress`: whatever the order of maps and unmaps, a page has one frame for ever, one-to-one or by `PA2VA`. `MapNeverRemaps`: a map never changes an existing translation, whatever frame or attribute it asks for. `ImplementsAddressSpace`: refinement. |
| `ept` | `TablesAreATree`, `HypervisorIsHidden` at every moment of the boot, `GuestHasItsMemory` (exactly the promised pages, each with its type, and exactly the port's page missing), `ImplementsGuestMemory`: refinement. |
| `vmx_start` | `LaunchHasItsVmcs`, `CounterCountsThisCpu`, `NoSecondLaunch`, and `GuestRuns`: on a machine as the code expects it the guest runs. |
| `e820` | `RestIsUnchanged`, `HypervisorIsUnusable`, `EnumerationIsExact`, `CallerCanTell` for any sequence of calls, and `Int15Returns`. |
| `mtrr` | `TypeIsTheProcessors`: the answer is the type the processor uses, for each fixed region and for variable ranges in any order without a conflict. |
| `ecam_exit` | `AnswerComesFromThePort`: the answer only reaches an instruction pointer that has read the port. `DeviceIsInvisible`: what a flat guest's freshly decoded instruction is told, whatever other code and address spaces exited before. |
| `pci` | `SearchIsExact`: the search reserves the first serial port it can come to and misses none. `LogPortIsReserved`: where all MosChip functions are ports, the log's port is the hidden one. `LogHasAPort`, `OnlyAPortIsHidden`, and `ScanEnds`. |
| `host_memory` | `BlocksAreApart`, `UsedMemoryStaysMapped`, `ExitStackHasAPage` through both launches and any number of processors; `EptTablesStayBelowHeap` up to `MaxTop`; `HeapLasts`: how much the heap must hold. |
| `vm_exit` | `ImplementsProcessor`: refinement. `OrdinaryGuestIsNotStopped`: no control, mask or bitmap makes an instruction exit that has no handler. `ControlsAreLegal`: VM entry is not refused. `GuestGetsOn`: no handler resumes at its instruction for ever. |
| `console` | `ScreenShowsTheText`: read from the top, the screen is the end of what was printed. `LineReachesItsReaders`, `LogLineStartsALine` for every order of message types; `OnlyTheTopLineGoes`. |

Bounds.

* `mmu`: tables of two entries and four-byte pages, so that 16 virtual pages fill
  all four levels and every index wraps; at most 20 tables after the PML4. The calls are an
  unaligned two-page map, one that overlaps it with another attribute, one far
  away, a one-to-one map, and unmaps that start unaligned, in a hole, run into a
  hole, or take a page of the video memory. Calls may repeat in any order.
* `ept`: tables of three entries, so that the hole around the hypervisor starts
  and ends inside a table and each of the three gotos and the full walk occur;
  81 pages; three ends of RAM, two of them not on a page boundary; nine places for the
  port's page, mapped, hidden already, and beyond the map. At most 50 tables.
* `vmx_start`: MADT listings of zero to three processors, the boot processor
  first, later, or missing; every subset of the four VMX instructions that may fail; every value of
  the two bits of `IA32_FEATURE_CONTROL`; a counter of 256 values instead of 2^32.
* `e820`: five maps (entries out of order, touching, overlapping, of every type; RAM that starts
  at the hypervisor, that contains both reserved ranges, that is too small for
  it); EBX up to 8, beyond the longest modified map; stack segments based at 0 and
  not at 0. `MaxIndex` only limits what the guest asks with.
* `mtrr`: all 256 pages of the fixed ranges at their real size, with types that
  differ between neighbouring regions; 13 pages at and around the edges of the
  variable ranges; 1024 pages stand for the 2^28 that the kept bits tell apart, and one
  page and one range lie beyond them; eight contents of the registers, with an unused
  register between used ones, a hole listed before the memory around it, the same listed
  after it, and the registers disabled.
* `ecam_exit`: nine instructions over five instruction pointers, of flat and segmented
  16-, 32- and 64-bit code, with 4-KB, 2-MB and 1-GB pages, a legacy format and a wrong
  stack segment; three hidden addresses (the port's first register, another one of
  its registers, a hole), one ordinary address.
* `pci`: two buses of two devices with two functions. Three functions take each of six
  configurations (absent, another vendor, port, parallel sibling, memory instead of an
  I/O base, a base never written), with every header type and with the window at the first bus,
  at the second, or no MCFG table: 101868 states. A device with one function and a
  device with two, behind each other, are what the loops' exits tell apart.
* `host_memory`: one to three processors; a heap of 70 pages, enough for two
  launches with two processors and too little for three; maps that end at 1 GB, at the last
  region whose tables fit and one further; `MaxAcpi` 3 allocations of less than a
  page, a page, and more; `MaxDecodes` 4 decoded exits. Page size and layout are the code's.
* `vm_exit`: every operation, with upper register halves where a handler looks at a register;
  five processors: with and without XSAVE, one that must set but one of the default settings,
  one that cannot clear any of them and one without XSAVES, whose VM entry is refused.
* `console`: three rows of text of four columns between the title's row and the row that is never
  used, a tab every two columns, two rows cleared and leftovers of the firmware in the others. Six
  messages, shorter than a row, filling it exactly, running into the next by a character or by a
  tab, and with breaks of their own, of every way a type prints; any sequence of them, so that
  every combination of wrap and break meets the last row: 104720 states.

The types of the modules with proofs (`TypeOK`) are proved and so are not among the runs'
properties, except that of `ecam_exit`, which says what the handler's operand may be, and that of
`console`, which says how far row and column may get.

Deadlock checking is off where the system stops: the boot halts (`MmuInit`'s check,
a failed `VmxInit`), resets, or hands the machine to the guest, after which `Mmu`
and `Ept` have nothing more to do once their table bound is reached; in `e820`
the hypervisor halts when the check fails; in `pci` the boot goes on elsewhere; in `host_memory` the
bounds end it; in `vm_exit` the machine may stop. It is on for `ecam_exit`, `mtrr` and
`console`.

Fairness. `vmx_start`: one thread of control that nothing preempts, so weak
fairness of `Next`. A step that repeats itself (#UD) is still a step, so fairness
does not hide it. `pci`: the same thread, weak fairness of `Next`. `e820`: the exit handler runs to
its end with interrupts off, the processor executes the `IRET`, and the firmware's service returns;
the guest is never obliged to call. `vm_exit`: weak fairness of `Running`, the steps of the
processor and the handlers between two instructions; which instruction the guest
executes next is not forced. No other specification assumes fairness.

### Runs that find a violation

| Run | Property | The source says | What the code does |
|---|---|---|---|
| `vmx_start_lock` | `NeverLocksVmxOff` | lock and enable together (`mhvvmx.c:116`) | `1ULL < BitIndex` sets bit 0: VMXON is locked *off* |
| `e820_flags` | `FlagsAreTheCallers` | "guestRsp + 4 points to rflags" (`vmx.c:1332`) | the stack segment's base is not added |

The passing properties say what is true under the condition that makes it true, and
the condition names what the code does not do:

* `GuestRuns` has `Ready`: `gCpu[0]`, which is marked active and whose state starts the guest, is the
  MADT's first entry and need not be the boot processor's (`init64.c:149`, `gdt.c:68`); and after a
  launch that fails the boot processor waits for processors that never count
  themselves in (`init64.c:156`).
* `HypervisorIsUnusable` has `ReachesBeyond` and `OnlyOneThere`: the check of the map accepts
  an entry that ends exactly at the hypervisor's end (`>=`), the carving needs one that
  goes beyond it (`>`, `map.c:620`).
* `CallerCanTell` has a stack segment based at 0.
* `DeviceIsInvisible` has `Flat` (above) and `Fresh`: the operand of the exit before is used
  again when RIP is the same (`vmx.c:1191`), also for another instruction there.
* `LogPortIsReserved` has `Plain`: a MosChip function that is not a serial port may
  give the log its port, and then another one, or none, is hidden.
* `EptTablesStayBelowHeap` has `MaxTop`: nothing stops the tables of a map that ends above 40 GB.
* `HeapLasts` has the room that is needed: every decoded exit takes two pages for ever.
* `GuestGetsOn` has `Completes`: a VMCALL outside a 16-bit stack segment is resumed at
  itself (`vmx.c:1322`).

`TypeIsTheProcessors` has `Enabled`, `Fits` and `NoConflict`: the
code reads the enable bits and ignores them, cuts base and mask to 28 bits, and lets the
first range win where the processor lets UC win. No text in the repository says
otherwise, so these limits are stated here and not as findings. The same goes for
`CheckVmxSupported` (`vmx.c:353-360`), which compares its loop counter and
not the CPUID bit: every processor passes, and one without VMX (`hw.vmx` is false) takes
an exception at `MOV CR4` instead; the assumption `hw.vmx` in `Ready` is needed for that reason.

## 4. What is proved

TLAPS proves the theorems below for every value of the constants that satisfies the
module's `ConstantsAreSane`: any table size, page size, memory map, MADT, set of
calls. The assumptions are types, plus:

* `Mmu` (`CallsFit`): the shift between physical and virtual addresses is a multiple of the page
  size, and every range a call is made on lies inside the four levels, as 48-bit addresses do.
* `Ept`: the guest-physical space has room for the second call, which `MmuInit`'s
  check of the map and 48-bit addresses give; a table has at least two entries.
* `E820`: the loader's page lies below the hypervisor.
* `Mtrr`: at most ten variable ranges, the length of `m_mtrrVariableRangesMsrs`.
* `VmxStart`: a MADT lists fewer processors than a DWORD counts.
* `Pci`: a MosChip function is a function that answers.
* `Console`: at least two rows of text, a row of whole tab stops, a title that fits its row. What the
  firmware left on the screen is told apart from the visible characters printed (`Ink`): the code never
  looks at a cell except to copy it, so a cell may carry where its character came from.
* `HostMemory`: one to eight processors; no size is 0.
* `EcamExit`: an instruction that exits has been fetched, so in IA-32e mode the entries of its walk
  are present; the port's page is one that exits, and not page 0.
* `VmExit`: the guest's instructions are those of `GuestCode`, and every processor can
  set its default settings.

| Module | Theorems | Argument |
|---|---|---|
| `MmuProofs` | `TypesCorrect`, `TablesFormATree`, `MappingNeverRemaps`, `PagesKeepTheirAddress`, `TablesAreAnAddressSpace` | A *memory* is the triple of tables, cursor and depths. `Good(m)` says it is a tree whose upper entries lead one level down, unshared, with every table linked. `DescendGood` and `FillLeafGood` show that each branch of the loop keeps `Good` and only grows the memory (`GrowsTransitive`); `MapOneGood` composes four of them into one iteration. No part is inductive alone: without `LinksGoDown` a fresh table might already be linked, and without `NoSharedTable` writing a leaf might write an upper-level entry. For `MappingNeverRemaps`, a present walk stays where it is because growing never changes a present entry. For the frames, a leaf entry belongs to one page only: four indices determine a page and no table is shared, so an iteration changes the walk of its own page and of no other. `Placed` adds where the running loop is: it maps either one-to-one below `Offset` or `Offset` further up, and never leaves the address space. With it every iteration is one step of `AddressSpace`, or none. |
| `EptProofs` | `TypesCorrect`, `TablesStayATree`, `HypervisorStaysHidden`, `MemoryIsDelivered`, `MemoryIsGivenPageByPage` | `Good` again. The kept entry pointers make it harder: `Kept` says that they are the three upper entries on the walk of the page before. Two successive pages with an equal index at one level have the same indices above it, whatever the order of the tests, so an iteration that jumps leaves exactly what one that starts at the PML4 leaves (`GotosSkipNothing`): without `Kept` a goto could write into another page's table. `Range` says which pages are left, so none of the hypervisor is ever the loop's page. `Given` then says that the guest has exactly the pages the loops have passed, each one-to-one with its type; it gives what the guest has at the end, what is hidden, and the refinement. |
| `E820Proofs` | `TypesCorrect`, `RestOfTheMapIsKept`, `HypervisorIsToldUnusable`, `EnumerationNeverErrs`, `CallerCanAlwaysTell` | The boot invariant states, for every address, the types `modified` gives it in terms of the types the first `next - 1` entries give it; `PiecesOfEntry` shows it for one entry, `TypesOfConcat` for the concatenation. The call invariant relates what the caller has collected to `modified` and to EBX in each phase of a call. `RestOfTheMapIsKept` and `HypervisorIsToldUnusable` follow when the loop has ended. |
| `MtrrProofs` | `TypesCorrect`, `TypeIsAlwaysTheProcessors` | The loop's invariant: no range looked at so far matches (`Searched`); when it returns, the first match or the default decided (`Answered`). `FixedIndices` shows that the shifts below 1 MB find the right register and byte, `HitsIsContains` that the masked comparison is containment, `FirstDecides` that without a conflict the first range has the combined type. |
| `PciProofs` | `TypesAreKept`, `SearchFindsTheFirst`, `LoopsAgree`, `LogGetsAPort`, `OthersKeepTheirPage` | Functions are in the order the loops visit them. The invariant says that no port lies before the search's cursor unless one is stored (`SearchedBehind`), nor a MosChip function with an I/O base before the scan's unless the log has a port (`VisitedBehind`), and what the scan knows while the search runs (`ScanWaits`) and afterwards (`ScanIsOver`). `NextFunStep`, `NextDevStep` show that a step of either loop leaves nothing out that can be reached, `EndOfScan` that the last one has covered all. |
| `HostMemoryProofs` | `TypesAreKept`, `MemoryIsNotShared`, `MemoryStaysMapped`, `HandlerHasAStack`, `TablesStayOutOfTheHeap`, `TheHeapLasts` | The blocks are stacked: all lie a page apart below the cursor (`Stacked`). With what the rounding gives (`Rounding`), a new block lies above all old ones; holes lie inside blocks (`HolesAreInBlocks`), so a new block meets none; HOST_RSP is the base of a block (`RspIsABlock`), so the page below it is the one between two blocks. How far the cursor gets is a count (`Counted`): its place and the pages the waiting requests still owe (`Owed`) are together what the functions called so far take (`Taken`). Each request pays what was counted for its place in the list (`OwedStep`), each call adds its list (`RequestsAreCounted`), and that nothing is launched or decoded too early (`Early`) makes the first sum right. |
| `VmxProofs` | of `VmExit`: `TypesAreKept`, `GuestIsEntered`, `OrdinaryGuestRunsOn`, `GuestSeesAProcessor`; of `EcamExit`: `OperandIsAnExit`, `AnswerIsOnlyGivenAtThePort`, `FlatGuestSeesNoDevice`; of `VmxStart`: `TypesCorrect`, `LaunchIsPrepared`, `CounterIsExact`, `FailedLaunchIsFinal` | The invariant ties the mode to the instruction at hand (an exit is pending only for an instruction that exits, off and reset only at one that is not ordinary), the guest's OSXSAVE to a processor that has XSAVE, and the controls to those the set-up writes. For the refinement each step of the handlers is one step of `GuestProcessor` or a stutter. For `EcamExit`, `EcamInv` says what the static variables mean between two exits: they are those of the access decoded last, and an answer they still hold was decided at an instruction pointer that has read the port. `FlatCodeIsFound` shows that handler and processor find a flat guest's instruction in the same place, through 4-KB and 2-MB pages. For `VmxStart`, `StartInv` tells the first call of `VmxInit` from the second (`region`): in the first there is no current VMCS until `VMPTRLD`, in the second the first one's is still current, so `VmPtrst` stops it. |
| `ConsoleProofs` | `TypesHold`, `ShowsTheText`, `TopLineGoes`, `LinesBegin`, `ReadersGetTheLine` | The screen is followed by position. `ScreenInv` says that every visible cell of the text lies before the place of the next character, so a character written becomes the last one in reading order (`WrittenAfterTheText`, `AddLast`), and a scroll, which moves each cell of the text one row up, takes exactly the first row's characters away (`ScrollMovesTheText`, `MovedDown`); without it a character could land between two others and `ScreenShowsTheText` would not be inductive. The log call is followed by place: `LogInv` says that what is left in `todo` is the rest of one of the call's parts followed by all later parts, with the output and the held-back line break as that part needs them, and that what was sent so far is the beginning of the part. The last part always ends with a line break on the console, which is why the next line starts in column 0. |

Every safety property that a passing run checks is also proved. Only model-checked are the liveness
properties `GuestRuns`, `Int15Returns`, `ScanEnds` and `GuestGetsOn`, which need fairness and ENABLED and
so are out of the prover's reach, and the two properties that are violated.

Facts about data of any length (the visible characters of a screen in order) need an
induction, and the library's induction rules take a predicate, which the provers cannot instantiate.
`ConsoleProofs` takes the least counterexample instead: `LeastOne` says that every
non-empty set of numbers has a least element, from the well-foundedness of `<`, and with
it `NthExists` shows that the positions in a finite set are numbered without a gap. So
`Console`'s properties name the characters by their positions (`InOrder`) and not by a filter that is
defined by recursion over the sequence.

## 5. Abstractions and assumptions

* A table is its number and a page its page number; the entries keep presence,
  target and one attribute. The read, write and execute bits of an EPT entry
  always change together in the code, so they are one bit.
* The bound on tables stands for the 10 MB between `PML4_ADDRESS` and the EPT's
  tables. The code has no such check; what the EPT tables run into is in
  `HostMemory`.
* The processor's caches of translations are not modelled. `MappedAtItsAddress` says that a page
  only ever has one frame, so a stale translation has the right frame; it may have
  the wrong attribute.
* `E820` counts in units that divide every boundary. The guest's buffer and flags are
  observed, the rest of its memory is not.
* In `EcamExit` the VM-exit instruction length is taken to be right, and `load`, `op0`
  and the walk stand for everything an instruction and an address space can be.
* `Pci`: a read of configuration space returns what is plugged in; nothing is plugged in
  or out while the loops run.
* `HostMemory`: exactly one processor is marked as the boot processor. The handler's stack is
  promised one page; a deeper one runs into the MSR bitmaps, and how deep it gets is the
  compiler's choice. The branch of `MmuGetNextAvailableVa` for addresses that are not
  aligned is never taken, because every length is rounded.
* `VmExit`: the bits that must be 1 in the older capability MSRs are the class of default
  settings; the exception bitmap is 0 and HLT does not exit; the guest sets CR4.OSXSAVE only where CPUID
  offers XSAVE; what an EPT violation and E820 do in detail is in their own modules. A 64-bit
  register has an upper half only where a handler looks at the register.
* `Console`: colours, the formatting of numbers, the cut at 255 characters, the keyboard and the print
  lock are left out. Without a serial port both outputs are the console, and every line
  is printed there twice; so the code does it.
* The hardware (VMX instructions, MSRs, the interrupt frame, IRET), the firmware
  and diStorm are modelled from how the code uses them.

## 6. Not modelled, and the plan

* **ACPICA** (`ACPI/`) and **diStorm**: vendored libraries, nearly all of the repository's lines. What the
  hypervisor takes from them (the MADT's list, the MCFG window, the first operand) is an input of the
  models.
* **Compiled and never called** (`mhvvmx.c`, `vmx_exit_handler.c`, `cmd.c`, `list.c`, `time.c`, `pit.c`,
  `mem_manag.c`, ...): there is no behaviour to model.
* **Application processors**: `LapicSendIpi` does not write the APIC's command register
  (`local_apic.c:202`) and `ApInit64` returns at once, so no second processor
  runs. Their stacks are in `HostMemory`, their number in `VmxStart`. The two trampoline
  slots they would share are a race only once they are started.
* **Exceptions** beyond #UD, which `VmxStart` has: a gate leads to a log call and back.
* **ACPI tables**: `gCpu` has eight entries and `AcpiGetProcessors` does not count them; what lies behind the
  array is the linker's choice.
* **32-bit entry and guest loader**: straight-line assembly without a decision; the register dump and the
  formatting of numbers: pure output.
* **The check for VMX** (`vmx.c:356`) compares the wrong variable; one comparison needs no model beyond
  `hw.vmx` in `VmxStart`. `TssInstallStack(Tss, 0)` writes a reserved field that is never read.

What would come next: the composition of `VmExit` with `E820` and `EcamExit`, in place of the single
steps that stand for them there, and the refinement of `GuestProcessor` by it.
