-------------------------------- MODULE E820 --------------------------------
(***************************************************************************)
(* The memory map the guest is shown: the check MmuInit makes of the map   *)
(* the boot loader handed over, the map MmuCreateModifiedE820MemoryMap     *)
(* builds from it (src/minihv/map.c), the hook VmxPatchRealModeInt15hE820  *)
(* puts into the real-mode interrupt table (vmcall; iret, in _guest.asm)   *)
(* and VmxBasicExitReasonVmcall, which serves INT 15h, EAX=E820h, one      *)
(* entry per call, or resumes the guest in the original service            *)
(* (src/minihv/vmx.c). Addresses are in units that divide every boundary.  *)
(***************************************************************************)
EXTENDS Integers, Sequences

CONSTANTS
    Maps,               \* the firmware's maps: sequences of entries
    Kernel, KernelSize, \* KERNEL_ADDRESS, KERNEL_RESERVED_MEMORY
    Loader, LoaderSize, \* GUEST_MBR_LOADER_LOCATION_PA, GUEST_RESERVED_MEMORY
    Segments,           \* stack segment bases (SS << 4) the guest may call with
    MaxIndex            \* bound: the largest EBX the guest asks with

Usable   == 1
Unusable == 2
Types == 1 .. 5         \* E820_MEMORY_TYPE

Entry == [base: Nat, len: Nat, type: Types]

\* The loader's page and the hypervisor's memory do not meet.
ASSUME ConstantsAreSane ==
    /\ \A m \in Maps : m \in Seq(Entry)
    /\ Kernel \in Nat /\ KernelSize \in Nat /\ Loader \in Nat /\ LoaderSize \in Nat
    /\ Loader + LoaderSize <= Kernel
    /\ Segments \subseteq Nat /\ MaxIndex \in Nat

VARIABLES
    map,        \* m_e820MemoryEntriesBuffer
    modified,   \* m_modifiedE820MemoryMap, its first entries
    next,       \* the entry of map the loop is at
    pc,         \* "check", "create", "app" (the guest runs), "vmcall" (in the
                \* hook), "iret" (behind the VMCALL), "original", "halted"
    ax,         \* EAX: "e820", "smap" or "other"
    bx,         \* EBX, the continuation value
    sig,        \* EDX is the signature 'SMAP'
    room,       \* ECX >= 0x14: the buffer can hold an entry
    ss,         \* the guest's stack segment base
    carry,      \* CF in the flags INT pushed
    buffer,     \* the entry at ES:DI
    asked,      \* history: EBX of the call
    cont,       \* history: EBX the last successful call returned
    seen        \* history: the entries of an enumeration begun with EBX = 0

vars  == <<map, modified, next, pc, ax, bx, sig, room, ss, carry, buffer, asked, cont, seen>>
boot  == <<map, modified, next>>
guest == <<ax, bx, sig, room, ss, carry, buffer, asked, cont, seen>>

NoEntry == [base |-> 0, len |-> 0, type |-> Unusable]

End(e) == e.base + e.len

Init ==
    /\ map \in Maps
    /\ modified = <<>> /\ next = 1
    /\ pc = "check"
    /\ ax = "other" /\ bx = 0 /\ sig = FALSE /\ room = FALSE /\ ss = 0
    /\ carry = FALSE /\ buffer = NoEntry /\ asked = 0 /\ cont = 0 /\ seen = <<>>

---------------------------------------------------------------------------
(* The hypervisor's boot *)

\* MmuCheckIfChunkExists(KERNEL_ADDRESS, 200 * MB), without which MmuInit halts.
ChunkExists ==
    \E i \in DOMAIN map : /\ map[i].base <= Kernel
                          /\ End(map[i]) >= Kernel + KernelSize
                          /\ map[i].type = Usable

MmuInit ==
    /\ pc = "check"
    /\ pc' = IF ChunkExists THEN "create" ELSE "halted"
    /\ UNCHANGED <<boot, guest>>

\* The entry strictly contains the range: it ends above the range's end.
Contains(e, base, size) == e.base <= base /\ End(e) > base + size

Piece(base, len, type) == [base |-> base, len |-> len, type |-> type]

\* Mutant: the range keeps the type of its entry.
CarveSameType(e, base, size) ==
    << Piece(e.base, base - e.base, e.type),
       Piece(base, size, e.type),
       Piece(base + size, End(e) - (base + size), e.type) >>

Carve(e, base, size) ==
    << Piece(e.base, base - e.base, e.type),
       Piece(base, size, Unusable),
       Piece(base + size, End(e) - (base + size), e.type) >>

\* Mutant: the memory above the hypervisor is left out.
PiecesBelow(e) ==
    IF Contains(e, Kernel, KernelSize) THEN SubSeq(Carve(e, Kernel, KernelSize), 1, 2)
    ELSE IF Contains(e, Loader, LoaderSize) THEN Carve(e, Loader, LoaderSize)
    ELSE <<e>>

\* What one entry of the firmware's map becomes.
Pieces(e) ==
    IF Contains(e, Kernel, KernelSize) THEN Carve(e, Kernel, KernelSize)
    ELSE IF Contains(e, Loader, LoaderSize) THEN Carve(e, Loader, LoaderSize)
    ELSE <<e>>

\* One iteration of MmuCreateModifiedE820MemoryMap; after the last one the hook is
\* in place and the guest starts.
MmuCreateModifiedE820MemoryMap ==
    /\ pc = "create"
    /\ IF next <= Len(map)
       THEN /\ modified' = modified \o Pieces(map[next])
            /\ next' = next + 1 /\ UNCHANGED pc
       ELSE pc' = "app" /\ UNCHANGED <<modified, next>>
    /\ UNCHANGED <<map, guest>>

---------------------------------------------------------------------------
(* The guest calls INT 15h *)

\* INT pushes the flags as they are and jumps to the hook.
Int15 ==
    /\ pc = "app"
    /\ ax' \in {"e820", "other"} /\ bx' \in 0 .. MaxIndex
    /\ sig' \in BOOLEAN /\ room' \in BOOLEAN
    /\ ss' \in Segments /\ carry' \in BOOLEAN
    /\ asked' = bx'
    /\ pc' = "vmcall"
    /\ UNCHANGED <<boot, buffer, cont, seen>>

\* MmuGetModifiedE820MemoryEntry: indices count from 0.
Found(index) == index < Len(modified)
\* Mutant: the entry before the last one ends the enumeration.
LastBefore(index) == index >= Len(modified) - 2
Last(index)  == index = Len(modified) - 1

Served == sig /\ Found(bx) /\ room

\* The handler's flags image is at linear address RSP + 4: the one INT pushed only
\* when the stack segment is based at 0.
Flags(failed) == IF ss = 0 THEN failed ELSE carry

\* Mutant: RIP stays at the VMCALL.
VmcallE820Again ==
    /\ pc = "vmcall" /\ ax = "e820"
    /\ carry' = Flags(~ Served)
    /\ UNCHANGED <<boot, pc, ax, bx, sig, room, ss, buffer, asked, cont, seen>>

\* Mutant: the carry flag is set on failure and never cleared.
VmcallE820Carry ==
    /\ pc = "vmcall" /\ ax = "e820"
    /\ carry' = (carry \/ Flags(~ Served))
    /\ IF Served
       THEN /\ buffer' = modified[bx + 1]
            /\ bx' = IF Last(bx) THEN 0 ELSE bx + 1
            /\ ax' = "smap"
       ELSE UNCHANGED <<buffer, bx, ax>>
    /\ pc' = "iret"
    /\ UNCHANGED <<boot, sig, room, ss, asked, cont, seen>>

\* VmxBasicExitReasonVmcall for EAX=E820h; RIP moves to the IRET.
VmcallE820 ==
    /\ pc = "vmcall" /\ ax = "e820"
    /\ carry' = Flags(~ Served)
    /\ IF Served
       THEN /\ buffer' = modified[bx + 1]
            /\ bx' = IF Last(bx) THEN 0 ELSE bx + 1
            /\ ax' = "smap"
       ELSE UNCHANGED <<buffer, bx, ax>>
    /\ pc' = "iret"
    /\ UNCHANGED <<boot, sig, room, ss, asked, cont, seen>>

\* Any other service: CS:RIP is the original vector, the frame is still on the stack.
VmcallOriginal ==
    /\ pc = "vmcall" /\ ax # "e820"
    /\ pc' = "original"
    /\ UNCHANGED <<boot, guest>>

\* The firmware's service returns to the caller of INT 15h, CF is its result.
OriginalService ==
    /\ pc = "original"
    /\ pc' = "app"
    /\ carry' \in BOOLEAN
    /\ UNCHANGED <<boot, ax, bx, sig, room, ss, buffer, asked, cont, seen>>

\* Back in the caller, which keeps the entry when CF is clear and its stack is one
\* the handler knows.
Iret ==
    /\ pc = "iret"
    /\ pc' = "app"
    /\ IF ss = 0 /\ ~ carry
       THEN /\ cont' = bx
            /\ seen' = IF asked = 0 THEN <<buffer>>
                       ELSE IF asked = cont /\ seen # <<>> THEN Append(seen, buffer)
                       ELSE <<>>
       ELSE cont' = 0 /\ seen' = <<>>
    /\ UNCHANGED <<boot, ax, bx, sig, room, ss, carry, buffer, asked>>

Next ==
    \/ MmuInit \/ MmuCreateModifiedE820MemoryMap
    \/ Int15 \/ VmcallE820 \/ VmcallOriginal \/ OriginalService \/ Iret

Spec == Init /\ [][Next]_vars

\* The handler runs to its end, the processor executes the IRET, and the firmware's
\* services return. The guest need not call.
Fairness ==
    /\ WF_vars(VmcallE820) /\ WF_vars(VmcallOriginal)
    /\ WF_vars(OriginalService) /\ WF_vars(Iret)
FairSpec == Spec /\ Fairness

---------------------------------------------------------------------------
(* Properties *)

TypeOK ==
    /\ map \in Maps
    /\ modified \in Seq(Entry)
    /\ next \in 1 .. Len(map) + 1
    /\ pc \in {"check", "create", "app", "vmcall", "iret", "original", "halted"}
    /\ ax \in {"e820", "smap", "other"} /\ bx \in Nat
    /\ sig \in BOOLEAN /\ room \in BOOLEAN /\ carry \in BOOLEAN
    /\ ss \in Nat /\ buffer \in Entry
    /\ asked \in Nat /\ cont \in Nat /\ seen \in Seq(Entry)

\* The types a map gives to an address.
TypesAt(m, a) == {m[i].type : i \in {j \in DOMAIN m : m[j].base <= a /\ a < End(m[j])}}

HypervisorRange == Kernel .. Kernel + KernelSize - 1
LoaderRange     == Loader .. Loader + LoaderSize - 1

\* The addresses some entry of the firmware's map mentions.
Mentioned == UNION {m.base .. End(m) - 1 : m \in {map[i] : i \in DOMAIN map}}

Running == pc \in {"app", "vmcall", "iret", "original"}

\* Nothing else than the hypervisor's memory and the loader's page changes its type
\* on the way from the firmware's map to the guest's: no memory is lost, none is
\* invented, in whatever order and however overlapping the entries come.
RestIsUnchanged ==
    Running => \A a \in Mentioned \ (HypervisorRange \cup LoaderRange) :
                  TypesAt(modified, a) = TypesAt(map, a)

\* The guest is told that the hypervisor's memory is unusable when the RAM it lies
\* in reaches beyond it and no other entry overlaps it.
ReachesBeyond == \E i \in DOMAIN map : Contains(map[i], Kernel, KernelSize)
OnlyOneThere  == \A i, j \in DOMAIN map : i # j =>
                    (map[i].base .. End(map[i]) - 1) \cap
                    (map[j].base .. End(map[j]) - 1) \cap HypervisorRange = {}
HypervisorIsUnusable ==
    Running /\ ReachesBeyond /\ OnlyOneThere =>
        \A a \in HypervisorRange : TypesAt(modified, a) = {Unusable}

\* A caller that starts with EBX = 0 and passes on what each call returns is given
\* the entries of the guest's map in their order, each once, and is told that it
\* has the last one exactly when it has; calls of other services and failed calls
\* in between do not disturb that.
EnumerationIsExact ==
    pc = "app" /\ seen # <<>> =>
        /\ Len(seen) <= Len(modified) /\ seen = SubSeq(modified, 1, Len(seen))
        /\ cont = IF Len(seen) = Len(modified) THEN 0 ELSE Len(seen)

\* The caller can tell whether it was served: CF is clear exactly when the handler
\* wrote the entry and put the signature into EAX, and after a failure the buffer
\* and the continuation value are what they were.
Handled == pc = "vmcall" /\ pc' = "iret"
CallerCanTell ==
    [][Handled /\ ss = 0 => IF carry' THEN UNCHANGED <<ax, bx, buffer>>
                            ELSE ax' = "smap" /\ buffer' = modified[asked + 1]]_vars

\* Every INT 15h returns to its caller, through the handler or the firmware.
Int15Returns == (pc = "vmcall") ~> (pc = "app")

\* What the source says and the code does not do (checked by a run of its own).

\* "guestRsp + 4 points to rflags": the flags the handler changes are the caller's.
FlagsAreTheCallers == [][Handled => (carry' <=> ax' # "smap")]_vars
=============================================================================
