------------------------------ MODULE EcamExit ------------------------------
(***************************************************************************)
(* What the guest sees of the reserved serial port in memory-mapped PCI    *)
(* configuration space: its accesses to pages the EPT gives no access to   *)
(* exit, and VmxBasicExitReasonEptViolation (src/minihv/vmx.c) decodes the *)
(* instruction, answers a read of the port's first register into RAX with  *)
(* MAX_DWORD (no such device), and skips the instruction. What it decoded  *)
(* is kept in static variables and used again when the same instruction    *)
(* pointer exits twice in a row.                                           *)
(*                                                                         *)
(* It is one handler of VmExit: the names both would have begin with ecam  *)
(* here, so that VmxProofs can be about the two.                           *)
(***************************************************************************)
EXTENDS Integers, FiniteSets

CONSTANTS
    Accesses,   \* the guest's instructions that access memory
    Hidden,     \* guest-physical addresses that exit
    Open,       \* guest-physical addresses that do not
    EcamPa      \* PciGetReservedSerialPortEcamPa, one of Hidden

\* rip: the instruction pointer; the same one may be another instruction in
\* another address space or code segment.
\* op0: the first operand: RAX (or a part of it), another register, or memory.
\* load: the instruction writes what it reads from memory into its first operand.
\* base: of the code segment. bits: the operand size of the mode it runs in.
\* db: the D/B bit of the stack segment.
\* paging: none, the four levels of IA-32e mode, or the older formats.
\* walk: the four entries found on the way to it, were the format IA-32e's
\* (after a large page, whatever is in the place of the next table).
Op0 == {"rax", "reg", "mem"}
GuestEntry == [present: BOOLEAN, large: BOOLEAN, to: Nat]

\* The processor has found the instruction on this walk: what it used is present.
Fetched(e) ==
    /\ e[1].present /\ e[2].present
    /\ e[2].large \/ (e[3].present /\ (e[3].large \/ e[4].present))

ASSUME AccessesAreSane ==
    /\ \A c \in Accesses :
          /\ c.rip \in Nat /\ c.op0 \in Op0 /\ c.load \in BOOLEAN
          /\ c.base \in Nat /\ c.bits \in {16, 32, 64} /\ c.db \in BOOLEAN
          /\ c.paging \in {"off", "long", "legacy"}
          /\ c.walk \in [1 .. 4 -> GuestEntry]
          /\ c.paging = "long" => Fetched(c.walk)
    /\ Hidden \subseteq Nat /\ Open \subseteq Nat /\ Hidden \cap Open = {}
    /\ EcamPa \in Hidden /\ EcamPa # 0

VARIABLES
    lastGuestRip,               \* the static variables of the handler
    guestOperandMemoryAddress,
    guestWantsToReadIntoRax,
    rax,        \* the guest's RAX: "own", "memory", or "MAX_DWORD" (the handler's)
    exit,       \* the access being handled, or NoExit
    ports,      \* history: instruction pointers that exited at EcamPa
    decoded     \* history: the last exit whose instruction was decoded

ecamVars == <<lastGuestRip, guestOperandMemoryAddress, guestWantsToReadIntoRax,
              rax, exit, ports, decoded>>
statics == <<lastGuestRip, guestOperandMemoryAddress, guestWantsToReadIntoRax>>

At(c, a) == [code |-> c, address |-> a]
NoExit == At([rip |-> 0], -1)
Exiting == exit.address # -1

---------------------------------------------------------------------------
(* Where the code is. A location is an entry's target and the level it ends *)
(* at (the offset within the page is the same for everybody).               *)

Nowhere == <<0, 0>>

\* Mutant: 2-MB pages are not looked for.
GuestWalkNoLarge(e) ==
    IF \A l \in 1 .. 4 : e[l].present THEN <<4, e[4].to>> ELSE Nowhere

\* MmuGetEntryPhysicalAddressFromPageTable: knows 4-KB and 2-MB pages.
GuestWalk(e) ==
    IF ~ (e[1].present /\ e[2].present /\ e[3].present) THEN Nowhere
    ELSE IF e[3].large THEN <<3, e[3].to>>
    ELSE IF e[4].present THEN <<4, e[4].to>>
    ELSE Nowhere

\* The processor has fetched the instruction, through 1-GB pages too.
ProcessorWalk(e) ==
    IF e[2].large THEN <<2, e[2].to>>
    ELSE IF e[3].large THEN <<3, e[3].to>>
    ELSE <<4, e[4].to>>

Location(c) ==
    IF c.paging = "off" THEN <<1, c.base + c.rip>> ELSE ProcessorWalk(c.walk)

\* The handler takes a 16-bit stack segment for real mode, ignores the code
\* segment, and walks every guest that pages as if it were in IA-32e mode.
HandlerLocation(c) ==
    IF ~ c.db \/ c.paging = "off" THEN <<1, c.rip>>
    ELSE IF c.paging = "long" THEN GuestWalk(c.walk)
    ELSE Nowhere

HandlerBits(c) == IF ~ c.db THEN 16 ELSE IF c.paging = "long" THEN 64 ELSE 32

\* Its bytes are where the handler looks for them and mean what it takes them for.
Found(c) == HandlerLocation(c) = Location(c) /\ HandlerBits(c) = c.bits

---------------------------------------------------------------------------

EcamInit ==
    /\ lastGuestRip = 0 /\ guestOperandMemoryAddress = 0
    /\ guestWantsToReadIntoRax = FALSE
    /\ rax = "own" /\ exit = NoExit /\ ports = {} /\ decoded = NoExit

\* The guest computes: RAX is its own again.
Compute ==
    /\ ~ Exiting
    /\ rax' = "own"
    /\ UNCHANGED <<statics, exit, ports, decoded>>

\* An access the EPT allows.
Access(c, a) ==
    /\ ~ Exiting /\ a \in Open
    /\ rax' = IF c.load /\ c.op0 = "rax" THEN "memory" ELSE rax
    /\ UNCHANGED <<statics, exit, ports, decoded>>

\* An access it does not allow.
Violation(c, a) ==
    /\ ~ Exiting /\ a \in Hidden
    /\ exit' = At(c, a)
    /\ ports' = IF a = EcamPa THEN ports \cup {c.rip} ELSE ports
    /\ UNCHANGED <<statics, rax, decoded>>

\* send_invalid_vendor, with the operand and the destination it has, and
\* VmxJumpToNextInstr.
SendInvalidVendor(address, wants) ==
    /\ rax' = IF address = EcamPa /\ wants THEN "MAX_DWORD" ELSE rax
    /\ exit' = NoExit
    /\ UNCHANGED ports

\* Whether distorm reports RAX as the first operand: of the instruction that
\* exited, or of whatever bytes the handler took for it.
WantsRax(wants) == Found(exit.code) => wants = (exit.code.op0 = "rax")

\* Mutant: the operand's address is not read anew.
EptViolationOldOperand ==
    /\ Exiting /\ exit.code.rip # lastGuestRip
    /\ lastGuestRip' = exit.code.rip /\ decoded' = exit
    /\ guestOperandMemoryAddress' =
         IF guestOperandMemoryAddress = 0 THEN exit.address ELSE guestOperandMemoryAddress
    /\ guestWantsToReadIntoRax' \in {w \in BOOLEAN : WantsRax(w)}
    /\ SendInvalidVendor(guestOperandMemoryAddress', guestWantsToReadIntoRax')

\* Mutant: a register is added to the operand's address.
EptViolationWithR9 ==
    /\ Exiting /\ exit.code.rip # lastGuestRip
    /\ lastGuestRip' = exit.code.rip /\ decoded' = exit
    /\ guestOperandMemoryAddress' = exit.address + 3
    /\ guestWantsToReadIntoRax' \in {w \in BOOLEAN : WantsRax(w)}
    /\ SendInvalidVendor(guestOperandMemoryAddress', guestWantsToReadIntoRax')

EptViolation ==
    /\ Exiting /\ exit.code.rip # lastGuestRip
    /\ lastGuestRip' = exit.code.rip /\ decoded' = exit
    /\ guestOperandMemoryAddress' = exit.address
    /\ guestWantsToReadIntoRax' \in {w \in BOOLEAN : WantsRax(w)}
    /\ SendInvalidVendor(guestOperandMemoryAddress', guestWantsToReadIntoRax')

\* The same instruction pointer exits again: nothing is decoded.
EptViolationAgain ==
    /\ Exiting /\ exit.code.rip = lastGuestRip
    /\ SendInvalidVendor(guestOperandMemoryAddress, guestWantsToReadIntoRax)
    /\ UNCHANGED <<statics, decoded>>

EcamNext ==
    \/ Compute
    \/ \E c \in Accesses : \/ \E a \in Open : Access(c, a)
                           \/ \E a \in Hidden : Violation(c, a)
    \/ EptViolation \/ EptViolationAgain

EcamSpec == EcamInit /\ [][EcamNext]_ecamVars

---------------------------------------------------------------------------
(* Properties *)

EcamTypeOK ==
    /\ lastGuestRip \in Nat
    /\ guestOperandMemoryAddress \in {0} \cup Hidden
    /\ guestWantsToReadIntoRax \in BOOLEAN
    /\ rax \in {"own", "memory", "MAX_DWORD"}
    /\ {exit, decoded} \subseteq {NoExit} \cup {At(c, a) : c \in Accesses, a \in Hidden}
    /\ ports \subseteq {c.rip : c \in Accesses}

Handled == Exiting /\ exit' = NoExit

\* No guest that leaves the port's first register alone ever finds MAX_DWORD in its
\* RAX: the answer is given only at an instruction pointer that has read the port,
\* however many other exits, code segments and address spaces came between.
AnswerComesFromThePort ==
    [][Handled /\ rax' # rax => exit.code.rip \in ports]_ecamVars

\* A flat guest: 16- or 32-bit code without paging, or 64-bit code with 4-KB or
\* 2-MB pages, each with the stack segment that goes with it.
Flat(c) ==
    /\ c.base = 0 /\ c.db = (c.bits # 16)
    /\ c.paging = IF c.bits = 64 THEN "long" ELSE "off"
    /\ c.bits = 64 => ~ c.walk[2].large

\* The device is invisible to a flat guest, unless its instruction pointer is that
\* of another access decoded last: a read of the first register into RAX gives
\* MAX_DWORD, and no other exit changes RAX, whatever other code and address
\* spaces exited before.
Fresh == exit.code.rip = lastGuestRip => exit = decoded
DeviceIsInvisible ==
    [][Handled /\ Flat(exit.code) /\ Fresh =>
         rax' = IF exit.address = EcamPa /\ exit.code.op0 = "rax" THEN "MAX_DWORD" ELSE rax]_ecamVars
=============================================================================
