------------------------------- MODULE VmExit -------------------------------
(***************************************************************************)
(* Which guest instructions leave the guest and what becomes of them: the  *)
(* controls, masks and bitmaps VmxSetVmcsVmxControls writes into the VMCS   *)
(* (src/minihv/vmx.c), the exit stub that saves and restores the guest's   *)
(* registers (_guest.asm, _utils.asm), VmxVmExitHandler, which has handlers *)
(* for some exit reasons and leaves VMX operation at every other, and the  *)
(* handlers. The processor's side is what the Intel manual says of VM      *)
(* entries and exits.                                                      *)
(*                                                                         *)
(* Handlers modelled in detail elsewhere: the E820 answer (E820), EPT       *)
(* violations (EcamExit); here they are the instruction pointer they leave. *)
(* The handlers for I/O instructions and for the preemption timer never    *)
(* run: no control that causes those exits is set.                         *)
(***************************************************************************)
EXTENDS GuestCode

CONSTANT Machines   \* the processors it may run on

\* VM-execution, VM-entry and VM-exit controls, by name.
ExitControl ==      \* the control that makes an operation exit
    [hlt |-> "hltExiting", in |-> "ioExiting", rdtsc |-> "rdtscExiting",
     invlpg |-> "invlpgExiting", loadCr3 |-> "cr3LoadExiting",
     storeCr3 |-> "cr3StoreExiting", cr8 |-> "cr8Exiting",
     interrupt |-> "externalInterruptExiting", nmi |-> "nmiExiting"]
Default1 == {"fixedBits", "cr3LoadExiting", "cr3StoreExiting", "loadDebug", "saveDebug"}
Asked == {"secondary", "msrBitmaps", "ept", "rdtscp", "invpcid", "xsaves",
          "unrestrictedGuest", "entryLoadEfer", "saveEfer", "loadEfer", "host64"}
ControlNames == {ExitControl[o] : o \in DOMAIN ExitControl} \cup Default1 \cup Asked

CrBits == {"paging", "fixed", "osxsave", "reserved"}

\* may: the controls the processor can set, the default1 class among them.
\* trueMust: those of that class it cannot clear, all of them where bit 55 of
\* IA32_VMX_BASIC is clear.
ASSUME ConstantsAreSane ==
    /\ Machines \subseteq [may: SUBSET ControlNames, trueMust: SUBSET Default1, xsave: BOOLEAN]
    /\ \A m \in Machines : Default1 \subseteq m.may

VARIABLES
    machine,    \* the processor
    ctls,       \* the controls in the VMCS
    frame,      \* the PROCESSOR_STATE the exit stub has saved
    mode,       \* "setup", "launch", "guest", "exit" (in the handler), "resume",
                \* "refused" (VM entry failed), "off" (VMXOFF, HLT), "reset"
    instr,      \* the guest's instruction
    at,         \* its RIP: "here", the "next" instruction, "oldVector", "fault"
    osxsave,    \* its CR4.OSXSAVE
    xcr0,       \* XCR0, which host and guest share
    answer      \* the registers the last CPUID of the guest has set

vars == <<machine, ctls, frame, mode, instr, at, osxsave, xcr0, answer>>
guestVars == <<instr, at, osxsave, xcr0, answer>>

Stopped == {"off", "reset"}

---------------------------------------------------------------------------
(* The VMCS *)

\* Mutant: starts from no control at all.
CheckExecutionControlsZero(m) == {}

\* The controls the processor may set and, for the default settings, must set.
CheckExecutionControls(m) == m.may \cap Default1

Cleared == {"cr3LoadExiting", "cr3StoreExiting", "cr8Exiting", "loadDebug"}

Controls(m) == (CheckExecutionControls(m) \ Cleared) \cup Asked

\* What VM entry checks.
Legal(m, c) == m.trueMust \subseteq c /\ c \subseteq m.may

\* IA32_VMX_CR0_FIXED0, IA32_VMX_CR4_FIXED0 and their FIXED1.
Fixed0(op) == IF op = "movcr0" THEN {"paging", "fixed"} ELSE {"fixed"}
Fixed1(m) == {"paging", "fixed"} \cup (IF m.xsave THEN {"osxsave"} ELSE {})

\* Mutant: the guest may not switch paging and protection.
FreedNone == {}

\* The bits an unrestricted guest may change although they are fixed.
Freed == {"paging"}

CrReadShadow(op, m) == (Fixed0(op) \ Freed) \cap Fixed1(m)
CrMask(op, m) == (Fixed0(op) \ Freed) \cup (CrBits \ Fixed1(m))

\* The bits the guest writes.
Written(i) ==
    CASE i.arg = "plain"    -> {"paging", "fixed"}
      [] i.arg = "real"     -> {"fixed"}
      [] i.arg = "osxsave"  -> {"paging", "fixed", "osxsave"}
      [] i.arg = "drops"    -> {"paging"}
      [] i.arg = "reserved" -> {"paging", "fixed", "reserved"}
      [] OTHER              -> {}

---------------------------------------------------------------------------
(* The processor in the guest *)

\* Both MSR bitmaps are zero: only what they do not cover exits.
MsrExits(i) == "msrBitmaps" \notin ctls \/ i.arg = "unlisted"

CrExits(i) ==
    LET mask == CrMask(i.op, machine)
    IN  Written(i) \cap mask # CrReadShadow(i.op, machine) \cap mask

\* #UD for XSETBV comes before the exit, a bad value for XCR0 would come after.
Exits(i) ==
    \/ i.op \in {"cpuid", "vmcall", "ecam", "taskSwitch", "tripleFault", "init",
                 "getsec", "invd", "vmx"}
    \/ i.op = "xsetbv" /\ osxsave
    \/ i.op = "msr" /\ MsrExits(i)
    \/ i.op \in {"movcr0", "movcr4"} /\ CrExits(i)
    \/ i.op \in DOMAIN ExitControl /\ ExitControl[i.op] \in ctls

Init ==
    /\ machine \in Machines
    /\ ctls = {} /\ frame = NoAnswer /\ mode = "setup"
    /\ instr = Reset /\ at = "next"
    /\ osxsave = FALSE /\ xcr0 = "x87" /\ answer = NoAnswer

\* The guest is at its next instruction. It asks CPUID before it sets OSXSAVE.
FetchNext(i) ==
    /\ mode = "guest" /\ at # "here"
    /\ i.arg = "osxsave" => machine.xsave
    /\ instr' = i /\ at' = "here"
    /\ UNCHANGED <<machine, ctls, frame, mode, osxsave, xcr0, answer>>

\* It executes it and does not exit.
Execute ==
    /\ mode = "guest" /\ at = "here" /\ ~ Exits(instr)
    /\ at' = IF instr.op = "xsetbv" THEN "fault" ELSE "next"
    /\ osxsave' = IF instr.op = "movcr4" THEN "osxsave" \in Written(instr) ELSE osxsave
    /\ UNCHANGED <<machine, ctls, frame, mode, instr, xcr0, answer>>

\* It exits: save_proc_state.
SaveGuestRegisters ==
    /\ mode = "guest" /\ at = "here" /\ Exits(instr)
    /\ frame' = answer
    /\ mode' = "exit"
    /\ UNCHANGED <<machine, ctls, guestVars>>

---------------------------------------------------------------------------
(* The hypervisor *)

VmxSetVmcsVmxControls ==
    /\ mode = "setup"
    /\ ctls' = Controls(machine)
    /\ mode' = "launch"
    /\ UNCHANGED <<machine, frame, guestVars>>

Vmlaunch ==
    /\ mode = "launch"
    /\ mode' = IF Legal(machine, ctls) THEN "guest" ELSE "refused"
    /\ UNCHANGED <<machine, ctls, frame, guestVars>>

Handling(op) == mode = "exit" /\ instr.op = op

\* VmxInit sets CR4.OSXSAVE where the processor has it; the exit restores it.
HostOsxsave == machine.xsave

\* Mutant: the guest sees the host's OSXSAVE.
CpuidResultOfHost(i) ==
    [osxsave    |-> i.arg = "features" /\ HostOsxsave,
     hypervisor |-> i.arg = "features" /\ ~ i.upper,
     interface  |-> i.arg = "interface" /\ ~ i.upper]

\* EAX is compared as a DWORD for OSXSAVE and RAX as a QWORD for the rest.
CpuidResult(i) ==
    [osxsave    |-> i.arg = "features" /\ osxsave,
     hypervisor |-> i.arg = "features" /\ ~ i.upper,
     interface  |-> i.arg = "interface" /\ ~ i.upper]

VmxBasicExitReasonCpuid ==
    /\ Handling("cpuid")
    /\ frame' = CpuidResult(instr)
    /\ at' = "next" /\ mode' = "resume"
    /\ UNCHANGED <<machine, ctls, instr, osxsave, xcr0, answer>>

XcrSupportedValue(i) == i.arg # "otherXcr" /\ ~ i.upper

\* XSETBV in the host raises #GP or #UD for what the guest may not do; the
\* host has no descriptor table for exceptions during an exit.
XsetbvFaults(i) == ~ HostOsxsave \/ i.arg \in {"illegal", "otherXcr"}

\* Mutant: does not go past the instruction.
XsetbvStays == "here"

XsetbvLeaves == "next"

VmxBasicExitReasonXsetbv ==
    /\ Handling("xsetbv")
    /\ IF XcrSupportedValue(instr) /\ XsetbvFaults(instr)
       THEN mode' = "reset" /\ UNCHANGED <<at, xcr0>>
       ELSE /\ mode' = "resume" /\ at' = XsetbvLeaves
            /\ xcr0' = IF XcrSupportedValue(instr) THEN instr.arg ELSE xcr0
    /\ UNCHANGED <<machine, ctls, frame, instr, osxsave, answer>>

\* With a 32-bit stack segment nothing is done, not even the jump.
VmcallLeaves(i) ==
    CASE i.arg = "protected"             -> "here"
      [] i.arg = "e820" /\ ~ i.upper     -> "next"
      [] OTHER                           -> "oldVector"

VmxBasicExitReasonVmcall ==
    /\ Handling("vmcall")
    /\ at' = VmcallLeaves(instr)
    /\ mode' = "resume"
    /\ UNCHANGED <<machine, ctls, frame, instr, osxsave, xcr0, answer>>

VmxBasicExitReasonEptViolation ==
    /\ Handling("ecam")
    /\ at' = "next" /\ mode' = "resume"
    /\ UNCHANGED <<machine, ctls, frame, instr, osxsave, xcr0, answer>>

\* VmxOff, and CR3 = 0: the next instruction of the host cannot be fetched.
VmxBasicExitReasonTaskSwitch ==
    /\ Handling("taskSwitch")
    /\ mode' = "reset"
    /\ UNCHANGED <<machine, ctls, frame, guestVars>>

\* default: __vmx_off, return to the stub, HLT.
NoHandler ==
    /\ mode = "exit"
    /\ instr.op \notin {"cpuid", "xsetbv", "vmcall", "ecam", "taskSwitch"}
    /\ mode' = "off"
    /\ UNCHANGED <<machine, ctls, frame, guestVars>>

\* RestoreRegisters and VMRESUME, which checks the controls again.
RestoreGuestRegistersAndResume ==
    /\ mode = "resume"
    /\ answer' = frame
    /\ mode' = IF Legal(machine, ctls) THEN "guest" ELSE "refused"
    /\ UNCHANGED <<machine, ctls, frame, instr, at, osxsave, xcr0>>

VmxVmExitHandler ==
    \/ VmxBasicExitReasonCpuid \/ VmxBasicExitReasonXsetbv \/ VmxBasicExitReasonVmcall
    \/ VmxBasicExitReasonEptViolation \/ VmxBasicExitReasonTaskSwitch \/ NoHandler

Running ==
    \/ VmxSetVmcsVmxControls \/ Vmlaunch \/ Execute \/ SaveGuestRegisters
    \/ VmxVmExitHandler \/ RestoreGuestRegistersAndResume

Next == (\E i \in Code : FetchNext(i)) \/ Running

Spec == Init /\ [][Next]_vars

\* Neither the processor nor the handler stops between two instructions.
FairSpec == Spec /\ WF_vars(Running)

---------------------------------------------------------------------------
TypeOK ==
    /\ machine \in Machines
    /\ ctls \subseteq ControlNames
    /\ frame \in Answers /\ answer \in Answers
    /\ mode \in {"setup", "launch", "guest", "exit", "resume", "refused", "off", "reset"}
    /\ instr \in Code \cup {Reset}
    /\ at \in {"here", "next", "oldVector", "fault"}
    /\ osxsave \in BOOLEAN /\ xcr0 \in {"x87", "avx"}

\* A processor that has what is asked for, and can clear what is cleared, never
\* refuses a VM entry.
ControlsAreLegal ==
    Asked \subseteq machine.may /\ machine.trueMust \cap Cleared = {} => mode # "refused"

\* The hypervisor leaves VMX operation, or brings the machine down, only at an
\* instruction it does not support: no control, mask or bitmap makes another
\* one exit without a handler, and no handler faults on it.
OrdinaryGuestIsNotStopped == mode \in Stopped => ~ Ordinary(instr)

\* Exits, saved registers, handlers and VMRESUME together look to the guest like
\* a processor that executes one instruction after the other.
Processor == INSTANCE GuestProcessor WITH
    answer <- IF mode \in {"exit", "resume"} THEN frame ELSE answer,
    on     <- mode \notin Stopped

ImplementsProcessor == Processor!Spec

\* Every instruction that the hypervisor supports is completed: no handler
\* resumes at it for ever.
GuestGetsOn == (at = "here" /\ Completes(instr)) ~> at # "here"
=============================================================================
