----------------------------- MODULE VmxProofs -----------------------------
(***************************************************************************)
(* What happens in VMX operation.                                          *)
(*                                                                         *)
(* VmExit for every guest and every processor: its types, that no VM entry *)
(* is refused on a processor that has what is asked for, that an ordinary  *)
(* instruction never ends the guest, and that it implements GuestProcessor. *)
(* Then EcamExit, the one handler with a memory of its own, for any code,  *)
(* any addresses that exit and any port. Last VmxStart, how VMX operation  *)
(* is entered, for any listing of processors and any set of instructions   *)
(* that fail.                                                              *)
(***************************************************************************)
EXTENDS VmExit, EcamExit, VmxStart, TLAPS

\* What the handlers rely on: the controls are those of VmxSetVmcsVmxControls;
\* an exit is at the instruction that caused it, with its registers saved.
Inv ==
    /\ TypeOK
    /\ osxsave => machine.xsave
    /\ instr.arg = "osxsave" => machine.xsave
    /\ mode # "setup" => ctls = Controls(machine)
    /\ mode = "exit" => at = "here" /\ Exits(instr) /\ frame = answer
    /\ mode \in Stopped => at = "here" /\ ~ Ordinary(instr)
    /\ mode = "refused" => ~ Legal(machine, Controls(machine))

\* The start of the guest is no instruction the handlers tell apart.
LEMMA ResetIsNoInstruction ==
    Reset.op = "init" /\ Reset.arg = "none" /\ ~ Ordinary(Reset)
  BY DEF Reset, Ordinary

\* No control that would make an ordinary operation exit is in the VMCS.
LEMMA NoExitControl ==
    ASSUME NEW m \in Machines, NEW o \in DOMAIN ExitControl
    PROVE  ExitControl[o] \notin Controls(m)
  BY DEF ExitControl, Controls, CheckExecutionControls, Cleared, Asked, Default1

\* A write of a control register that changes only what the guest owns does
\* not exit.
LEMMA OrdinaryWritesDoNotExit ==
    ASSUME NEW i \in Code, i.op \in {"movcr0", "movcr4"}, Ordinary(i),
           i.arg = "osxsave" => machine.xsave
    PROVE  ~ CrExits(i)
<1> DEFINE mask == CrMask(i.op, machine)
<1>1. i.arg \in {"plain", "real", "osxsave"}
  BY CodeIsInstructions DEF Ordinary, CrArgs
<1>2. Fixed0(i.op) \ Freed = {"fixed"}
  BY DEF Fixed0, Freed
<1>3. CrReadShadow(i.op, machine) = {"fixed"}
  BY <1>2 DEF CrReadShadow, Fixed1
<1>4. mask \cap {"paging"} = {} /\ "fixed" \in mask /\ (machine.xsave => "osxsave" \notin mask)
  BY <1>2 DEF CrMask, Fixed1, CrBits
<1>5. Written(i) \cap mask = {"fixed"}
  <2>1. CASE i.arg = "plain"
    BY <2>1, <1>4 DEF Written
  <2>2. CASE i.arg = "real"
    BY <2>2, <1>4 DEF Written
  <2>3. CASE i.arg = "osxsave"
    BY <2>3, <1>4 DEF Written
  <2> QED
    BY <1>1, <2>1, <2>2, <2>3
<1>6. CrReadShadow(i.op, machine) \cap mask = {"fixed"}
  BY <1>3, <1>4
<1> QED
  BY <1>5, <1>6 DEF CrExits

HasHandler == {"cpuid", "xsetbv", "vmcall", "ecam", "taskSwitch"}

\* What exits without a handler is not an ordinary instruction.
LEMMA ExitsHaveHandlers ==
    ASSUME Inv, mode = "exit", instr.op \notin HasHandler
    PROVE  ~ Ordinary(instr)
<1>1. SUFFICES ASSUME Ordinary(instr)
               PROVE  FALSE
  OBVIOUS
<1>2. instr \in Code
  BY <1>1, ResetIsNoInstruction DEF Inv, TypeOK
<1>3. Exits(instr) /\ ctls = Controls(machine) /\ machine \in Machines
  BY DEF Inv, TypeOK
<1>4. instr.op \notin {"cpuid", "vmcall", "ecam", "taskSwitch", "tripleFault", "init",
                       "getsec", "invd", "vmx", "xsetbv"}
  BY <1>1 DEF Ordinary, HasHandler
<1>5. ~ (instr.op = "msr" /\ MsrExits(instr))
  BY <1>1, <1>3 DEF Ordinary, MsrExits, Controls, Asked
<1>6. ~ (instr.op \in {"movcr0", "movcr4"} /\ CrExits(instr))
  BY <1>1, <1>2, OrdinaryWritesDoNotExit DEF Inv
<1>7. ~ (instr.op \in DOMAIN ExitControl /\ ExitControl[instr.op] \in ctls)
  BY <1>3, NoExitControl
<1> QED
  BY <1>3, <1>4, <1>5, <1>6, <1>7 DEF Exits

\* What does not exit is an ordinary instruction (or an XSETBV that faults).
LEMMA WhatStaysInIsOrdinary ==
    ASSUME ~ Exits(instr), instr.op # "xsetbv"
    PROVE  Ordinary(instr)
<1>1. instr.op \notin {"taskSwitch", "tripleFault", "init", "getsec", "invd", "vmx"}
  BY DEF Exits
<1>2. instr.op = "msr" => instr.arg # "unlisted"
  BY DEF Exits, MsrExits
<1>3. ASSUME instr.op \in {"movcr0", "movcr4"}, instr.arg \in {"drops", "reserved"}
      PROVE  FALSE
  <2> DEFINE mask == CrMask(instr.op, machine)
  <2>1. Fixed0(instr.op) \ Freed = {"fixed"}
    BY DEF Fixed0, Freed
  <2>2. CrReadShadow(instr.op, machine) = {"fixed"}
    BY <2>1 DEF CrReadShadow, Fixed1
  <2>3. "fixed" \in mask /\ "reserved" \in mask
    BY <2>1 DEF CrMask, Fixed1, CrBits
  <2>4. Written(instr) \cap mask # {"fixed"}
    BY <1>3, <2>3 DEF Written
  <2>5. CrExits(instr)
    BY <2>2, <2>3, <2>4 DEF CrExits
  <2> QED
    BY <1>3, <2>5 DEF Exits
<1> QED
  BY <1>1, <1>2, <1>3 DEF Ordinary

LEMMA InvInit == Init => Inv
<1> SUFFICES ASSUME Init PROVE Inv
  OBVIOUS
<1> USE DEF Init
<1>1. NoAnswer \in Answers
  BY DEF NoAnswer, Answers
<1>2. TypeOK
  BY <1>1 DEF TypeOK
<1>3. osxsave => machine.xsave
  OBVIOUS
<1>4. instr.arg = "osxsave" => machine.xsave
  BY ResetIsNoInstruction
<1> QED
  BY <1>2, <1>3, <1>4 DEF Inv, Stopped

\* XSETBV faults in the host only at a value the guest must not write.
LEMMA XsetbvOutcome ==
    ASSUME Inv, Handling("xsetbv")
    PROVE  /\ instr \in Code /\ instr.arg \in XsetbvArgs /\ HostOsxsave /\ osxsave
           /\ XcrSupportedValue(instr) /\ XsetbvFaults(instr) => ~ Ordinary(instr)
           /\ XcrSupportedValue(instr) /\ ~ XsetbvFaults(instr) =>
                ~ instr.upper /\ instr.arg \in {"x87", "avx"}
<1>1. instr \in Code /\ instr.op = "xsetbv"
  BY ResetIsNoInstruction DEF Inv, TypeOK, Handling
<1>2. instr.arg \in XsetbvArgs
  BY <1>1, CodeIsInstructions
<1>3. osxsave
  BY <1>1 DEF Inv, Handling, Exits, ExitControl
<1>4. HostOsxsave
  BY <1>3 DEF Inv, HostOsxsave
<1> QED
  BY <1>1, <1>2, <1>3, <1>4 DEF XcrSupportedValue, XsetbvFaults, Ordinary, XsetbvArgs

\* CPUID answers with flags.
LEMMA CpuidAnswers ==
    CpuidResult(instr) \in Answers
<1>1. /\ (instr.arg = "features" /\ osxsave) \in BOOLEAN
      /\ (instr.arg = "features" /\ ~ instr.upper) \in BOOLEAN
      /\ (instr.arg = "interface" /\ ~ instr.upper) \in BOOLEAN
  OBVIOUS
<1> QED
  BY <1>1 DEF CpuidResult, Answers

LEMMA InvNext == Inv /\ [Next]_vars => Inv'
<1> SUFFICES ASSUME Inv, [Next]_vars PROVE Inv'
  OBVIOUS
<1>1. ASSUME NEW i \in Code, FetchNext(i) PROVE Inv'
  BY <1>1 DEF Inv, TypeOK, FetchNext, Stopped
<1>2. CASE VmxSetVmcsVmxControls
  <2>1. Controls(machine) \subseteq ControlNames
    BY DEF Controls, CheckExecutionControls, ControlNames
  <2> QED
    BY <1>2, <2>1 DEF Inv, TypeOK, VmxSetVmcsVmxControls, guestVars, Stopped
<1>3. CASE Vmlaunch
  BY <1>3 DEF Inv, TypeOK, Vmlaunch, guestVars, Stopped
<1>4. CASE Execute
  <2> USE <1>4 DEF Execute
  <2>1. osxsave' \in BOOLEAN
    <3>1. CASE instr.op = "movcr4"
      <4>1. CASE "osxsave" \in Written(instr)
        BY <3>1, <4>1
      <4>2. CASE "osxsave" \notin Written(instr)
        BY <3>1, <4>2
      <4> QED
        BY <4>1, <4>2
    <3>2. CASE instr.op # "movcr4"
      BY <3>2 DEF Inv, TypeOK
    <3> QED
      BY <3>1, <3>2
  <2>2. TypeOK'
    BY <2>1 DEF Inv, TypeOK
  <2>3. osxsave' => machine'.xsave
    <3>1. CASE instr.op = "movcr4"
      <4>1. instr \in Code
        BY <3>1, ResetIsNoInstruction DEF Inv, TypeOK
      <4>2. instr.arg \in CrArgs
        BY <3>1, <4>1, CodeIsInstructions
      <4>3. "osxsave" \in Written(instr) => instr.arg = "osxsave"
        BY <4>2 DEF Written, CrArgs
      <4> QED
        BY <3>1, <4>3 DEF Inv
    <3>2. CASE instr.op # "movcr4"
      BY <3>2 DEF Inv
    <3> QED
      BY <3>1, <3>2
  <2> QED
    BY <2>2, <2>3 DEF Inv, Stopped
<1>5. CASE SaveGuestRegisters
  <2>1. Exits(instr)'
    BY <1>5 DEF SaveGuestRegisters, guestVars, Exits, MsrExits, CrExits
  <2> QED
    BY <1>5, <2>1 DEF Inv, TypeOK, SaveGuestRegisters, guestVars, Stopped
<1>6. CASE VmxBasicExitReasonCpuid
  BY <1>6, CpuidAnswers DEF Inv, TypeOK, VmxBasicExitReasonCpuid, Handling, Stopped
<1>7. CASE VmxBasicExitReasonXsetbv
  BY <1>7, XsetbvOutcome
  DEF Inv, TypeOK, VmxBasicExitReasonXsetbv, XsetbvLeaves, Handling, Stopped
<1>8. CASE VmxBasicExitReasonVmcall
  <2>1. VmcallLeaves(instr) \in {"here", "next", "oldVector"}
    BY DEF VmcallLeaves
  <2> QED
    BY <1>8, <2>1 DEF Inv, TypeOK, VmxBasicExitReasonVmcall, Handling, Stopped
<1>9. CASE VmxBasicExitReasonEptViolation
  BY <1>9 DEF Inv, TypeOK, VmxBasicExitReasonEptViolation, Handling, Stopped
<1>10. CASE VmxBasicExitReasonTaskSwitch
  <2>1. ~ Ordinary(instr)
    BY <1>10 DEF VmxBasicExitReasonTaskSwitch, Handling, Ordinary
  <2> QED
    BY <1>10, <2>1
    DEF Inv, TypeOK, VmxBasicExitReasonTaskSwitch, Handling, guestVars, Stopped
<1>11. CASE NoHandler
  <2>1. ~ Ordinary(instr)
    BY <1>11, ExitsHaveHandlers DEF NoHandler, HasHandler
  <2> QED
    BY <1>11, <2>1 DEF Inv, TypeOK, NoHandler, guestVars, Stopped
<1>12. CASE RestoreGuestRegistersAndResume
  BY <1>12 DEF Inv, TypeOK, RestoreGuestRegistersAndResume, Stopped
<1>13. CASE UNCHANGED vars
  BY <1>13 DEF Inv, TypeOK, vars, Stopped, Exits, MsrExits, CrExits
<1> QED
  BY <1>1, <1>2, <1>3, <1>4, <1>5, <1>6, <1>7, <1>8, <1>9, <1>10, <1>11, <1>12, <1>13
  DEF Next, Running, VmxVmExitHandler

LEMMA InvHolds == Spec => []Inv
  BY InvInit, InvNext, PTL DEF Spec

---------------------------------------------------------------------------
\* The state of the exit path is what the code says it is, whatever the guest.
THEOREM TypesAreKept == Spec => []TypeOK
<1>1. Inv => TypeOK
  BY DEF Inv
<1> QED
  BY <1>1, InvHolds, PTL

\* A processor with the controls VmxSetVmcsVmxControls asks for, none of which
\* it refuses to clear, enters the guest at VMLAUNCH and at every VMRESUME.
THEOREM GuestIsEntered == Spec => []ControlsAreLegal
<1>1. ASSUME Inv, Asked \subseteq machine.may, machine.trueMust \cap Cleared = {}
      PROVE  mode # "refused"
  <2>1. machine.trueMust \subseteq Default1 /\ Default1 \subseteq machine.may
    BY <1>1, ConstantsAreSane DEF Inv, TypeOK
  <2>2. Legal(machine, Controls(machine))
    BY <1>1, <2>1 DEF Legal, Controls, CheckExecutionControls
  <2> QED
    BY <1>1, <2>2 DEF Inv
<1>2. Inv => ControlsAreLegal
  BY <1>1 DEF ControlsAreLegal
<1> QED
  BY <1>2, InvHolds, PTL

\* The default case of VmxVmExitHandler, the faults of its handlers and the
\* restart at a task switch are only ever reached from unsupported instructions.
THEOREM OrdinaryGuestRunsOn == Spec => []OrdinaryGuestIsNotStopped
<1>1. Inv => OrdinaryGuestIsNotStopped
  BY DEF Inv, OrdinaryGuestIsNotStopped
<1> QED
  BY <1>1, InvHolds, PTL

---------------------------------------------------------------------------
(* The refinement *)

On == mode \notin Stopped
Registers == IF mode \in {"exit", "resume"} THEN frame ELSE answer

LEMMA InitRefines == Init => Processor!Init
<1> SUFFICES ASSUME Init PROVE Processor!Init
  OBVIOUS
<1>1. On = TRUE /\ Registers = NoAnswer
  BY DEF Init, On, Registers, Stopped
<1>2. instr = Reset /\ at = "next" /\ osxsave = FALSE /\ xcr0 = "x87"
  BY DEF Init
<1> QED
  BY <1>1, <1>2
  DEF Processor!Init, Processor!Reset, Processor!NoAnswer, Reset, NoAnswer, On, Registers

\* What the guest cannot see leaves the abstract processor where it is.
LEMMA Stutters ==
    ASSUME UNCHANGED <<instr, at, osxsave, xcr0>>, On' = On, Registers' = Registers
    PROVE  UNCHANGED Processor!vars
  BY DEF Processor!vars, On, Registers

\* Instructions without a result the model keeps.
LEMMA PlainRefines ==
    ASSUME On = TRUE, On' = On, Registers' = Registers, at = "here", at' = "next",
           UNCHANGED <<instr, osxsave, xcr0>>, Ordinary(instr),
           instr.op \notin {"cpuid", "xsetbv", "vmcall", "movcr4"}
    PROVE  Processor!Next
<1>1. Processor!Plain
  BY DEF Processor!Plain, Processor!Retire, Processor!Ordinary, Ordinary, On, Registers
<1> QED
  BY <1>1 DEF Processor!Next

\* Leaving VMX operation, or a reset, at an instruction that is not supported.
LEMMA StopRefines ==
    ASSUME On = TRUE, On' = FALSE, Registers' = Registers, at = "here",
           UNCHANGED <<instr, at, osxsave, xcr0>>, ~ Ordinary(instr)
    PROVE  Processor!Next
<1>1. Processor!Stop
  BY DEF Processor!Stop, Processor!Ordinary, Ordinary, On, Registers
<1> QED
  BY <1>1 DEF Processor!Next

LEMMA NextRefines == Inv /\ Inv' /\ [Next]_vars => [Processor!Next]_(Processor!vars)
<1> SUFFICES ASSUME Inv, Inv', [Next]_vars
             PROVE  Processor!Next \/ UNCHANGED Processor!vars
  OBVIOUS
<1>1. ASSUME NEW i \in Code, FetchNext(i) PROVE Processor!Fetch(i)
  <2>1. On = TRUE /\ On' = On /\ Registers' = Registers
    BY <1>1 DEF FetchNext, On, Registers, Stopped
  <2> QED
    BY <1>1, <2>1 DEF FetchNext, Processor!Fetch, On, Registers
<1>2. CASE VmxSetVmcsVmxControls \/ Vmlaunch \/ SaveGuestRegisters
  <2>1. On' = On /\ Registers' = Registers /\ UNCHANGED <<instr, at, osxsave, xcr0>>
    BY <1>2
    DEF VmxSetVmcsVmxControls, Vmlaunch, SaveGuestRegisters, guestVars, On, Registers, Stopped
  <2> QED
    BY <2>1, Stutters
<1>3. CASE Execute
  <2>1. On = TRUE /\ On' = On /\ Registers' = Registers /\ at = "here" /\ ~ Exits(instr)
    BY <1>3 DEF Execute, On, Registers, Stopped
  <2>2. instr.op # "xsetbv" => Ordinary(instr)
    BY <2>1, WhatStaysInIsOrdinary
  <2>3. CASE instr.op = "xsetbv"
    <3>1. osxsave = FALSE
      BY <2>1, <2>3 DEF Exits, Inv, TypeOK
    <3>2. at' = "fault" /\ UNCHANGED <<instr, osxsave, xcr0>>
      BY <1>3, <2>3 DEF Execute
    <3>3. Processor!Xsetbv
      BY <2>1, <2>3, <3>1, <3>2 DEF Processor!Xsetbv, Processor!Retire, On, Registers
    <3> QED
      BY <3>3 DEF Processor!Next
  <2>4. CASE instr.op = "movcr4"
    <3>1. instr.arg \in CrArgs
      BY <2>4, CodeIsInstructions, ResetIsNoInstruction DEF Inv, TypeOK
    <3>2. "osxsave" \in Written(instr) <=> instr.arg = "osxsave"
      BY <3>1 DEF Written, CrArgs
    <3>3. osxsave' = (instr.arg = "osxsave") /\ at' = "next" /\ UNCHANGED <<instr, xcr0>>
      BY <1>3, <2>4, <3>2 DEF Execute
    <3>4. Processor!MovCr4
      BY <2>1, <2>2, <2>4, <3>3
      DEF Processor!MovCr4, Processor!Retire, Processor!Ordinary, Ordinary, On, Registers
    <3> QED
      BY <3>4 DEF Processor!Next
  <2>5. CASE instr.op \notin {"xsetbv", "movcr4"}
    <3>1. instr.op \notin {"cpuid", "vmcall"}
      BY <2>1 DEF Exits
    <3>2. at' = "next" /\ UNCHANGED <<instr, osxsave, xcr0>>
      BY <1>3, <2>5 DEF Execute
    <3> QED
      BY <2>1, <2>2, <2>5, <3>1, <3>2, PlainRefines
  <2> QED
    BY <2>3, <2>4, <2>5
<1>4. CASE VmxBasicExitReasonCpuid
  <2>1. On = TRUE /\ On' = On /\ Registers' = CpuidResult(instr)
    BY <1>4 DEF VmxBasicExitReasonCpuid, Handling, On, Registers, Stopped
  <2>2. at = "here"
    BY <1>4 DEF VmxBasicExitReasonCpuid, Handling, Inv
  <2> QED
    BY <1>4, <2>1, <2>2
    DEF VmxBasicExitReasonCpuid, Handling, CpuidResult, Processor!Next, Processor!Cpuid,
        Processor!Retire, On, Registers
<1>5. CASE VmxBasicExitReasonXsetbv
  <2>1. On = TRUE /\ Registers' = Registers /\ at = "here" /\ instr.op = "xsetbv"
    BY <1>5 DEF VmxBasicExitReasonXsetbv, Handling, On, Registers, Stopped, Inv
  <2>2. CASE XcrSupportedValue(instr) /\ XsetbvFaults(instr)
    <3>1. On' = FALSE /\ UNCHANGED <<instr, at, osxsave, xcr0>> /\ ~ Ordinary(instr)
      BY <1>5, <2>2, XsetbvOutcome DEF VmxBasicExitReasonXsetbv, On, Stopped
    <3> QED
      BY <2>1, <3>1, StopRefines
  <2>3. CASE ~ (XcrSupportedValue(instr) /\ XsetbvFaults(instr))
    <3>1. On' = TRUE /\ at' = "next" /\ UNCHANGED <<instr, osxsave>>
      BY <1>5, <2>3 DEF VmxBasicExitReasonXsetbv, XsetbvLeaves, On, Stopped
    <3>2. osxsave = TRUE /\ instr.arg \in XsetbvArgs
      BY <1>5, XsetbvOutcome DEF VmxBasicExitReasonXsetbv, Inv, TypeOK
    <3>3. \/ ~ instr.upper /\ instr.arg \in {"x87", "avx"} /\ xcr0' = instr.arg
          \/ (instr.upper \/ instr.arg = "otherXcr") /\ xcr0' = xcr0
      BY <1>5, <2>3, XsetbvOutcome DEF VmxBasicExitReasonXsetbv, XcrSupportedValue
    <3>4. Processor!Xsetbv
      BY <2>1, <3>1, <3>2, <3>3 DEF Processor!Xsetbv, Processor!Retire, On, Registers
    <3> QED
      BY <3>4 DEF Processor!Next
  <2> QED
    BY <2>2, <2>3
<1>6. CASE VmxBasicExitReasonVmcall
  <2>1. On = TRUE /\ On' = On /\ Registers' = Registers /\ at = "here"
    BY <1>6 DEF VmxBasicExitReasonVmcall, Handling, On, Registers, Stopped, Inv
  <2>2. CASE instr.arg = "protected"
    <3>1. UNCHANGED <<instr, at, osxsave, xcr0>>
      BY <1>6, <2>1, <2>2 DEF VmxBasicExitReasonVmcall, VmcallLeaves
    <3> QED
      BY <2>1, <3>1, Stutters
  <2>3. CASE instr.arg # "protected"
    <3>1. at' = IF instr.arg = "e820" /\ ~ instr.upper THEN "next" ELSE "oldVector"
      BY <1>6, <2>3 DEF VmxBasicExitReasonVmcall, VmcallLeaves
    <3>2. Processor!Vmcall
      BY <1>6, <2>1, <2>3, <3>1
      DEF VmxBasicExitReasonVmcall, Handling, Processor!Vmcall, Processor!Retire, On, Registers
    <3> QED
      BY <3>2 DEF Processor!Next
  <2> QED
    BY <2>2, <2>3
<1>7. CASE VmxBasicExitReasonEptViolation
  <2>1. On = TRUE /\ On' = On /\ Registers' = Registers /\ at = "here"
    BY <1>7 DEF VmxBasicExitReasonEptViolation, Handling, On, Registers, Stopped, Inv
  <2>2. Ordinary(instr)
    BY <1>7 DEF VmxBasicExitReasonEptViolation, Handling, Ordinary
  <2>3. instr.op = "ecam" /\ at' = "next" /\ UNCHANGED <<instr, osxsave, xcr0>>
    BY <1>7 DEF VmxBasicExitReasonEptViolation, Handling
  <2> QED
    BY <2>1, <2>2, <2>3, PlainRefines
<1>8. CASE VmxBasicExitReasonTaskSwitch \/ NoHandler
  <2>1. mode = "exit" /\ mode' \in Stopped /\ UNCHANGED <<instr, at, osxsave, xcr0, frame, answer>>
    BY <1>8 DEF VmxBasicExitReasonTaskSwitch, NoHandler, Handling, guestVars, Stopped
  <2>2. ~ Ordinary(instr) /\ at = "here"
    BY <2>1 DEF Inv
  <2>3. On = TRUE /\ On' = FALSE /\ Registers' = Registers
    BY <2>1 DEF On, Registers, Stopped, Inv
  <2> QED
    BY <2>1, <2>2, <2>3, StopRefines
<1>9. CASE RestoreGuestRegistersAndResume
  <2>1. On' = On /\ Registers' = Registers /\ UNCHANGED <<instr, at, osxsave, xcr0>>
    BY <1>9 DEF RestoreGuestRegistersAndResume, On, Registers, Stopped
  <2> QED
    BY <2>1, Stutters
<1>10. CASE UNCHANGED vars
  <2>1. On' = On /\ Registers' = Registers /\ UNCHANGED <<instr, at, osxsave, xcr0>>
    BY <1>10 DEF vars, On, Registers
  <2> QED
    BY <2>1, Stutters
<1>11. ASSUME NEW i \in Code, FetchNext(i) PROVE Processor!Next
  BY <1>1, <1>11 DEF Processor!Next
<1> QED
  BY <1>2, <1>3, <1>4, <1>5, <1>6, <1>7, <1>8, <1>9, <1>10, <1>11
  DEF Next, Running, VmxVmExitHandler

\* Everything the hypervisor does between an exit and the VMRESUME is one step of
\* the processor the guest is promised, or none.
THEOREM GuestSeesAProcessor == Spec => ImplementsProcessor
<1>1. Init => Processor!Init
  BY InitRefines
<1>2. Inv /\ Inv' /\ [Next]_vars => [Processor!Next]_(Processor!vars)
  BY NextRefines
<1> QED
  BY <1>1, <1>2, InvHolds, PTL DEF Spec, ImplementsProcessor, Processor!Spec

---------------------------------------------------------------------------
(* The handler of EPT violations *)

\* What the static variables mean from one exit to the next: an answer that is
\* kept was decided at an instruction pointer that has read the port, and they
\* are those of the access decoded last.
EcamInv ==
    /\ EcamTypeOK
    /\ Exiting /\ exit.address = EcamPa => exit.code.rip \in ports
    /\ guestWantsToReadIntoRax /\ guestOperandMemoryAddress = EcamPa => lastGuestRip \in ports
    /\ decoded # NoExit =>
          /\ lastGuestRip = decoded.code.rip
          /\ guestOperandMemoryAddress = decoded.address
          /\ Found(decoded.code) => guestWantsToReadIntoRax = (decoded.code.op0 = "rax")

\* An exit is an access to a hidden address.
LEMMA ExitIsAnAccess ==
    ASSUME EcamTypeOK, Exiting
    PROVE  /\ exit.code \in Accesses /\ exit.address \in Hidden /\ exit # NoExit
           /\ exit.code.rip \in Nat
<1>1. exit # NoExit  BY DEF Exiting, NoExit, At
<1>2. PICK c \in Accesses, a \in Hidden : exit = At(c, a)  BY <1>1 DEF EcamTypeOK
<1>3. exit.code \in Accesses /\ exit.address \in Hidden  BY <1>2 DEF At
<1> QED BY <1>1, <1>3, AccessesAreSane

\* Where guest and handler agree: a flat guest's instruction is found, through
\* 4-KB and 2-MB pages.
LEMMA FlatCodeIsFound ==
    ASSUME NEW c \in Accesses, Flat(c)
    PROVE  Found(c)
<1>1. /\ c.rip \in Nat /\ c.base = 0 /\ c.bits \in {16, 32, 64} /\ c.db = (c.bits # 16)
      /\ c.paging = (IF c.bits = 64 THEN "long" ELSE "off")
      /\ c.bits = 64 => ~ c.walk[2].large
      /\ c.paging = "long" => Fetched(c.walk)
  BY AccessesAreSane DEF Flat
<1>2. CASE c.bits # 64
  <2>1. c.paging = "off" /\ c.base + c.rip = c.rip  BY <1>1, <1>2
  <2>2. HandlerLocation(c) = Location(c)  BY <2>1 DEF HandlerLocation, Location
  <2>3. HandlerBits(c) = c.bits  BY <1>1, <1>2, <2>1 DEF HandlerBits
  <2> QED BY <2>2, <2>3 DEF Found
<1>3. CASE c.bits = 64
  <2>1. c.paging = "long" /\ ~ c.walk[2].large /\ Fetched(c.walk)  BY <1>1, <1>3
  <2>0. c.db
    <3>1. c.db \in BOOLEAN /\ c.db = (c.bits # 16)  BY AccessesAreSane DEF Flat
    <3>2. c.bits # 16  BY <1>3
    <3> QED BY <3>1, <3>2, Zenon
  <2>2. GuestWalk(c.walk) = ProcessorWalk(c.walk)
    BY <2>1 DEF GuestWalk, ProcessorWalk, Fetched
  <2>3. HandlerLocation(c) = Location(c)  BY <2>1, <2>2, <2>0 DEF HandlerLocation, Location
  <2>4. HandlerBits(c) = c.bits  BY <1>3, <2>1, <2>0 DEF HandlerBits
  <2> QED BY <2>3, <2>4 DEF Found
<1> QED BY <1>2, <1>3

LEMMA EcamInitInv == EcamInit => EcamInv
<1> SUFFICES ASSUME EcamInit PROVE EcamInv  OBVIOUS
<1>1. /\ exit = NoExit /\ decoded = NoExit /\ ~ guestWantsToReadIntoRax /\ ports = {}
      /\ lastGuestRip = 0 /\ guestOperandMemoryAddress = 0
      /\ guestWantsToReadIntoRax \in BOOLEAN /\ rax = "own"
  BY DEF EcamInit
<1>2. ~ Exiting  BY <1>1 DEF Exiting, NoExit, At
<1>3. EcamTypeOK  BY <1>1 DEF EcamTypeOK
<1> QED BY <1>1, <1>2, <1>3 DEF EcamInv

LEMMA EcamStepInv == EcamInv /\ [EcamNext]_ecamVars => EcamInv'
<1> SUFFICES ASSUME EcamInv, [EcamNext]_ecamVars PROVE EcamInv'
  OBVIOUS
<1> USE DEF EcamInv
<1>1. CASE Compute
  BY <1>1 DEF Compute, statics, EcamTypeOK, Exiting, NoExit, At
<1>2. ASSUME NEW c \in Accesses, NEW a \in Open, Access(c, a) PROVE EcamInv'
  BY <1>2 DEF Access, statics, EcamTypeOK, Exiting, NoExit, At
<1>3. ASSUME NEW c \in Accesses, NEW a \in Hidden, Violation(c, a) PROVE EcamInv'
  <2>1. /\ exit' = At(c, a) /\ ports \subseteq ports' /\ ports' \subseteq ports \cup {c.rip}
        /\ a = EcamPa => c.rip \in ports'
        /\ decoded' = decoded /\ rax' = rax
        /\ lastGuestRip' = lastGuestRip
        /\ guestOperandMemoryAddress' = guestOperandMemoryAddress
        /\ guestWantsToReadIntoRax' = guestWantsToReadIntoRax
    BY <1>3 DEF Violation, statics
  <2>2. exit'.address = a /\ exit'.code = c  BY <2>1 DEF At
  <2>3. EcamTypeOK'  BY <2>1 DEF EcamTypeOK
  <2>4. (Exiting /\ exit.address = EcamPa => exit.code.rip \in ports)'
    BY <2>1, <2>2 DEF Exiting
  <2>5. (guestWantsToReadIntoRax /\ guestOperandMemoryAddress = EcamPa => lastGuestRip \in ports)'
    BY <2>1
  <2>6. (decoded # NoExit =>
           /\ lastGuestRip = decoded.code.rip
           /\ guestOperandMemoryAddress = decoded.address
           /\ Found(decoded.code) => guestWantsToReadIntoRax = (decoded.code.op0 = "rax"))'
    BY <2>1
  <2> QED BY <2>3, <2>4, <2>5, <2>6
<1>4. CASE EptViolation
  <2>1. /\ Exiting /\ lastGuestRip' = exit.code.rip /\ decoded' = exit
        /\ guestOperandMemoryAddress' = exit.address
        /\ guestWantsToReadIntoRax' \in BOOLEAN
        /\ Found(exit.code) => guestWantsToReadIntoRax' = (exit.code.op0 = "rax")
        /\ exit' = NoExit /\ ports' = ports /\ rax' \in {"MAX_DWORD", rax}
    BY <1>4 DEF EptViolation, WantsRax, SendInvalidVendor
  <2>2. exit.address \in Hidden /\ exit.code.rip \in Nat
    BY <2>1, ExitIsAnAccess
  <2>3. EcamTypeOK'  BY <2>1, <2>2 DEF EcamTypeOK
  <2>4. ~ Exiting'  BY <2>1 DEF Exiting, NoExit, At
  <2>5. (guestWantsToReadIntoRax /\ guestOperandMemoryAddress = EcamPa => lastGuestRip \in ports)'
    BY <2>1
  <2>6. (decoded # NoExit =>
           /\ lastGuestRip = decoded.code.rip
           /\ guestOperandMemoryAddress = decoded.address
           /\ Found(decoded.code) => guestWantsToReadIntoRax = (decoded.code.op0 = "rax"))'
    BY <2>1
  <2> QED BY <2>3, <2>4, <2>5, <2>6
<1>5. CASE EptViolationAgain
  <2>1. /\ lastGuestRip' = lastGuestRip /\ decoded' = decoded
        /\ guestOperandMemoryAddress' = guestOperandMemoryAddress
        /\ guestWantsToReadIntoRax' = guestWantsToReadIntoRax
        /\ exit' = NoExit /\ ports' = ports /\ rax' \in {"MAX_DWORD", rax}
    BY <1>5 DEF EptViolationAgain, SendInvalidVendor, statics
  <2>2. EcamTypeOK'  BY <2>1 DEF EcamTypeOK
  <2>3. ~ Exiting'  BY <2>1 DEF Exiting, NoExit, At
  <2> QED BY <2>1, <2>2, <2>3
<1>6. CASE UNCHANGED ecamVars
  BY <1>6 DEF ecamVars, EcamTypeOK, Exiting
<1> QED BY <1>1, <1>2, <1>3, <1>4, <1>5, <1>6 DEF EcamNext

LEMMA EcamInvHolds == EcamSpec => []EcamInv
BY EcamInitInv, EcamStepInv, PTL DEF EcamSpec

\* The handler's operand is the address of an access that has exited, or 0.
THEOREM OperandIsAnExit == EcamSpec => []EcamTypeOK
<1>1. EcamInv => EcamTypeOK  BY DEF EcamInv
<1> QED BY <1>1, EcamInvHolds, PTL

\* Only the handler ends an exit: it decodes, or it uses what it has decoded.
LEMMA HandledIsTheHandler ==
    ASSUME [EcamNext]_ecamVars, Handled
    PROVE  EptViolation \/ EptViolationAgain
<1>1. ~ UNCHANGED ecamVars  BY DEF Handled, Exiting, ecamVars, NoExit, At
<1>2. ~ Compute /\ \A c, a : ~ Access(c, a) /\ ~ Violation(c, a)
  BY DEF Handled, Compute, Access, Violation
<1> QED BY <1>1, <1>2 DEF EcamNext

\* Code that leaves the port alone is never answered, whatever is mapped, hidden,
\* executed or decoded in between.
THEOREM AnswerIsOnlyGivenAtThePort == EcamSpec => AnswerComesFromThePort
<1>1. ASSUME EcamInv, [EcamNext]_ecamVars, Handled, rax' # rax
      PROVE  exit.code.rip \in ports
  <2>1. CASE EptViolation
    BY <1>1, <2>1 DEF EcamInv, EptViolation, SendInvalidVendor
  <2>2. CASE EptViolationAgain
    BY <1>1, <2>2 DEF EcamInv, EptViolationAgain, SendInvalidVendor
  <2> QED BY <1>1, <2>1, <2>2, HandledIsTheHandler
<1>2. EcamInv /\ [EcamNext]_ecamVars
        => [Handled /\ rax' # rax => exit.code.rip \in ports]_ecamVars
  BY <1>1
<1> QED BY <1>2, EcamInvHolds, PTL DEF EcamSpec, AnswerComesFromThePort

\* A flat guest, of any code, sees no device in the port's place and nothing else
\* changed, whatever other code and address spaces it has run.
THEOREM FlatGuestSeesNoDevice == EcamSpec => DeviceIsInvisible
<1>1. ASSUME EcamInv, [EcamNext]_ecamVars, Handled, Flat(exit.code), Fresh
      PROVE  rax' = IF exit.address = EcamPa /\ exit.code.op0 = "rax" THEN "MAX_DWORD" ELSE rax
  <2>1. Found(exit.code) /\ exit # NoExit
    BY <1>1, ExitIsAnAccess, FlatCodeIsFound DEF EcamInv, Handled
  <2>2. CASE EptViolation
    BY <2>1, <2>2 DEF EptViolation, WantsRax, SendInvalidVendor
  <2>3. CASE EptViolationAgain
    <3>1. exit = decoded  BY <1>1, <2>3 DEF Fresh, EptViolationAgain
    <3>2. /\ guestOperandMemoryAddress = exit.address
          /\ guestWantsToReadIntoRax = (exit.code.op0 = "rax")
      BY <1>1, <2>1, <3>1 DEF EcamInv
    <3> QED BY <2>3, <3>2 DEF EptViolationAgain, SendInvalidVendor
  <2> QED BY <1>1, <2>2, <2>3, HandledIsTheHandler
<1>2. EcamInv /\ [EcamNext]_ecamVars
        => [Handled /\ Flat(exit.code) /\ Fresh =>
              rax' = IF exit.address = EcamPa /\ exit.code.op0 = "rax"
                     THEN "MAX_DWORD" ELSE rax]_ecamVars
  BY <1>1
<1> QED BY <1>2, EcamInvHolds, PTL DEF EcamSpec, DeviceIsInvisible

---------------------------------------------------------------------------
(* Entering VMX operation *)

(***************************************************************************)
(* The invariant says which call of VmxInit is under way and what the VMCS *)
(* state is in it. In the first call no VMCS is current before VMPTRLD; in  *)
(* the second the first call's still is, so VmPtrst never lets it through. *)
(***************************************************************************)
Before  == {"acpi", "lapic"}
Enter   == {"check", "cr4", "feature", "lock", "vmxon"}
Loaded  == {"controls", "vmlaunch", "failed"}
After   == {"wait", "reinit", "returned"}

FirstCall ==
    \/ /\ region = 0 /\ current = 0 /\ guest = "none" /\ count = 0
       /\ pc \in Before \/ pc \in Enter \/ pc \in {"halted", "reset"}
    \/ /\ region = 1 /\ current = 0 /\ guest = "none" /\ count = 0
       /\ pc \in {"vmclear", "vmptrst", "vmptrld", "halted"}
    \/ /\ region = 1 /\ current = 1 /\ guest = "none" /\ root /\ 1 \in clear
       /\ pc \in Loaded
    \/ /\ region = 1 /\ current = 1 /\ guest # "none" /\ count = 1
       /\ pc = "guest"

SecondCall ==
    \/ /\ region = 1 /\ current = 1 /\ guest = "none" /\ count = 0
       /\ pc \in After \/ pc \in Enter \/ pc = "reset"
    \/ /\ region = 2 /\ current = 1 /\ guest = "none" /\ count = 0
       /\ pc \in {"vmclear", "vmptrst", "halted"}

StartInv ==
    /\ StartTypeOK
    /\ FirstCall \/ SecondCall
    /\ pc \in {"vmptrst", "vmptrld"} => root /\ region \in clear
    /\ CounterCountsThisCpu

LEMMA StartInitInv == StartInit => StartInv
<1> SUFFICES ASSUME StartInit PROVE StartInv
  OBVIOUS
<1>1. 0 \in 0 .. DwordSize - 1  BY StartConstantsAreSane
<1>2. /\ hw \in [intel: BOOLEAN, vmx: BOOLEAN, cpus: Listings, flaky: SUBSET Flaky]
      /\ msr \in [lock: BOOLEAN, vmxon: BOOLEAN]
      /\ root = FALSE /\ current = 0 /\ clear = {} /\ region = 0 /\ who = 0
      /\ count = 0 /\ trapped = FALSE /\ guest = "none" /\ pc = "acpi"
  BY DEF StartInit
<1>3. StartTypeOK
  <2>1. clear \subseteq 1 .. region  BY <1>2
  <2>2. region \in 0 .. 2 /\ current \in 0 .. region /\ who \in Nat  BY <1>2
  <2>3. count \in 0 .. DwordSize - 1  BY <1>1, <1>2
  <2>4. pc \in StartStopped \cup {"acpi", "lapic"}  BY <1>2
  <2> QED BY <1>2, <2>1, <2>2, <2>3, <2>4 DEF StartTypeOK
<1>4. FirstCall /\ CounterCountsThisCpu  BY <1>2 DEF FirstCall, Before, CounterCountsThisCpu
<1> QED BY <1>2, <1>3, <1>4 DEF StartInv

LEMMA StartNextInv == StartInv /\ [StartNext]_startVars => StartInv'
<1> SUFFICES ASSUME StartInv, [StartNext]_startVars PROVE StartInv'
  OBVIOUS
<1>a. FirstCall \/ SecondCall  BY DEF StartInv
<1>b. region \in 0 .. 2 /\ clear \subseteq 1 .. region  BY DEF StartInv, StartTypeOK
<1>c. DwordSize \in Nat /\ DwordSize > 1 /\ 1 % DwordSize = 1 /\ 0 % DwordSize = 0
  BY StartConstantsAreSane
<1>d. ASSUME pc = "vmxon"
      PROVE  /\ guest = "none" /\ count = 0
             /\ ((region = 0 /\ current = 0) \/ (region = 1 /\ current = 1))
  <2>1. pc \notin {"vmclear", "vmptrst", "vmptrld", "halted", "guest"} /\ pc \notin Loaded
    BY <1>d DEF Loaded
  <2>2. CASE FirstCall  BY <2>1, <2>2 DEF FirstCall
  <2>3. CASE SecondCall  BY <2>1, <2>3 DEF SecondCall
  <2> QED BY <1>a, <2>2, <2>3
<1>e. ASSUME VmClear PROVE region \in 1 .. 2 /\ clear' \subseteq 1 .. region'
  <2>1. pc = "vmclear" /\ region' = region  BY <1>e DEF VmClear, Goto
  <2>2. region = 1 \/ region = 2
    <3>1. pc \notin Before /\ pc \notin Enter /\ pc \notin {"halted", "reset"}
      BY <2>1 DEF Before, Enter
    <3>2. CASE FirstCall  BY <3>1, <3>2 DEF FirstCall
    <3>3. CASE SecondCall  BY <3>3 DEF SecondCall
    <3> QED BY <1>a, <3>2, <3>3
  <2>3. clear' = clear \cup {region} \/ clear' = clear  BY <1>e DEF VmClear
  <2>4. clear' \subseteq 1 .. region
    <3> SUFFICES ASSUME NEW r \in clear' PROVE r \in 1 .. region
      OBVIOUS
    <3>1. r = region \/ r \in clear  BY <2>3
    <3>2. region \in 1 .. region  BY <2>2
    <3> QED BY <1>b, <3>1, <3>2
  <2>5. region \in 1 .. 2  BY <2>2
  <2> QED BY <2>1, <2>4, <2>5
<1> USE DEF StartInv, StartTypeOK, FirstCall, SecondCall, CounterCountsThisCpu, Goto,
            Before, Enter, Loaded, After, StartStopped, vmx
<1>1. CASE AcpiInit  BY <1>1 DEF AcpiInit
<1>2. CASE LapicInit  BY <1>2 DEF LapicInit
<1>3. CASE WaitForCpus  BY <1>3 DEF WaitForCpus
<1>4. CASE InitCurrentProcessorVmx
  <2>1. NrOfCpus \in Nat => 0 .. NrOfCpus - 1 \subseteq Nat  OBVIOUS
  <2>2. who' \in Nat  BY <1>4 DEF InitCurrentProcessorVmx
  <2> QED BY <1>4, <2>2 DEF InitCurrentProcessorVmx
<1>5. CASE CheckVmxSupported  BY <1>5 DEF CheckVmxSupported
<1>6. CASE Cr4SetBit  BY <1>6 DEF Cr4SetBit
<1>7. CASE SetFeatureControl
  <2>1. msr' \in [lock: BOOLEAN, vmxon: BOOLEAN]  BY <1>7 DEF SetFeatureControl, MsrSetBit
  <2> QED BY <1>7, <2>1 DEF SetFeatureControl, MsrSetBit
<1>8. CASE SetLockBit
  <2>1. msr' \in [lock: BOOLEAN, vmxon: BOOLEAN]  BY <1>8 DEF SetLockBit, MsrSetBit
  <2> QED BY <1>8, <2>1 DEF SetLockBit, MsrSetBit
<1>9. CASE VmxOn
  <2>0. pc = "vmxon"  BY <1>9 DEF VmxOn
  <2>1. guest = "none" /\ count = 0
        /\ ((region = 0 /\ current = 0) \/ (region = 1 /\ current = 1))
    BY <1>d, <2>0
  <2>2. UNCHANGED <<hw, msr, current, clear, who, count, trapped, guest>>
    BY <1>9 DEF VmxOn
  <2>3. root' \in BOOLEAN  BY <1>9 DEF VmxOn
  <2>4. CASE msr.vmxon
    <3>1. region' = region + 1 /\ pc' = "vmclear"  BY <1>9, <2>4 DEF VmxOn
    <3>2. StartTypeOK'  BY <2>0, <2>1, <2>2, <2>3, <3>1
    <3> QED BY <2>0, <2>1, <2>2, <3>1, <3>2
  <2>5. CASE ~ msr.vmxon
    <3>1. region' = region /\ pc' = "reset"  BY <1>9, <2>5 DEF VmxOn
    <3>2. StartTypeOK'  BY <2>0, <2>1, <2>2, <2>3, <3>1
    <3> QED BY <2>0, <2>1, <2>2, <3>1, <3>2
  <2> QED BY <2>4, <2>5
<1>10. CASE VmClear  BY <1>10, <1>e DEF VmClear
<1>11. CASE VmClearUndefined  BY <1>11 DEF VmClearUndefined
<1>12. CASE VmPtrst  BY <1>12 DEF VmPtrst
<1>13. CASE VmPtrld  BY <1>13 DEF VmPtrld
<1>14. CASE WriteVmcs  BY <1>14, <1>c DEF WriteVmcs
<1>15. CASE VmxLaunch  BY <1>15 DEF VmxLaunch
<1>16. CASE LaunchFailed  BY <1>16, <1>c DEF LaunchFailed
<1>17. CASE UNCHANGED startVars  BY <1>17 DEF startVars
<1> QED
  BY <1>1, <1>2, <1>3, <1>4, <1>5, <1>6, <1>7, <1>8, <1>9, <1>10, <1>11, <1>12,
     <1>13, <1>14, <1>15, <1>16, <1>17 DEF StartNext

LEMMA StartInvHolds == StartSpec => []StartInv
BY StartInitInv, StartNextInv, PTL DEF StartSpec

\* Every variable keeps its type: at most two VMCS regions are ever allocated.
THEOREM TypesCorrect == StartSpec => []StartTypeOK
<1>1. StartInv => StartTypeOK  BY DEF StartInv
<1> QED BY <1>1, StartInvHolds, PTL

\* VMLAUNCH always has the VMCS this call cleared and loaded.
THEOREM LaunchIsPrepared == StartSpec => []LaunchHasItsVmcs
<1>1. StartInv => LaunchHasItsVmcs
  BY DEF StartInv, StartTypeOK, FirstCall, SecondCall, LaunchHasItsVmcs,
         Before, Enter, Loaded, After
<1> QED BY <1>1, StartInvHolds, PTL

\* The counter of processors in VMX mode never drifts or wraps.
THEOREM CounterIsExact == StartSpec => []CounterCountsThisCpu
<1>1. StartInv => CounterCountsThisCpu  BY DEF StartInv
<1> QED BY <1>1, StartInvHolds, PTL

\* Once a launch has failed no guest is ever started.
THEOREM FailedLaunchIsFinal == StartSpec => []NoSecondLaunch
<1>1. StartInv => NoSecondLaunch
  BY DEF StartInv, FirstCall, SecondCall, NoSecondLaunch, LaunchHasFailed,
         Before, Enter, Loaded, After
<1> QED BY <1>1, StartInvHolds, PTL
=============================================================================
