------------------------------ MODULE VmxStart ------------------------------
(***************************************************************************)
(* How the boot processor enters VMX operation and starts the guest:       *)
(* Init64 (src/minihv/init64.c) from AcpiInit on, VmxInit and the helpers   *)
(* it calls (src/minihv/vmx.c), the counter of processors in VMX mode and   *)
(* the loop that waits for the others. One action is one step that can     *)
(* fail or that other steps depend on. Only the boot processor runs this   *)
(* code: ApInit64 returns at once (and LapicSendIpi sends nothing).        *)
(*                                                                         *)
(* An exception without a gate in the IDT (all but #DE and #UD, IdtInit)   *)
(* resets the machine; #UD is handled by IsrCommonHandler, which logs and  *)
(* returns to the instruction that raised it.                              *)
(*                                                                         *)
(* Names that VmExit has too carry the prefix Start: VmxProofs extends     *)
(* both modules.                                                           *)
(***************************************************************************)
EXTENDS Integers, Sequences, FiniteSets

CONSTANTS
    Listings,       \* MADT listings: for each local APIC, is it the boot processor's?
    Flaky,          \* VMX instructions that may fail on some machine
    DwordSize       \* 2^32

ASSUME StartConstantsAreSane ==
    /\ \A m \in Listings : Len(m) < DwordSize
    /\ DwordSize \in Nat /\ DwordSize > 1
    /\ Flaky \subseteq {"vmxon", "vmclear", "vmptrld", "vmlaunch"}

VARIABLES
    hw,         \* the machine: intel, vmx (CPUID), cpus (gCpu[].Bsp), flaky
    msr,        \* IA32_FEATURE_CONTROL: lock, vmxon (enabled outside SMX)
    root,       \* in VMX operation
    current,    \* the current VMCS, 0 when there is none
    clear,      \* the VMCS regions VMCLEAR has prepared
    region,     \* the VMCS region of this call of VmxInit
    who,        \* the index in gCpu VmxInit was called with
    count,      \* m_numberOfCpusInVmxMode
    trapped,    \* history: #UD was raised by VMCLEAR
    guest,      \* "none", or the activity state the guest was started in
    pc          \* where Init64 or VmxInit is

startVars == <<hw, msr, root, current, clear, region, who, count, trapped, guest, pc>>
vmx  == <<root, current, clear, region, who, count, trapped, guest>>

NrOfCpus == Len(hw.cpus)

\* gCpu[i].Bsp; an entry AcpiGetProcessors did not fill in is zero.
Bsp(i) == i < NrOfCpus /\ hw.cpus[i + 1]

StartStopped == {"halted", "reset", "guest", "returned"}

StartInit ==
    /\ hw \in [intel: BOOLEAN, vmx: BOOLEAN, cpus: Listings, flaky: SUBSET Flaky]
    /\ msr \in [lock: BOOLEAN, vmxon: BOOLEAN]
    /\ root = FALSE /\ current = 0 /\ clear = {} /\ region = 0 /\ who = 0
    /\ count = 0 /\ trapped = FALSE /\ guest = "none"
    /\ pc = "acpi"

Goto(from, to) == pc = from /\ pc' = to

---------------------------------------------------------------------------
(* Init64 *)

\* AcpiInit and AcpiGetProcessors: either may fail, then Init64 halts.
AcpiInit ==
    /\ Goto("acpi", "lapic") \/ Goto("acpi", "halted")
    /\ UNCHANGED <<hw, msr, vmx>>

\* CheckGenuineIntel is the only way LapicInit fails.
LapicInit ==
    /\ Goto("lapic", IF hw.intel THEN "check" ELSE "halted")
    /\ UNCHANGED <<hw, msr, vmx>>

\* while (m_numberOfCpusInVmxMode != GetNrOfCpus() - 1): both are DWORDs.
WaitForCpus ==
    /\ count = (NrOfCpus - 1) % DwordSize
    /\ Goto("wait", "reinit")
    /\ UNCHANGED <<hw, msr, vmx>>

\* InitCurrentProcessorVmx: VmxInit again, for the entry of this processor.
InitCurrentProcessorVmx ==
    /\ \/ \E i \in 0 .. NrOfCpus - 1 : Bsp(i) /\ who' = i /\ Goto("reinit", "check")
       \/ (\A i \in 0 .. NrOfCpus - 1 : ~ Bsp(i)) /\ Goto("reinit", "returned") /\ UNCHANGED who
    /\ UNCHANGED <<hw, msr, root, current, clear, region, count, trapped, guest>>

---------------------------------------------------------------------------
(* VmxInit *)

\* The loop of CheckVmxSupported compares bit numbers, not the CPUID bit.
CheckVmxSupported ==
    /\ Goto("check", "cr4")
    /\ UNCHANGED <<hw, msr, vmx>>

\* CR4.VMXE is reserved on a processor without VMX: #GP, no gate.
Cr4SetBit ==
    /\ Goto("cr4", IF hw.vmx THEN "feature" ELSE "reset")
    /\ UNCHANGED <<hw, msr, vmx>>

\* MsrSetBit: it ors in (1ULL < BitIndex), which is bit 0 for any index above 1
\* and no bit for 0. Writing a locked IA32_FEATURE_CONTROL raises #GP.
MsrSetBit(index, from, to) ==
    IF msr.lock THEN Goto(from, "reset") /\ UNCHANGED msr
    ELSE Goto(from, to) /\ msr' = [msr EXCEPT !.lock = @ \/ 1 < index]

VmxonOutsideSmx == 2
LockBit == 0

SetFeatureControl ==
    /\ \/ msr.lock /\ Goto("feature", "vmxon") /\ UNCHANGED msr
       \/ ~ msr.lock /\ MsrSetBit(VmxonOutsideSmx, "feature", "lock")
    /\ UNCHANGED <<hw, vmx>>

SetLockBit ==
    /\ MsrSetBit(LockBit, "lock", "vmxon")
    /\ UNCHANGED <<hw, vmx>>

\* A failure of VMXON (already in VMX operation, or a bad region) is only logged.
\* A new VMCS region is allocated and cleared.
VmxOn ==
    /\ Goto("vmxon", IF msr.vmxon THEN "vmclear" ELSE "reset")
    /\ root' \in IF ~ msr.vmxon THEN {root}
                 ELSE IF "vmxon" \in hw.flaky THEN {root, TRUE} ELSE {TRUE}
    /\ region' = IF msr.vmxon THEN region + 1 ELSE region
    /\ UNCHANGED <<hw, msr, current, clear, who, count, trapped, guest>>

VmClear ==
    /\ root
    /\ \/ Goto("vmclear", "vmptrst") /\ clear' = clear \cup {region}
       \/ "vmclear" \in hw.flaky /\ Goto("vmclear", "halted") /\ UNCHANGED clear
    /\ UNCHANGED <<hw, msr, root, current, region, who, count, trapped, guest>>

\* Outside VMX operation VMCLEAR raises #UD, again and again.
VmClearUndefined ==
    /\ ~ root /\ Goto("vmclear", "vmclear")
    /\ trapped' = TRUE
    /\ UNCHANGED <<hw, msr, root, current, clear, region, who, count, guest>>

\* Mutant: the current VMCS is not looked at.
VmPtrstUnchecked ==
    /\ Goto("vmptrst", "vmptrld")
    /\ UNCHANGED <<hw, msr, vmx>>

\* There must be no current VMCS yet.
VmPtrst ==
    /\ Goto("vmptrst", IF current = 0 THEN "vmptrld" ELSE "halted")
    /\ UNCHANGED <<hw, msr, vmx>>

\* Mutant: the VMCS of the first call is loaded.
VmPtrldFirst ==
    /\ Goto("vmptrld", "controls")
    /\ current' = region - 1
    /\ UNCHANGED <<hw, msr, root, clear, region, who, count, trapped, guest>>

VmPtrld ==
    /\ \/ Goto("vmptrld", "controls") /\ current' = region
       \/ "vmptrld" \in hw.flaky /\ Goto("vmptrld", "halted") /\ UNCHANGED current
    /\ UNCHANGED <<hw, msr, root, clear, region, who, count, trapped, guest>>

\* The control, host and guest areas are written; IncrementNumberOfCpusInVmxMode.
WriteVmcs ==
    /\ Goto("controls", "vmlaunch")
    /\ count' = (count + 1) % DwordSize
    /\ UNCHANGED <<hw, msr, root, current, clear, region, who, trapped, guest>>

\* Mutant: the activity states are swapped.
VmxLaunchSwapped ==
    /\ Goto("vmlaunch", "guest") /\ guest' = IF Bsp(who) THEN "WaitForSipi" ELSE "Active"
    /\ UNCHANGED <<hw, msr, root, current, clear, region, who, count, trapped>>

\* On success the host continues only in its exit handler.
VmxLaunch ==
    /\ \/ Goto("vmlaunch", "guest") /\ guest' = IF Bsp(who) THEN "Active" ELSE "WaitForSipi"
       \/ "vmlaunch" \in hw.flaky /\ Goto("vmlaunch", "failed") /\ UNCHANGED guest
    /\ UNCHANGED <<hw, msr, root, current, clear, region, who, count, trapped>>

\* Mutant: the counter is left alone.
LaunchFailedUncounted ==
    /\ Goto("failed", "wait")
    /\ UNCHANGED <<hw, msr, vmx>>

\* DecrementNumberOfCpusInVmxMode; VmxInit then returns STATUS_SUCCESS, to Init64
\* or to InitCurrentProcessorVmx.
LaunchFailed ==
    /\ Goto("failed", IF region = 1 THEN "wait" ELSE "returned")
    /\ count' = (count - 1) % DwordSize
    /\ UNCHANGED <<hw, msr, root, current, clear, region, who, trapped, guest>>

StartNext ==
    \/ AcpiInit \/ LapicInit \/ WaitForCpus \/ InitCurrentProcessorVmx
    \/ CheckVmxSupported \/ Cr4SetBit \/ SetFeatureControl \/ SetLockBit
    \/ VmxOn \/ VmClear \/ VmClearUndefined \/ VmPtrst \/ VmPtrld
    \/ WriteVmcs \/ VmxLaunch \/ LaunchFailed

\* There is one thread of control and nothing preempts it.
StartSpec     == StartInit /\ [][StartNext]_startVars
StartFairSpec == StartSpec /\ WF_startVars(StartNext)

---------------------------------------------------------------------------
(* Properties *)

StartTypeOK ==
    /\ hw \in [intel: BOOLEAN, vmx: BOOLEAN, cpus: Listings, flaky: SUBSET Flaky]
    /\ msr \in [lock: BOOLEAN, vmxon: BOOLEAN]
    /\ root \in BOOLEAN /\ trapped \in BOOLEAN
    /\ region \in 0 .. 2 /\ current \in 0 .. region /\ clear \subseteq 1 .. region
    /\ who \in Nat /\ count \in 0 .. DwordSize - 1
    /\ guest \in {"none", "Active", "WaitForSipi"}
    /\ pc \in StartStopped \cup {"acpi", "lapic", "check", "cr4", "feature", "lock", "vmxon",
                "vmclear", "vmptrst", "vmptrld", "controls", "vmlaunch", "failed",
                "wait", "reinit"}

\* VMLAUNCH is executed only in VMX operation, on the VMCS this call of VmxInit
\* cleared and made current, whichever of the steps before failed unnoticed
\* (VmxOn's failure is only logged).
LaunchHasItsVmcs ==
    pc \in {"controls", "vmlaunch"} =>
        root /\ current = region /\ region \in clear

\* The counter is one exactly while this processor launches or runs a guest: a
\* failed launch is taken back and nothing is counted twice, so the DWORD never
\* wraps below zero.
CounterCountsThisCpu ==
    count = IF guest # "none" \/ pc \in {"vmlaunch", "failed"} THEN 1 ELSE 0

\* After a launch has failed no later call of VmxInit starts a guest: the VMCS of
\* the first call is still current, and the second call stops there.
LaunchHasFailed == pc \in {"wait", "reinit", "returned"} \/ region = 2
NoSecondLaunch == LaunchHasFailed => guest = "none" /\ pc \notin {"controls", "vmlaunch"}

\* Where the processor, its firmware and the MADT are as the code expects, the
\* boot ends with the guest running.
Ready ==
    /\ hw.intel /\ hw.vmx /\ hw.flaky = {} /\ Bsp(0)
    /\ msr.lock /\ msr.vmxon
GuestRuns == (Ready /\ pc = "lapic") ~> (guest = "Active")

\* What the source says and the code does not do (checked by a run of its own).

\* Software that finds IA32_FEATURE_CONTROL unlocked enables VMXON when it locks it.
NeverLocksVmxOff == [][(~ msr.lock /\ msr'.lock) => msr'.vmxon]_startVars
=============================================================================
