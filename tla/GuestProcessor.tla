--------------------------- MODULE GuestProcessor ---------------------------
(***************************************************************************)
(* What the hypervisor promises its guest: a processor that executes the   *)
(* guest's instructions one after the other, shows a hypervisor in CPUID,  *)
(* answers INT 15h with its own memory map, and ends only at instructions  *)
(* the hypervisor does not support. VmExit implements it.                  *)
(***************************************************************************)

EXTENDS GuestCode

VARIABLES
    instr,      \* the instruction at hand
    at,         \* the instruction pointer: "here", or past it: at the "next"
                \* instruction, the old INT 15h vector, or a fault handler
    osxsave,    \* CR4.OSXSAVE
    xcr0,       \* the extended control register
    answer,     \* what the last CPUID returned
    on          \* the processor runs

vars == <<instr, at, osxsave, xcr0, answer, on>>

Init ==
    /\ instr = Reset /\ at = "next" /\ on = TRUE
    /\ osxsave = FALSE /\ xcr0 = "x87" /\ answer = NoAnswer

Fetch(i) ==
    /\ on /\ at # "here"
    /\ instr' = i /\ at' = "here"
    /\ UNCHANGED <<osxsave, xcr0, answer, on>>

Retire(to) == on /\ at = "here" /\ at' = to /\ UNCHANGED <<instr, on>>

\* CPUID shows the guest's OSXSAVE and, unless a 64-bit register has an upper
\* half, the hypervisor bit and the hypervisor's signature.
Cpuid ==
    /\ instr.op = "cpuid"
    /\ Retire("next")
    /\ answer' = [osxsave    |-> instr.arg = "features" /\ osxsave,
                  hypervisor |-> instr.arg = "features" /\ ~ instr.upper,
                  interface  |-> instr.arg = "interface" /\ ~ instr.upper]
    /\ UNCHANGED <<osxsave, xcr0>>

Xsetbv ==
    /\ instr.op = "xsetbv"
    /\ \/ ~ osxsave /\ Retire("fault") /\ UNCHANGED xcr0
       \/ /\ osxsave /\ ~ instr.upper /\ instr.arg \in {"x87", "avx"}
          /\ Retire("next") /\ xcr0' = instr.arg
       \/ /\ osxsave /\ (instr.upper \/ instr.arg = "otherXcr")
          /\ Retire("next") /\ UNCHANGED xcr0
    /\ UNCHANGED <<osxsave, answer>>

\* INT 15h, hooked: E820 is answered, the rest goes to the old service.
Vmcall ==
    /\ instr.op = "vmcall" /\ instr.arg # "protected"
    /\ Retire(IF instr.arg = "e820" /\ ~ instr.upper THEN "next" ELSE "oldVector")
    /\ UNCHANGED <<osxsave, xcr0, answer>>

MovCr4 ==
    /\ instr.op = "movcr4" /\ Ordinary(instr)
    /\ Retire("next")
    /\ osxsave' = (instr.arg = "osxsave")
    /\ UNCHANGED <<xcr0, answer>>

Plain ==
    /\ instr.op \notin {"cpuid", "xsetbv", "vmcall", "movcr4"} /\ Ordinary(instr)
    /\ Retire("next")
    /\ UNCHANGED <<osxsave, xcr0, answer>>

Stop ==
    /\ on /\ at = "here" /\ ~ Ordinary(instr)
    /\ on' = FALSE
    /\ UNCHANGED <<instr, at, osxsave, xcr0, answer>>

Next == (\E i \in Code : Fetch(i)) \/ Cpuid \/ Xsetbv \/ Vmcall \/ MovCr4 \/ Plain \/ Stop

Spec == Init /\ [][Next]_vars
=============================================================================
