----------------------------- MODULE GuestCode -----------------------------
(***************************************************************************)
(* The instructions of the guest as the hypervisor tells them apart, and   *)
(* which of them it supports.                                              *)
(***************************************************************************)

CONSTANT Code       \* the instructions of the guest

\* op: what is executed (or what event arrives before the next instruction).
\* arg: its operand, as far as the outcome depends on it:
\*   cpuid   EAX is 1 ("features"), HYPER_V_INT ("interface"), or "other"
\*   xsetbv  what ECX = 0 is to hold, or another ECX ("otherXcr")
\*   vmcall  EAX is INT_15H_E820 ("e820") or not ("int15"), with a 16-bit
\*           stack segment; or the stack segment is 32-bit ("protected")
\*   movcr0, movcr4   the bits written, see Ordinary
\*   msr     inside the two ranges the MSR bitmaps cover ("listed") or not
\* upper: the upper half of the 64-bit register that selects is not zero.
Ops == {"cpuid", "xsetbv", "vmcall", "movcr0", "movcr4", "msr", "ecam",
        "hlt", "in", "rdtsc", "invlpg", "loadCr3", "storeCr3", "cr8", "interrupt", "nmi",
        "taskSwitch", "tripleFault", "init", "getsec", "invd", "vmx"}
Args == {"features", "interface", "other", "x87", "avx", "illegal", "otherXcr",
         "e820", "int15", "protected", "plain", "real", "osxsave", "drops", "reserved",
         "listed", "unlisted", "none"}

XsetbvArgs == {"x87", "avx", "illegal", "otherXcr"}
CrArgs == {"plain", "real", "osxsave", "drops", "reserved"}

ASSUME CodeIsInstructions ==
    /\ Code \subseteq [op: Ops, arg: Args, upper: BOOLEAN]
    /\ \A i \in Code : /\ i.op = "xsetbv" => i.arg \in XsetbvArgs
                       /\ i.op \in {"movcr0", "movcr4"} => i.arg \in CrArgs
                       /\ i.op # "movcr4" => i.arg # "osxsave"

Reset == [op |-> "init", arg |-> "none", upper |-> FALSE]
Answers == [osxsave: BOOLEAN, hypervisor: BOOLEAN, interface: BOOLEAN]
NoAnswer == [osxsave |-> FALSE, hypervisor |-> FALSE, interface |-> FALSE]

\* The hypervisor supports the instruction. It does not let the guest clear a
\* control bit that VMX operation fixes (CR0.NE, CR4.VMXE) or set a reserved one.
Ordinary(i) ==
    /\ i.op \notin {"taskSwitch", "tripleFault", "init", "getsec", "invd", "vmx"}
    /\ i.op \in {"movcr0", "movcr4"} => i.arg \notin {"drops", "reserved"}
    /\ i.op = "msr" => i.arg # "unlisted"
    /\ i.op = "xsetbv" => i.arg # "illegal"

\* VMCALL outside a 16-bit stack segment is started again and again.
Completes(i) == Ordinary(i) /\ ~ (i.op = "vmcall" /\ i.arg = "protected")
=============================================================================
