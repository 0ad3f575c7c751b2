------------------------------ MODULE MCVmExit ------------------------------
EXTENDS VmExit

Insn(ops, args, uppers) == [op: ops, arg: args, upper: uppers]

\* Every operation; the upper halves where a handler looks at a register.
MCCode ==
    Insn({"cpuid"}, {"features", "interface", "other"}, BOOLEAN)
      \cup Insn({"xsetbv"}, {"x87", "avx", "illegal", "otherXcr"}, BOOLEAN)
      \cup Insn({"vmcall"}, {"e820", "int15", "protected"}, BOOLEAN)
      \cup Insn({"movcr0"}, {"plain", "real", "drops", "reserved"}, {FALSE})
      \cup Insn({"movcr4"}, {"plain", "osxsave", "drops", "reserved"}, {FALSE})
      \cup Insn({"msr"}, {"listed", "unlisted"}, {FALSE})
      \cup Insn(Ops \ {"cpuid", "xsetbv", "vmcall", "movcr0", "movcr4", "msr"}, {"none"}, {FALSE})

\* Processors that can do everything, with and without XSAVE; one that cannot
\* clear its default settings; one without the secondary control XSAVES.
MCMachines ==
    LET base == {"fixedBits", "saveDebug"} IN
    {[may |-> ControlNames, trueMust |-> base, xsave |-> TRUE],
     [may |-> ControlNames, trueMust |-> base, xsave |-> FALSE],
     [may |-> ControlNames, trueMust |-> {"fixedBits"}, xsave |-> TRUE],
     [may |-> ControlNames, trueMust |-> Default1, xsave |-> TRUE],
     [may |-> ControlNames \ {"xsaves"}, trueMust |-> base, xsave |-> TRUE]}
=============================================================================
