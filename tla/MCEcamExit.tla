----------------------------- MODULE MCEcamExit -----------------------------
(* The port's page (16 is its first register, 17 another one), a hole above   *)
(* the mapped memory (18) and ordinary memory (1).                            *)
EXTENDS EcamExit

Entry(large, to) == [present |-> TRUE, large |-> large, to |-> to]
None == [present |-> FALSE, large |-> FALSE, to |-> 0]

\* The ways to a 4-KB, a 2-MB and a 1-GB page.
Small == <<Entry(FALSE, 1), Entry(FALSE, 2), Entry(FALSE, 3), Entry(FALSE, 4)>>
Large == <<Entry(FALSE, 1), Entry(FALSE, 2), Entry(TRUE, 3), None>>
Huge  == <<Entry(FALSE, 1), Entry(TRUE, 2), None, None>>

I(rip, op0, load, base, bits, db, paging, walk) ==
    [rip |-> rip, op0 |-> op0, load |-> load, base |-> base, bits |-> bits, db |-> db,
     paging |-> paging, walk |-> walk]

\* Several address spaces and code segments: loads into RAX and elsewhere, a compare
\* with RAX, a store; the same instruction pointer twice, instruction pointer 0, and
\* code the handler does not find: with a segment base, 32-bit paging, a 1-GB page,
\* and 64-bit code with a 16-bit stack segment.
MCAccesses ==
    {I(1, "rax", TRUE, 0, 64, TRUE, "long", Small),
     I(1, "reg", TRUE, 0, 32, TRUE, "legacy", Small),
     I(0, "rax", TRUE, 4096, 16, FALSE, "off", Small),
     I(2, "mem", FALSE, 0, 64, TRUE, "long", Large),
     I(2, "rax", TRUE, 0, 64, TRUE, "long", Large),
     I(3, "reg", TRUE, 0, 64, TRUE, "long", Huge),
     I(3, "reg", TRUE, 0, 64, FALSE, "long", Small),
     I(3, "rax", FALSE, 0, 32, TRUE, "off", Small),
     I(4, "reg", TRUE, 0, 32, TRUE, "off", Small)}

MCHidden == {16, 17, 18}
MCOpen   == {1}
=============================================================================
