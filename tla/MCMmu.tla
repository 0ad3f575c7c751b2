------------------------------- MODULE MCMmu -------------------------------
(* Two-entry tables, 4-byte pages: 16 virtual pages, 8 frames below Offset. *)
EXTENDS Mmu

MCJunk == [present |-> TRUE, to |-> 0, uc |-> TRUE]

\* Frames 0..7; the kernel owns frames 2 and 3 (bytes 8..15); video is 0 and 1.
\* The calls: an unaligned two-page map, a map that overlaps it with another
\* attribute, and a page far away (ACPI tables, LAPIC).
MCMapCalls ==
    {[pa |-> 18, size |-> 4, uc |-> TRUE],
     [pa |-> 20, size |-> 4, uc |-> FALSE],
     [pa |-> 28, size |-> 1, uc |-> TRUE]}
MCIdentityCalls == {[pa |-> 16, size |-> 4, uc |-> FALSE]}
MCUnmapCalls ==
    {[va |-> 50, size |-> 4], [va |-> 52, size |-> 4],
     [va |-> 52, size |-> 12], [va |-> 16, size |-> 1]}
===========================================================================
