--------------------------- MODULE AddressSpace ---------------------------
(***************************************************************************)
(* What the host page tables promise, without the tables: an address space *)
(* is a partial function from virtual pages to frames, and one call at a   *)
(* time walks a range of it, one page per step.                            *)
(*                                                                         *)
(* Two promises of src/minihv/map.c are easy to miss and are stated here   *)
(* as the only thing a step may do:                                        *)
(*   - mapping fills holes, it never replaces a translation;               *)
(*   - unmapping stops advancing at the first hole, so it removes the      *)
(*     longest mapped prefix of the range and no more.                     *)
(***************************************************************************)
EXTENDS Integers

CONSTANTS VPages,   \* the virtual page numbers
          NoFrame   \* "not mapped"

VARIABLES space,    \* [VPages -> frames and attributes, or NoFrame]
          job       \* the call in progress: kind, next page, pages left

Start(kind) ==
    /\ job.kind = "idle"
    /\ job' \in [kind: {kind}, va: VPages, pa: Nat, left: Nat, uc: BOOLEAN]
    /\ UNCHANGED space

FillHole ==
    /\ job.kind = "map" /\ job.left > 0
    /\ space' = [space EXCEPT ![job.va] =
                    IF @ = NoFrame THEN [frame |-> job.pa, uc |-> job.uc] ELSE @]
    /\ job' = [job EXCEPT !.va = @ + 1, !.pa = @ + 1, !.left = @ - 1]

RemovePage ==
    /\ job.kind = "unmap" /\ job.left > 0
    /\ space[job.va] # NoFrame
    /\ space' = [space EXCEPT ![job.va] = NoFrame]
    /\ job' = [job EXCEPT !.va = @ + 1, !.left = @ - 1]

\* A hole ends the useful part of an unmap: the remaining iterations look at
\* the same hole again.
StopAtHole ==
    /\ job.kind = "unmap" /\ job.left > 0
    /\ space[job.va] = NoFrame
    /\ job' = [job EXCEPT !.left = @ - 1]
    /\ UNCHANGED space

Return ==
    /\ job.kind \in {"map", "unmap"} /\ job.left = 0
    /\ job' = [kind |-> "idle", va |-> 0, pa |-> 0, left |-> 0, uc |-> FALSE]
    /\ UNCHANGED space

Next == Start("map") \/ Start("unmap") \/ FillHole \/ RemovePage \/ StopAtHole \/ Return

Init == /\ space = [v \in VPages |-> NoFrame]
        /\ job.kind = "idle"

Spec == Init /\ [][Next]_<<space, job>>
===========================================================================
