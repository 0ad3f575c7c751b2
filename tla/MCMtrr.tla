------------------------------- MODULE MCMtrr -------------------------------
(* All 256 pages of the fixed ranges at their real size, and pages around the *)
(* edges of variable ranges; 1024 pages stand for the 2^28 of the code.       *)
EXTENDS Mtrr

T(k) == CASE k % 5 = 0 -> "UC" [] k % 5 = 1 -> "WC" [] k % 5 = 2 -> "WT"
          [] k % 5 = 3 -> "WP" [] OTHER -> "WB"

R(valid, base, size, type) == [valid |-> valid, base |-> base, size |-> size, type |-> type]

Regs(e, fe, dflt, ranges) ==
    [e |-> e, fe |-> fe, default |-> dflt, ranges |-> ranges,
     fix64 |-> [k \in 0 .. 7 |-> T(k)],
     fix16 |-> [m \in 0 .. 1 |-> [k \in 0 .. 7 |-> T(3 * m + 2 * k)]],
     fix4  |-> [m \in 0 .. 7 |-> [k \in 0 .. 7 |-> T(m + 3 * k)]]]

\* RAM and a hole that do not overlap, with an unused register between them; a hole
\* listed before the RAM around it; the same listed after it (a conflict); overlapping
\* ranges of one type; a range above the kept bits; no ranges; registers disabled.
MCSettings == {
    Regs(TRUE, TRUE, "UC", << R(TRUE, 0, 512, "WB"), R(FALSE, 0, 1024, "WP"), R(TRUE, 768, 128, "WC") >>),
    Regs(TRUE, TRUE, "WB", << R(FALSE, 256, 256, "WT"), R(TRUE, 512, 64, "UC"), R(TRUE, 0, 1024, "WB") >>),
    Regs(TRUE, TRUE, "UC", << R(TRUE, 0, 1024, "WB"), R(TRUE, 512, 64, "UC") >>),
    Regs(TRUE, TRUE, "UC", << R(TRUE, 256, 256, "WT"), R(TRUE, 0, 512, "WT") >>),
    Regs(TRUE, TRUE, "UC", << R(TRUE, 1024, 256, "WB") >>),
    Regs(TRUE, TRUE, "WB", << >>),
    Regs(FALSE, TRUE, "WB", << R(TRUE, 0, 512, "WB") >>),
    Regs(TRUE, FALSE, "WB", << R(TRUE, 0, 512, "WT") >>) }

MCPages == (0 .. 255) \cup {256, 300, 511, 512, 575, 576, 767, 768, 895, 896, 1023, 1024, 1300}
=============================================================================
