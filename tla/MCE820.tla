------------------------------- MODULE MCE820 -------------------------------
(* Small machines: the loader's page at 1, the hypervisor at 6 .. 8. Entries  *)
(* out of order, touching, overlapping, of every type; RAM that starts at the *)
(* hypervisor, that is too small for it, that holds both reserved ranges.     *)
EXTENDS E820

E(base, len, type) == [base |-> base, len |-> len, type |-> type]

MCMaps == {
    << E(0, 4, 1), E(4, 1, 2), E(5, 7, 1), E(12, 2, 3) >>,
    << E(6, 5, 1), E(0, 3, 1), E(11, 1, 4) >>,
    << E(0, 12, 1), E(12, 1, 5) >>,
    << E(0, 4, 1), E(5, 6, 1), E(10, 3, 2) >>,
    << E(0, 4, 1), E(5, 3, 1), E(8, 4, 2) >> }

\* The RAM ends with the hypervisor's last page.
MCExactMaps == { << E(0, 4, 1), E(5, 4, 1), E(9, 3, 2) >> }
=============================================================================
