------------------------------- MODULE MCEpt -------------------------------
(* A small machine: tables of three entries, 81 pages, a hypervisor hole     *)
(* that starts and ends inside a table, and an E820 end that is not on a     *)
(* page boundary, so that each of the three gotos and the full walk occur.   *)
EXTENDS Ept

MCJunk == [acc |-> TRUE, to |-> 1, type |-> "UC"]

\* In bytes of a two-byte page: up to 17, 29 and 45 pages above the hypervisor.
MCMaxAddresses == {34, 57, 89}

\* Below, inside and above the hypervisor's memory, on table boundaries, beyond
\* what is mapped.
MCEcamPages == {0, 4, 7, 13, 26, 27, 53, 54, 80}

\* Uncached at the legacy hole and at the top, write-back elsewhere.
MCMemoryType == [p \in Page |-> IF p \in {2, 3} \cup 40 .. 80 THEN "UC" ELSE "WB"]
=============================================================================
