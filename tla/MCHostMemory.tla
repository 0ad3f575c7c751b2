---------------------------- MODULE MCHostMemory ----------------------------
(* One to three processors; an E820 map that ends at 1 GB, at the last region   *)
(* whose tables fit below the heap and at the first whose tables do not. The    *)
(* heap has 70 pages: enough for two launches on two processors, too little for *)
(* three processors.                                                            *)
EXTENDS HostMemory

MCMachines == [cpus: 1 .. 3, top: {512, MaxTop, MaxTop + 1}]

\* Less than a page, a page, more than a page.
MCAcpiSizes == {1, 4096, 5000}
=============================================================================
