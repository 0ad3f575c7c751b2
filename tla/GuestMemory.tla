---------------------------- MODULE GuestMemory ----------------------------
(***************************************************************************)
(* What the guest is promised about its physical memory: pages are given   *)
(* to it one-to-one and one at a time while the hypervisor boots, the      *)
(* hypervisor's own pages never, and at the end one page, the one of the   *)
(* reserved serial port, may be taken away again. Nothing else happens.    *)
(***************************************************************************)
EXTENDS Integers

CONSTANTS Page,         \* guest-physical pages
          Reserved,     \* the hypervisor's own pages
          MemoryType    \* the caching type of each page

VARIABLE view           \* what each page is backed by, or Nothing

Nothing == [frame |-> -1, type |-> "none"]

Init == view = [p \in Page |-> Nothing]

Give(p) ==
    /\ view[p] = Nothing /\ p \notin Reserved
    /\ view' = [view EXCEPT ![p] = [frame |-> p, type |-> MemoryType[p]]]

Take(p) ==
    /\ view[p] # Nothing
    /\ view' = [view EXCEPT ![p] = Nothing]

Spec == Init /\ [][\E p \in Page : Give(p) \/ Take(p)]_view
=============================================================================
