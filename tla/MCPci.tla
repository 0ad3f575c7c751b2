------------------------------- MODULE MCPci --------------------------------
(* Two buses of two devices with two functions. The functions of the first device *)
(* and the first of the third take every configuration, the fourth is a port or   *)
(* absent, the others are of another vendor or absent; every header type, and     *)
(* every window that begins at a bus, or none.                                    *)
EXTENDS Pci

C(present, mos, serial, io, port) ==
    [present |-> present, mos |-> mos, serial |-> serial, io |-> io, port |-> port]

Absent == C(FALSE, FALSE, FALSE, FALSE, 0)
Other  == C(TRUE, FALSE, FALSE, TRUE, 9)

\* A serial port and its parallel sibling (another class), with an I/O base, without
\* one (memory), and with a base register that was never written.
Configs(p) == { Absent, Other, C(TRUE, TRUE, TRUE, TRUE, p), C(TRUE, TRUE, FALSE, TRUE, p),
                C(TRUE, TRUE, TRUE, FALSE, p), C(TRUE, TRUE, TRUE, TRUE, 0) }

MCMachines ==
    { [func |-> [x \in Function |->
                    CASE x = <<0, 0>> -> a [] x = <<0, 1>> -> b
                      [] x = <<2, 0>> -> c [] x = <<2, 1>> -> d
                      [] x = <<3, 0>> -> Other [] OTHER -> Absent],
       multi |-> [k \in 0 .. 3 |-> CASE k = 0 -> m1 [] k = 2 -> m2 [] OTHER -> FALSE],
       mcfg |-> w[1], start |-> w[2]] :
      a \in Configs(1), b \in Configs(2), c \in Configs(3), d \in {Absent, C(TRUE, TRUE, TRUE, TRUE, 4)},
      m1 \in BOOLEAN, m2 \in BOOLEAN, w \in {<<FALSE, 0>>, <<TRUE, 0>>, <<TRUE, 2>>} }
=============================================================================
