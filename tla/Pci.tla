-------------------------------- MODULE Pci --------------------------------
(***************************************************************************)
(* The serial port that carries the log and is kept from the guest:        *)
(* PciInit's scan of the functions there are (src/minihv/pci.c), the       *)
(* search of pcci.c that it starts for every MosChip function it meets     *)
(* while the log has no port, and the page of configuration space that     *)
(* PciEcamRestrictAccessOnReservedSerialPort takes out of the guest's      *)
(* memory in the end.                                                      *)
(*                                                                         *)
(* Two loops choose a function each: the scan the one whose I/O base       *)
(* becomes gPort, the search the one whose page is hidden. They read       *)
(* different registers, visit different functions and stop for different   *)
(* reasons; the guest is kept from the log's port only if they agree.      *)
(*                                                                         *)
(* A device is bus * 32 + device; a function is a device and its number.   *)
(***************************************************************************)
EXTENDS Integers

CONSTANTS
    Devices,    \* the number of devices on all buses
    Funcs,      \* the functions of a device, 8 in the code
    Machines    \* what may be plugged in

Function == (0 .. Devices - 1) \X (0 .. Funcs - 1)
NoPage   == <<-1, -1>>

\* present: answers; mos: vendor 9710, device 9912; serial: class 7, subclass 0,
\* interface 2; io, port: the first base address register, without its flags.
Config  == [present: BOOLEAN, mos: BOOLEAN, serial: BOOLEAN, io: BOOLEAN, port: Nat]
\* multi: the header type's bit; mcfg, start: the MCFG table and the first device of its window
Machine == [func: [Function -> Config], multi: [0 .. Devices - 1 -> BOOLEAN],
            mcfg: BOOLEAN, start: 0 .. Devices - 1]

ASSUME ConstantsAreSane ==
    /\ Devices \in Nat \ {0} /\ Funcs \in Nat \ {0}
    /\ Machines \subseteq Machine
    /\ \A m \in Machines : \A x \in Function :
          m.func[x].mos => m.func[x].present

VARIABLES
    machine,        \* what is plugged in
    pc,             \* "visit", "search", "init", "restrict", "done"
    at,             \* the function the scan looks at
    cursor,         \* the function the search looks at
    gPort,          \* the port the log goes to, 0 for none
    reservedPort,   \* m_reservedSerialPort
    reserved,       \* m_reservedSerialPortConfigAddresses
    prints,         \* where Init sends the output: "console" or "serial"
    hidden          \* the page taken from the guest, as an offset in the window

vars == <<machine, pc, at, cursor, gPort, reservedPort, reserved, prints, hidden>>

IsMos(x)    == machine.func[x].mos
IsSerial(x) == machine.func[x].serial
Port(x)     == machine.func[x].port

First      == <<0, 0>>
\* Past the last device a scan is over.
Over(x)    == x[1] = Devices
NextDev(x) == <<x[1] + 1, 0>>
NextFun(x, count) == IF x[2] + 1 < count THEN <<x[1], x[2] + 1>> ELSE NextDev(x)

\* An absent function reads as ones, the multi-function bit included.
FuncCount(d) == IF machine.multi[d] \/ ~ machine.func[<<d, 0>>].present THEN Funcs ELSE 1

Init ==
    /\ machine \in Machines
    /\ pc = "visit" /\ at = First /\ cursor = First
    /\ gPort = 0 /\ reservedPort = 0 /\ reserved = First
    /\ prints = "console" /\ hidden = NoPage

---------------------------------------------------------------------------
(* PciInit, PciVisit *)

\* Mutant: only the first function of a device is visited.
PciVisitFirst ==
    /\ pc = "visit" /\ ~ Over(at)
    /\ IF IsMos(at) /\ gPort = 0
       THEN pc' = "search" /\ cursor' = First /\ UNCHANGED at
       ELSE at' = NextDev(at) /\ UNCHANGED <<pc, cursor>>
    /\ UNCHANGED <<machine, gPort, reservedPort, reserved, prints, hidden>>

PciVisit ==
    /\ pc = "visit" /\ ~ Over(at)
    /\ IF IsMos(at) /\ gPort = 0
       THEN pc' = "search" /\ cursor' = First /\ UNCHANGED at
       ELSE at' = NextFun(at, FuncCount(at[1])) /\ UNCHANGED <<pc, cursor>>
    /\ UNCHANGED <<machine, gPort, reservedPort, reserved, prints, hidden>>

\* The class is not looked at; without an I/O base the log still has no port.
InitSerial ==
    /\ pc = "init"
    /\ gPort' = IF machine.func[at].io THEN Port(at) ELSE 0
    /\ at' = NextFun(at, FuncCount(at[1])) /\ pc' = "visit"
    /\ UNCHANGED <<machine, cursor, reservedPort, reserved, prints, hidden>>

\* The end of the scan: Init chooses the output once more.
PciInitEnds ==
    /\ pc = "visit" /\ Over(at)
    /\ prints' = IF gPort = 0 THEN "console" ELSE "serial"
    /\ pc' = "restrict"
    /\ UNCHANGED <<machine, at, cursor, gPort, reservedPort, reserved, hidden>>

---------------------------------------------------------------------------
(* PciSearchDevice *)

\* Mutant: every match is stored.
SearchKeepsLast ==
    /\ pc = "search" /\ ~ Over(cursor)
    /\ cursor' = IF IsMos(cursor) THEN NextFun(cursor, Funcs) ELSE NextDev(cursor)
    /\ IF IsMos(cursor) /\ IsSerial(cursor)
       THEN reservedPort' = Port(cursor) /\ reserved' = cursor
       ELSE UNCHANGED <<reservedPort, reserved>>
    /\ UNCHANGED <<machine, pc, at, gPort, prints, hidden>>

\* Mutant: the search leaves a device at a function of another class, too.
SearchLeavesAtClass ==
    /\ pc = "search" /\ ~ Over(cursor)
    /\ cursor' = IF IsMos(cursor) /\ IsSerial(cursor) THEN NextFun(cursor, Funcs)
                 ELSE NextDev(cursor)
    /\ IF IsMos(cursor) /\ IsSerial(cursor) /\ reservedPort = 0
       THEN reservedPort' = Port(cursor) /\ reserved' = cursor
       ELSE UNCHANGED <<reservedPort, reserved>>
    /\ UNCHANGED <<machine, pc, at, gPort, prints, hidden>>

\* Mutant: the search stays at a function that is not the port.
SearchStays ==
    /\ pc = "search" /\ ~ Over(cursor)
    /\ cursor' = IF IsMos(cursor) THEN NextFun(cursor, Funcs) ELSE cursor
    /\ UNCHANGED <<reservedPort, reserved, machine, pc, at, gPort, prints, hidden>>

\* One function: one that is not the device asked for ends its device, one of another
\* class is passed over. A match counts while no port is stored, so one whose base
\* register is 0 is stored and does not end the search.
SearchFunction ==
    /\ pc = "search" /\ ~ Over(cursor)
    /\ cursor' = IF IsMos(cursor) THEN NextFun(cursor, Funcs) ELSE NextDev(cursor)
    /\ IF IsMos(cursor) /\ IsSerial(cursor) /\ reservedPort = 0
       THEN reservedPort' = Port(cursor) /\ reserved' = cursor
       ELSE UNCHANGED <<reservedPort, reserved>>
    /\ UNCHANGED <<machine, pc, at, gPort, prints, hidden>>

SearchEnds ==
    /\ pc = "search" /\ Over(cursor)
    /\ pc' = "init"
    /\ UNCHANGED <<machine, at, cursor, gPort, reservedPort, reserved, prints, hidden>>

---------------------------------------------------------------------------
(* PciEcamRestrictAccessOnReservedSerialPort *)

\* Mutant: the window is taken to begin with the first bus.
EcamPageNoStart(x) == x

\* PciGetEcamFunctionPa: the window's last bus is not looked at.
EcamPage(x) == <<x[1] - machine.start, x[2]>>

Restrict ==
    /\ pc = "restrict" /\ pc' = "done"
    /\ hidden' = IF machine.mcfg THEN EcamPage(reserved) ELSE NoPage
    /\ UNCHANGED <<machine, at, cursor, gPort, reservedPort, reserved, prints>>

Next ==
    \/ PciVisit \/ InitSerial \/ PciInitEnds
    \/ SearchFunction \/ SearchEnds
    \/ Restrict

Spec     == Init /\ [][Next]_vars
\* The boot thread runs alone and is not interrupted.
FairSpec == Spec /\ WF_vars(Next)

---------------------------------------------------------------------------
(* Properties *)

TypeOK ==
    /\ machine \in Machine
    /\ pc \in {"visit", "search", "init", "restrict", "done"}
    /\ at \in Function \cup {<<Devices, 0>>}
    /\ cursor \in Function \cup {<<Devices, 0>>}
    /\ pc \in {"search", "init"} => at \in Function
    /\ gPort \in Nat /\ reservedPort \in Nat /\ reserved \in Function
    /\ prints \in {"console", "serial"}
    /\ hidden \in Int \X Int

Before(x, y) == x[1] < y[1] \/ (x[1] = y[1] /\ x[2] < y[2])
IsPort(x)    == IsMos(x) /\ IsSerial(x) /\ Port(x) # 0

\* The functions the search comes to: those with no other device's function below them.
Reachable(x) == \A k \in 0 .. x[2] : IsMos(<<x[1], k>>)
\* The functions the scan comes to.
Visitable(x) == x[2] < FuncCount(x[1])

\* What is reserved is the first port the search can come to, never a function of
\* another class or a later port, however often the search has run and whatever it
\* has passed over (PciSearchDevice, *Port == 0).
ReservedIsTheFirstPort ==
    reservedPort # 0 =>
        /\ IsPort(reserved) /\ Port(reserved) = reservedPort
        /\ \A x \in Function : IsPort(x) /\ Reachable(x) => ~ Before(x, reserved)

\* A port is missed only where the search does not come: not behind a function of
\* another class, and not because an earlier match had no port.
NoPortIsMissed ==
    (pc = "init" /\ \E x \in Function : IsPort(x) /\ Reachable(x)) => reservedPort # 0

\* The search by class (and revision) ends with the first port it can come to.
SearchIsExact == ReservedIsTheFirstPort /\ NoPortIsMissed

\* Every MosChip function is a serial port with an I/O base, in a device made of such
\* functions that says how many it has.
Plain ==
    \A x \in Function :
        IsMos(x) => IsPort(x) /\ machine.func[x].io /\ Reachable(x) /\ Visitable(x)

\* On such a machine the log goes to the very function that is kept from the guest: the
\* two loops agree.
LogPortIsReserved ==
    (Plain /\ gPort # 0) => IsPort(reserved) /\ gPort = Port(reserved)

\* Output goes to a serial port if the scan can come to a MosChip function with an I/O
\* base, whatever was met before it.
LogHasAPort ==
    (/\ pc \in {"restrict", "done"}
     /\ \E x \in Function :
            IsMos(x) /\ machine.func[x].io /\ Port(x) # 0 /\ Visitable(x))
        => gPort # 0 /\ prints = "serial"

\* The page taken from the guest is the configuration page of a serial port, when the
\* scan met one and the MCFG window covers its bus: no other device loses its page.
OnlyAPortIsHidden ==
    (hidden # NoPage /\ reservedPort # 0 /\ hidden[1] >= 0) =>
        LET x == <<hidden[1] + machine.start, hidden[2]>>
        IN x \in Function /\ IsPort(x)

\* The scan comes to its end.
ScanEnds == <>(pc = "done")
=============================================================================
