----------------------------- MODULE PciProofs ------------------------------
(***************************************************************************)
(* Theorems about Pci for any number of devices and functions and whatever *)
(* is plugged in.                                                          *)
(*                                                                         *)
(* The invariant says what each of the two loops has ruled out behind its  *)
(* place: the search no port it could have come to (SearchedBehind), the   *)
(* scan no base it could have sent the log to (VisitedBehind). Where both  *)
(* look at the same functions, the first one either finds is the other's.  *)
(***************************************************************************)
EXTENDS Pci, TLAPS

CanLog(x) == IsMos(x) /\ machine.func[x].io /\ Port(x) # 0 /\ Visitable(x)

SearchedBehind ==
    pc = "search" =>
        \A x \in Function :
            IsPort(x) /\ Reachable(x) /\ Before(x, cursor) => reservedPort # 0

VisitedBehind ==
    gPort = 0 =>
        \A x \in Function : CanLog(x) => ~ Before(x, at)

\* While a search runs the log has no port and the scan stands at a MosChip function.
ScanWaits == pc \in {"search", "init"} => gPort = 0 /\ IsMos(at)

LogIsReserved ==
    (Plain /\ gPort # 0) => reservedPort # 0 /\ gPort = Port(reserved)

HiddenIsReserved ==
    hidden # NoPage => pc = "done" /\ hidden = EcamPage(reserved)

ScanIsOver ==
    pc \in {"restrict", "done"} =>
        at = <<Devices, 0>> /\ prints = (IF gPort = 0 THEN "console" ELSE "serial")

Inv ==
    /\ TypeOK
    /\ ReservedIsTheFirstPort /\ NoPortIsMissed /\ SearchedBehind
    /\ VisitedBehind /\ ScanWaits /\ ScanIsOver
    /\ LogIsReserved /\ HiddenIsReserved

---------------------------------------------------------------------------
(* The order of the functions *)

LEMMA FunctionIsAPair ==
    ASSUME NEW x \in Function
    PROVE  /\ x = <<x[1], x[2]>>
           /\ x[1] \in 0 .. Devices - 1 /\ x[2] \in 0 .. Funcs - 1
BY DEF Function

\* The step to the next function stays in range and passes over nothing but the end
\* of the device.
LEMMA NextFunStep ==
    ASSUME NEW x \in Function, NEW count \in 1 .. Funcs, NEW y \in Function,
           Before(y, NextFun(x, count))
    PROVE  Before(y, x) \/ y = x \/ (y[1] = x[1] /\ y[2] > x[2] /\ y[2] >= count)
<1>1. /\ x[1] \in Nat /\ x[2] \in Nat /\ y[1] \in Nat /\ y[2] \in Nat
      /\ y = <<y[1], y[2]>> /\ x = <<x[1], x[2]>>
  BY FunctionIsAPair, ConstantsAreSane
<1>2. CASE x[2] + 1 < count
  <2>1. y[1] < x[1] \/ (y[1] = x[1] /\ y[2] < x[2] + 1)
    BY <1>2 DEF NextFun, Before
  <2> QED BY <1>1, <2>1 DEF Before
<1>3. CASE ~ (x[2] + 1 < count)
  <2>1. y[1] < x[1] + 1 \/ (y[1] = x[1] + 1 /\ y[2] < 0)
    BY <1>3 DEF NextFun, NextDev, Before
  <2>2. y[1] < x[1] \/ y[1] = x[1]  BY <1>1, <2>1
  <2> QED BY <1>1, <1>3, <2>2, ConstantsAreSane DEF Before
<1> QED BY <1>2, <1>3

LEMMA NextDevStep ==
    ASSUME NEW x \in Function, NEW y \in Function, Before(y, NextDev(x))
    PROVE  Before(y, x) \/ y = x \/ (y[1] = x[1] /\ y[2] > x[2])
<1>1. /\ x[1] \in Nat /\ x[2] \in Nat /\ y[1] \in Nat /\ y[2] \in Nat
      /\ y = <<y[1], y[2]>> /\ x = <<x[1], x[2]>>
  BY FunctionIsAPair, ConstantsAreSane
<1>2. y[1] < x[1] + 1 \/ (y[1] = x[1] + 1 /\ y[2] < 0)
  BY DEF NextDev, Before
<1> QED BY <1>1, <1>2 DEF Before

LEMMA NextFunType ==
    ASSUME NEW x \in Function, NEW count \in 1 .. Funcs
    PROVE  /\ NextFun(x, count) \in Function \cup {<<Devices, 0>>}
           /\ NextDev(x) \in Function \cup {<<Devices, 0>>}
<1>1. x[1] \in 0 .. Devices - 1 /\ x[2] \in 0 .. Funcs - 1  BY FunctionIsAPair
<1>2. NextDev(x) \in Function \cup {<<Devices, 0>>}
  <2>1. CASE x[1] + 1 = Devices  BY <2>1 DEF NextDev
  <2>2. CASE x[1] + 1 # Devices
    BY <1>1, <2>2, ConstantsAreSane DEF NextDev, Function
  <2> QED BY <2>1, <2>2
<1>3. x[2] + 1 < count => <<x[1], x[2] + 1>> \in Function
  BY <1>1, ConstantsAreSane DEF Function
<1> QED BY <1>2, <1>3 DEF NextFun

LEMMA CountType ==
    ASSUME NEW d
    PROVE  FuncCount(d) \in 1 .. Funcs
BY ConstantsAreSane DEF FuncCount

\* Past the end everything lies behind; a place that is not past it is a function.
LEMMA EndOfScan ==
    ASSUME NEW x \in Function \cup {<<Devices, 0>>}
    PROVE  /\ Over(x) => x = <<Devices, 0>> /\ \A y \in Function : Before(y, x)
           /\ ~ Over(x) => x \in Function
<1>1. CASE x \in Function
  <2>1. x[1] \in 0 .. Devices - 1  BY <1>1, FunctionIsAPair
  <2> QED BY <1>1, <2>1, ConstantsAreSane DEF Over
<1>2. CASE x = <<Devices, 0>>
  <2>1. \A y \in Function : y[1] \in 0 .. Devices - 1  BY FunctionIsAPair
  <2> QED BY <1>2, <2>1, ConstantsAreSane DEF Over, Before
<1> QED BY <1>1, <1>2

---------------------------------------------------------------------------
(* The invariant *)

LEMMA FirstIsAFunction == First \in Function
BY ConstantsAreSane DEF First, Function

LEMMA InitInv == Init => Inv
<1> SUFFICES ASSUME Init PROVE Inv  OBVIOUS
<1> USE DEF Init
<1>1. machine \in Machine  BY ConstantsAreSane
<1>2. First \in Function  BY FirstIsAFunction
<1>3. \A x \in Function : ~ Before(x, First)
  <2> SUFFICES ASSUME NEW x \in Function PROVE ~ Before(x, First)  OBVIOUS
  <2>1. x[1] \in Nat /\ x[2] \in Nat  BY FunctionIsAPair, ConstantsAreSane
  <2> QED BY <2>1 DEF Before, First
<1>4. TypeOK  BY <1>1, <1>2 DEF TypeOK, NoPage
<1>5. ReservedIsTheFirstPort /\ NoPortIsMissed /\ SearchedBehind
  BY DEF ReservedIsTheFirstPort, NoPortIsMissed, SearchedBehind
<1>6. VisitedBehind  BY <1>3 DEF VisitedBehind
<1>7. ScanWaits /\ ScanIsOver /\ LogIsReserved /\ HiddenIsReserved
  BY DEF ScanWaits, ScanIsOver, LogIsReserved, HiddenIsReserved
<1> QED BY <1>4, <1>5, <1>6, <1>7 DEF Inv

\* What is plugged in does not change, nor does anything that is read off it.
LEMMA Unplugged ==
    ASSUME machine' = machine
    PROVE  /\ Plain' <=> Plain
           /\ \A x : /\ IsPort(x)' <=> IsPort(x)
                     /\ Reachable(x)' <=> Reachable(x)
                     /\ CanLog(x)' <=> CanLog(x)
                     /\ IsMos(x)' <=> IsMos(x)
                     /\ Port(x)' = Port(x)
BY DEF Plain, IsPort, Reachable, CanLog, Visitable, FuncCount, IsMos, IsSerial, Port

LEMMA VisitInv == Inv /\ PciVisit => Inv'
<1> SUFFICES ASSUME Inv, PciVisit PROVE Inv'  OBVIOUS
<1> USE DEF Inv
<1>0. machine' = machine  BY DEF PciVisit
<1>1. /\ UNCHANGED <<gPort, reservedPort, reserved, prints, hidden>>
      /\ pc = "visit" /\ at \in Function
  BY EndOfScan DEF PciVisit, TypeOK
<1>2. CASE IsMos(at) /\ gPort = 0
  <2>1. pc' = "search" /\ cursor' = First /\ at' = at  BY <1>2 DEF PciVisit
  <2>2. \A x \in Function : ~ Before(x, First)
    <3> SUFFICES ASSUME NEW x \in Function PROVE ~ Before(x, First)  OBVIOUS
    <3>1. x[1] \in Nat /\ x[2] \in Nat  BY FunctionIsAPair, ConstantsAreSane
    <3> QED BY <3>1 DEF Before, First
  <2>3. TypeOK'  BY <1>0, <1>1, <2>1, FirstIsAFunction DEF TypeOK
  <2>4. ReservedIsTheFirstPort'
    BY <1>0, <1>1, Unplugged DEF ReservedIsTheFirstPort
  <2>5. NoPortIsMissed' /\ SearchedBehind'
    BY <2>1, <2>2 DEF NoPortIsMissed, SearchedBehind
  <2>6. VisitedBehind'  BY <1>0, <1>1, <2>1, Unplugged DEF VisitedBehind
  <2>7. ScanWaits'  BY <1>0, <1>1, <1>2, <2>1, Unplugged DEF ScanWaits
  <2>8. ScanIsOver' /\ HiddenIsReserved'
    BY <1>0, <1>1, <2>1 DEF ScanIsOver, HiddenIsReserved, NoPage
  <2>9. LogIsReserved'  BY <1>1, <1>2 DEF LogIsReserved
  <2> QED BY <2>3, <2>4, <2>5, <2>6, <2>7, <2>8, <2>9
<1>3. CASE ~ (IsMos(at) /\ gPort = 0)
  <2>1. pc' = "visit" /\ cursor' = cursor /\ at' = NextFun(at, FuncCount(at[1]))
    BY <1>3, <1>1 DEF PciVisit
  <2>2. TypeOK'
    BY <1>0, <1>1, <2>1, NextFunType, CountType DEF TypeOK
  <2>3. ReservedIsTheFirstPort'
    BY <1>0, <1>1, Unplugged DEF ReservedIsTheFirstPort
  <2>4. NoPortIsMissed' /\ SearchedBehind' /\ ScanWaits' /\ ScanIsOver'
    BY <2>1 DEF NoPortIsMissed, SearchedBehind, ScanWaits, ScanIsOver
  <2>5. VisitedBehind'
    <3> SUFFICES ASSUME gPort = 0, NEW x \in Function, CanLog(x), Before(x, at')
                 PROVE  FALSE
      BY <1>0, <1>1, Unplugged DEF VisitedBehind
    <3>1. ~ Before(x, at)  BY DEF VisitedBehind
    <3>2. x # at  BY <1>3 DEF CanLog
    <3>3. x[1] = at[1] /\ x[2] >= FuncCount(at[1])
      BY <1>1, <2>1, <3>1, <3>2, NextFunStep, CountType
    <3>4. x[2] \in Nat /\ FuncCount(at[1]) \in Nat
      BY FunctionIsAPair, CountType, ConstantsAreSane
    <3> QED BY <3>3, <3>4 DEF CanLog, Visitable
  <2>6. LogIsReserved'  BY <1>0, <1>1, Unplugged DEF LogIsReserved
  <2>7. HiddenIsReserved'  BY <1>0, <1>1 DEF HiddenIsReserved
  <2> QED BY <2>2, <2>3, <2>4, <2>5, <2>6, <2>7
<1> QED BY <1>2, <1>3

LEMMA SearchInv == Inv /\ SearchFunction => Inv'
<1> SUFFICES ASSUME Inv, SearchFunction PROVE Inv'  OBVIOUS
<1> USE DEF Inv
<1>0. machine' = machine  BY DEF SearchFunction
<1>1. /\ UNCHANGED <<pc, at, gPort, prints, hidden>>
      /\ pc = "search" /\ cursor \in Function
  BY EndOfScan DEF SearchFunction, TypeOK
<1>2. cursor' = IF IsMos(cursor) THEN NextFun(cursor, Funcs) ELSE NextDev(cursor)
  BY DEF SearchFunction
<1>3. Funcs \in 1 .. Funcs  BY ConstantsAreSane
<1>4. ReservedIsTheFirstPort'
  <2>1. CASE IsMos(cursor) /\ IsSerial(cursor) /\ reservedPort = 0
    <3>1. reservedPort' = Port(cursor) /\ reserved' = cursor
      BY <2>1 DEF SearchFunction
    <3>2. \A x \in Function : IsPort(x) /\ Reachable(x) => ~ Before(x, cursor)
      BY <1>1, <2>1 DEF SearchedBehind
    <3> QED BY <1>0, <2>1, <3>1, <3>2, Unplugged DEF ReservedIsTheFirstPort, IsPort
  <2>2. CASE ~ (IsMos(cursor) /\ IsSerial(cursor) /\ reservedPort = 0)
    <3>1. UNCHANGED <<reservedPort, reserved>>  BY <2>2 DEF SearchFunction
    <3> QED BY <1>0, <3>1, Unplugged DEF ReservedIsTheFirstPort
  <2> QED BY <2>1, <2>2
<1>5. Port(cursor) \in Nat
  BY <1>1 DEF Port, TypeOK, Machine, Config
<1>6. TypeOK'
  <2>1. reservedPort' \in Nat /\ reserved' \in Function
    BY <1>1, <1>5 DEF SearchFunction, TypeOK
  <2>2. cursor' \in Function \cup {<<Devices, 0>>}
    BY <1>1, <1>2, <1>3, NextFunType
  <2> QED BY <1>0, <1>1, <2>1, <2>2 DEF TypeOK
<1>7. SearchedBehind'
  <2> SUFFICES ASSUME NEW x \in Function, IsPort(x), Reachable(x), Before(x, cursor')
               PROVE  reservedPort' # 0
    BY <1>0, Unplugged DEF SearchedBehind
  <2>1. reservedPort # 0 => reservedPort' # 0  BY DEF SearchFunction
  <2>2. CASE Before(x, cursor)  BY <1>1, <2>1, <2>2 DEF SearchedBehind
  <2>3. CASE x = cursor  BY <2>1, <2>3 DEF SearchFunction, IsPort
  <2>4. CASE x[1] = cursor[1] /\ x[2] > cursor[2] /\ ~ IsMos(cursor)
    <3>1. cursor[2] \in 0 .. x[2] /\ cursor = <<x[1], cursor[2]>>
      BY <1>1, <2>4, FunctionIsAPair, ConstantsAreSane
    <3> QED BY <2>4, <3>1 DEF Reachable
  <2>5. Before(x, cursor) \/ x = cursor
        \/ (x[1] = cursor[1] /\ x[2] > cursor[2] /\ ~ IsMos(cursor))
    <3>1. CASE IsMos(cursor)
      <4>1. ~ (x[2] >= Funcs)  BY FunctionIsAPair, ConstantsAreSane
      <4> QED BY <1>1, <1>2, <1>3, <3>1, <4>1, NextFunStep
    <3>2. CASE ~ IsMos(cursor)  BY <1>1, <1>2, <3>2, NextDevStep
    <3> QED BY <3>1, <3>2
  <2> QED BY <2>2, <2>3, <2>4, <2>5
<1>8. NoPortIsMissed' /\ ScanIsOver'
  BY <1>1 DEF NoPortIsMissed, ScanIsOver
<1>9. VisitedBehind' /\ ScanWaits'
  BY <1>0, <1>1, Unplugged DEF VisitedBehind, ScanWaits
<1>10. LogIsReserved' /\ HiddenIsReserved'
  BY <1>1 DEF LogIsReserved, HiddenIsReserved, ScanWaits
<1> QED BY <1>4, <1>6, <1>7, <1>8, <1>9, <1>10

LEMMA SearchEndsInv == Inv /\ SearchEnds => Inv'
<1> SUFFICES ASSUME Inv, SearchEnds PROVE Inv'  OBVIOUS
<1> USE DEF Inv
<1>1. /\ UNCHANGED <<machine, at, cursor, gPort, reservedPort, reserved, prints, hidden>>
      /\ pc = "search" /\ pc' = "init" /\ Over(cursor)
  BY DEF SearchEnds
<1>2. \A x \in Function : Before(x, cursor)  BY <1>1, EndOfScan DEF TypeOK
<1>3. TypeOK'  BY <1>1 DEF TypeOK
<1>4. ReservedIsTheFirstPort' /\ VisitedBehind' /\ ScanWaits' /\ LogIsReserved'
  BY <1>1, Unplugged DEF ReservedIsTheFirstPort, VisitedBehind, ScanWaits, LogIsReserved
<1>5. NoPortIsMissed'
  BY <1>1, <1>2, Unplugged DEF NoPortIsMissed, SearchedBehind
<1>6. SearchedBehind' /\ ScanIsOver' /\ HiddenIsReserved'
  BY <1>1 DEF SearchedBehind, ScanIsOver, HiddenIsReserved
<1> QED BY <1>3, <1>4, <1>5, <1>6

\* Where the scan's function is a port the search can come to, it is the one found.
LEMMA InitSerialInv == Inv /\ InitSerial => Inv'
<1> SUFFICES ASSUME Inv, InitSerial PROVE Inv'  OBVIOUS
<1> USE DEF Inv
<1>1. /\ UNCHANGED <<machine, cursor, reservedPort, reserved, prints, hidden>>
      /\ pc = "init" /\ pc' = "visit" /\ at \in Function /\ IsMos(at) /\ gPort = 0
      /\ gPort' = (IF machine.func[at].io THEN Port(at) ELSE 0)
      /\ at' = NextFun(at, FuncCount(at[1]))
  BY DEF InitSerial, TypeOK, ScanWaits
<1>2. TypeOK'
  <2>1. Port(at) \in Nat  BY <1>1 DEF Port, TypeOK, Machine, Config
  <2> QED BY <1>1, <2>1, NextFunType, CountType DEF TypeOK
<1>3. ReservedIsTheFirstPort'  BY <1>1, Unplugged DEF ReservedIsTheFirstPort
<1>4. NoPortIsMissed' /\ SearchedBehind' /\ ScanWaits' /\ ScanIsOver' /\ HiddenIsReserved'
  BY <1>1 DEF NoPortIsMissed, SearchedBehind, ScanWaits, ScanIsOver, HiddenIsReserved
<1>5. VisitedBehind'
  <2> SUFFICES ASSUME gPort' = 0, NEW x \in Function, CanLog(x), Before(x, at')
               PROVE  FALSE
    BY <1>1, Unplugged DEF VisitedBehind
  <2>1. ~ Before(x, at)  BY <1>1 DEF VisitedBehind
  <2>2. x # at  BY <1>1 DEF CanLog
  <2>3. x[1] = at[1] /\ x[2] >= FuncCount(at[1])
    BY <1>1, <2>1, <2>2, NextFunStep, CountType
  <2>4. x[2] \in Nat /\ FuncCount(at[1]) \in Nat
    BY FunctionIsAPair, CountType, ConstantsAreSane
  <2> QED BY <2>3, <2>4 DEF CanLog, Visitable
<1>6. LogIsReserved'
  <2> SUFFICES ASSUME Plain, gPort' # 0
               PROVE  reservedPort # 0 /\ gPort' = Port(reserved)
    BY <1>1, Unplugged DEF LogIsReserved
  <2>1. IsPort(at) /\ Reachable(at) /\ gPort' = Port(at)  BY <1>1 DEF Plain
  <2>2. reservedPort # 0  BY <1>1, <2>1 DEF NoPortIsMissed
  <2>3. IsPort(reserved) /\ reserved \in Function /\ ~ Before(at, reserved)
    BY <1>1, <2>1, <2>2 DEF ReservedIsTheFirstPort, TypeOK
  <2>4. CanLog(reserved)  BY <2>3 DEF Plain, CanLog, IsPort
  <2>5. ~ Before(reserved, at)  BY <1>1, <2>3, <2>4 DEF VisitedBehind
  <2>6. reserved = at
    <3>1. /\ at = <<at[1], at[2]>> /\ at[1] \in Nat /\ at[2] \in Nat
          /\ reserved = <<reserved[1], reserved[2]>>
          /\ reserved[1] \in Nat /\ reserved[2] \in Nat
      BY <1>1, <2>3, FunctionIsAPair, ConstantsAreSane
    <3> QED BY <2>3, <2>5, <3>1 DEF Before
  <2> QED BY <2>1, <2>2, <2>6
<1> QED BY <1>2, <1>3, <1>4, <1>5, <1>6

LEMMA EndInv == Inv /\ (PciInitEnds \/ Restrict) => Inv'
<1> SUFFICES ASSUME Inv, PciInitEnds \/ Restrict PROVE Inv'  OBVIOUS
<1> USE DEF Inv
<1>1. CASE PciInitEnds
  <2>1. /\ UNCHANGED <<machine, at, cursor, gPort, reservedPort, reserved, hidden>>
        /\ pc = "visit" /\ pc' = "restrict"
        /\ prints' = (IF gPort = 0 THEN "console" ELSE "serial")
        /\ at = <<Devices, 0>>
    BY <1>1, EndOfScan DEF PciInitEnds, TypeOK
  <2>2. TypeOK'  BY <2>1 DEF TypeOK
  <2>3. ReservedIsTheFirstPort' /\ VisitedBehind' /\ LogIsReserved'
    BY <2>1, Unplugged DEF ReservedIsTheFirstPort, VisitedBehind, LogIsReserved
  <2> QED BY <2>1, <2>2, <2>3
          DEF NoPortIsMissed, SearchedBehind, ScanWaits, ScanIsOver, HiddenIsReserved
<1>2. CASE Restrict
  <2>1. /\ UNCHANGED <<machine, at, cursor, gPort, reservedPort, reserved, prints>>
        /\ pc = "restrict" /\ pc' = "done"
        /\ hidden' = (IF machine.mcfg THEN EcamPage(reserved) ELSE NoPage)
    BY <1>2 DEF Restrict
  <2>2. TypeOK'
    <3>1. reserved[1] \in Int /\ reserved[2] \in Int /\ machine.start \in Int
      BY FunctionIsAPair, ConstantsAreSane DEF TypeOK, Machine
    <3>2. EcamPage(reserved) \in Int \X Int /\ NoPage \in Int \X Int
      BY <3>1 DEF EcamPage, NoPage
    <3> QED BY <2>1, <3>2 DEF TypeOK
  <2>3. ReservedIsTheFirstPort' /\ VisitedBehind' /\ LogIsReserved'
    BY <2>1, Unplugged DEF ReservedIsTheFirstPort, VisitedBehind, LogIsReserved
  <2>4. EcamPage(reserved)' = EcamPage(reserved)  BY <2>1 DEF EcamPage
  <2> QED BY <2>1, <2>2, <2>3, <2>4
          DEF NoPortIsMissed, SearchedBehind, ScanWaits, ScanIsOver, HiddenIsReserved
<1> QED BY <1>1, <1>2

LEMMA StepInv == Inv /\ [Next]_vars => Inv'
<1> SUFFICES ASSUME Inv, [Next]_vars PROVE Inv'  OBVIOUS
<1>1. CASE UNCHANGED vars
  BY <1>1 DEF vars, Inv, TypeOK, ReservedIsTheFirstPort, NoPortIsMissed, SearchedBehind,
     VisitedBehind, ScanWaits, ScanIsOver, LogIsReserved, HiddenIsReserved, Plain, IsPort,
     Reachable, CanLog, Visitable, FuncCount, IsMos, IsSerial, Port, EcamPage
<1> QED BY <1>1, VisitInv, SearchInv, SearchEndsInv, InitSerialInv, EndInv DEF Next

THEOREM Invariance == Spec => []Inv
BY InitInv, StepInv, PTL DEF Spec

---------------------------------------------------------------------------
(* The theorems *)

\* The variables stay in their types.
THEOREM TypesAreKept == Spec => []TypeOK
<1>1. Inv => TypeOK  BY DEF Inv
<1> QED BY <1>1, Invariance, PTL

\* What PciSearchDevice reserves is the first port it can come to, and no port it can
\* come to is missed.
THEOREM SearchFindsTheFirst == Spec => []SearchIsExact
<1>1. Inv => SearchIsExact  BY DEF Inv, SearchIsExact
<1> QED BY <1>1, Invariance, PTL

\* On a machine whose MosChip functions are all serial ports in regular devices the
\* log's port is the one kept from the guest.
THEOREM LoopsAgree == Spec => []LogPortIsReserved
<1>1. Inv => LogPortIsReserved
  BY DEF Inv, LogPortIsReserved, LogIsReserved, ReservedIsTheFirstPort
<1> QED BY <1>1, Invariance, PTL

\* The log has a port when the scan can come to one.
THEOREM LogGetsAPort == Spec => []LogHasAPort
<1>1. Inv => LogHasAPort
  <2> SUFFICES ASSUME Inv, pc \in {"restrict", "done"}, NEW x \in Function, CanLog(x)
               PROVE  gPort # 0 /\ prints = "serial"
    BY DEF LogHasAPort, CanLog
  <2>1. at = <<Devices, 0>> /\ prints = (IF gPort = 0 THEN "console" ELSE "serial")
    BY DEF Inv, ScanIsOver
  <2>2. Before(x, at)  BY <2>1, EndOfScan DEF Over
  <2> QED BY <2>1, <2>2 DEF Inv, VisitedBehind
<1> QED BY <1>1, Invariance, PTL

\* No device but a serial port loses its configuration page.
THEOREM OthersKeepTheirPage == Spec => []OnlyAPortIsHidden
<1>1. Inv => OnlyAPortIsHidden
  <2> SUFFICES ASSUME Inv, hidden # NoPage, reservedPort # 0
               PROVE  LET x == <<hidden[1] + machine.start, hidden[2]>>
                      IN x \in Function /\ IsPort(x)
    BY DEF OnlyAPortIsHidden
  <2>1. hidden = <<reserved[1] - machine.start, reserved[2]>>
    BY DEF Inv, HiddenIsReserved, EcamPage
  <2>2. reserved \in Function /\ machine.start \in Int  
    BY ConstantsAreSane DEF Inv, TypeOK, Machine
  <2>3. reserved[1] - machine.start + machine.start = reserved[1]
    BY <2>2, FunctionIsAPair, ConstantsAreSane
  <2>4. <<hidden[1] + machine.start, hidden[2]>> = reserved
    BY <2>1, <2>2, <2>3, FunctionIsAPair
  <2> QED BY <2>2, <2>4 DEF Inv, ReservedIsTheFirstPort
<1> QED BY <1>1, Invariance, PTL
=============================================================================
