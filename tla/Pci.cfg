SPECIFICATION FairSpec
CONSTANTS
    Devices = 4
    Funcs = 2
    Machines <- MCMachines
INVARIANTS SearchIsExact LogPortIsReserved LogHasAPort OnlyAPortIsHidden
PROPERTIES ScanEnds
CHECK_DEADLOCK FALSE
