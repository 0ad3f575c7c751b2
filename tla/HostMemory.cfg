SPECIFICATION Spec
CONSTANTS
    HeapSize = 286720
    Machines <- MCMachines
    AcpiSizes <- MCAcpiSizes
    MaxAcpi = 3
    MaxDecodes = 4
INVARIANTS BlocksAreApart  ExitStackHasAPage EptTablesStayBelowHeap HeapLasts
CHECK_DEADLOCK FALSE
