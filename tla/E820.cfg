SPECIFICATION FairSpec
CONSTANTS
    Maps <- MCMaps
    Kernel = 6
    KernelSize = 3
    Loader = 1
    LoaderSize = 1
    Segments = {0, 16}
    MaxIndex = 8
INVARIANTS RestIsUnchanged HypervisorIsUnusable EnumerationIsExact
PROPERTIES CallerCanTell Int15Returns
CHECK_DEADLOCK FALSE
