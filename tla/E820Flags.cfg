SPECIFICATION Spec
CONSTANTS
    Maps <- MCMaps
    Kernel = 6
    KernelSize = 3
    Loader = 1
    LoaderSize = 1
    Segments = {0, 16}
    MaxIndex = 8
PROPERTIES FlagsAreTheCallers
CHECK_DEADLOCK FALSE
