SPECIFICATION Spec
CONSTANTS
    Fan = 2
    PageSize = 4
    MaxTable = 20
    Junk <- MCJunk
    KernelPa = 8
    KernelBytes = 8
    ChunkExists = {TRUE, FALSE}
    VideoPa = 0
    Offset = 32
    MapCalls <- MCMapCalls
    IdentityCalls <- MCIdentityCalls
    UnmapCalls <- MCUnmapCalls
INVARIANTS TablesAreATree MappedAtItsAddress
PROPERTIES MapNeverRemaps ImplementsAddressSpace
CHECK_DEADLOCK FALSE
