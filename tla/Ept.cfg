SPECIFICATION Spec
CONSTANTS
    Fan = 3
    PageSize = 2
    MaxTable = 50
    KernelPage = 5
    KernelPages = 6
    Junk <- MCJunk
    MaxAddresses <- MCMaxAddresses
    EcamPages <- MCEcamPages
    MemoryType <- MCMemoryType
INVARIANTS TablesAreATree HypervisorIsHidden GuestHasItsMemory
PROPERTIES ImplementsGuestMemory
CHECK_DEADLOCK FALSE
