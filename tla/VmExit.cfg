SPECIFICATION FairSpec
CONSTANTS
    Code <- MCCode
    Machines <- MCMachines
INVARIANTS ControlsAreLegal OrdinaryGuestIsNotStopped
PROPERTIES ImplementsProcessor GuestGetsOn
CHECK_DEADLOCK FALSE
