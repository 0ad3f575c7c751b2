SPECIFICATION StartFairSpec
CONSTANTS
    Listings <- MCListings
    Flaky = {"vmxon", "vmclear", "vmptrld", "vmlaunch"}
    DwordSize = 256
INVARIANTS LaunchHasItsVmcs CounterCountsThisCpu NoSecondLaunch
PROPERTIES GuestRuns
CHECK_DEADLOCK FALSE
