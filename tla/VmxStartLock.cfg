SPECIFICATION StartFairSpec
CONSTANTS
    Listings <- MCListings
    Flaky = {"vmxon", "vmclear", "vmptrld", "vmlaunch"}
    DwordSize = 256
PROPERTY NeverLocksVmxOff
CHECK_DEADLOCK FALSE
