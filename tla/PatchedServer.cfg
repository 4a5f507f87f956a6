CONSTANTS
    w1 = w1
    w2 = w2
    Workers <- MCWorkersTwo
    MaxScans = 3
    MaxMobileScans = 3
    ClientClears = FALSE
    ClientResets = FALSE
    MobileResets = TRUE
SPECIFICATION ServerSpec
INVARIANTS GateTracksScan MobileTypeOK MobileWaitersLeaveAWorker
PROPERTIES GateEventuallyFree SlotSpec
