CONSTANTS
    w1 = w1
    w2 = w2
    Workers <- MCWorkersTwo
    MaxScans = 1
    MaxMobileScans = 2
    ClientClears = FALSE
    ClientResets = FALSE
    MobileResets = FALSE
SPECIFICATION ServerSpec
PROPERTIES MobileGateEventuallyFree
