\* One client starting tlsx-script scans.
CONSTANTS
    t1 = t1
    t2 = t2
    n1 = n1
    n2 = n2
    None = None
    ClientResets = TRUE
    Threads <- MCThreadsOne
    Names <- MCNames
    ScanKinds = {"script"}
SPECIFICATION FairSpec
PROPERTIES GateEventuallyFree
