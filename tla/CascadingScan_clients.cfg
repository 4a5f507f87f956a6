CONSTANTS
    w1 = w1
    w2 = w2
    w3 = w3
    Workers <- MCWorkersTwo
    MaxScans = 3
    ClientClears = TRUE
    ClientResets = TRUE
SPECIFICATION FairSpec
INVARIANTS TypeOK
PROPERTIES ReadersFinish
