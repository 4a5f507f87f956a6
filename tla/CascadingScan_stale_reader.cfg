CONSTANTS
    w1 = w1
    w2 = w2
    w3 = w3
    Workers <- MCWorkersOne
    MaxScans = 2
    ClientClears = TRUE
    ClientResets = FALSE
INIT Init
NEXT Next
INVARIANTS LockedWhileScriptRuns
