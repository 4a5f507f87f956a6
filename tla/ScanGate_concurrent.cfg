\* Two worker threads serving scans and status polls, no /reset.
CONSTANTS
    t1 = t1
    t2 = t2
    n1 = n1
    n2 = n2
    None = None
    ClientResets = FALSE
    Threads <- MCThreadsTwo
    Names <- MCNames
    ScanKinds = {"crd"}
SYMMETRY NameSymmetry
SPECIFICATION Spec
INVARIANTS SingleActiveScan
