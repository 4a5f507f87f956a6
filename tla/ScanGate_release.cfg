\* One client polling /status.
CONSTANTS
    t1 = t1
    t2 = t2
    n1 = n1
    n2 = n2
    None = None
    ClientResets = TRUE
    Threads <- MCThreadsOne
    Names <- MCNames
    ScanKinds = {"crd"}
SYMMETRY NameSymmetry
SPECIFICATION Spec
INVARIANTS ReleaseOnlyHeld
