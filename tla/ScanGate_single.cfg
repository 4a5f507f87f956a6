\* One client issuing its requests one at a time, both scan branches, under
\* the fairness of FairSpec.
CONSTANTS
    t1 = t1
    t2 = t2
    n1 = n1
    n2 = n2
    None = None
    ClientResets = TRUE
    Threads <- MCThreadsOne
    Names <- MCNames
    ScanKinds = {"crd", "script"}
SPECIFICATION FairSpec
INVARIANTS TypeOK SingleActiveScan
PROPERTIES ScanResourceReleased
