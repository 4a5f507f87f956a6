CONSTANT Reports <- MCReportsAll
CONSTANT Reports0 = 0
INIT Init
NEXT Next
CHECK_DEADLOCK FALSE
INVARIANTS TypeOK FindingsMatchReference OutputContract
