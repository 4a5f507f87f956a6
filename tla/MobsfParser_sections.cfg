CONSTANT Reports <- MCReportsWellFormed
CONSTANT Reports0 = 0
INIT Init
NEXT Next
CHECK_DEADLOCK FALSE
INVARIANT NoTraceback
