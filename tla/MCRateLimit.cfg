SPECIFICATION Spec
CONSTANTS
    r1 = r1
    r2 = r2
    r3 = r3
    r4 = r4
    ana = ana
    bia = bia
    None = None
    Keys <- TwoKeys
    Requests <- FourRequests
    Burst = 2
    Period = 2
    MaxTime = 3
SYMMETRY Symmetric
INVARIANTS TypeOK GrantsBounded RefusalsJustified
