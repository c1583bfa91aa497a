SPECIFICATION Spec
CONSTANTS
    r1 = r1
    r2 = r2
    r3 = r3
    r4 = r4
    ana = ana
    bia = bia
    None = None
    Keys <- OneKey
    Requests <- ThreeRequests
    Burst = 2
    Period = 1
    MaxTime = 1
INVARIANT SwipesWithinRate
