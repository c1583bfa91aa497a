SPECIFICATION Spec
CONSTANTS
    tab = tab
    phone = phone
    Conns <- BothConns
    TTL <- FortyFiveSeconds
    RenewEvery <- TwentySeconds
    PingEvery <- ThirtySeconds
    PongWait <- SixtySeconds
    MaxLost = 1
SYMMETRY Symmetric
INVARIANTS
    TypeOK
    StaysOnline
    HealsByRenewal
    GhostFades
