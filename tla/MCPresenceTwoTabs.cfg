SPECIFICATION Spec
CONSTANTS
    tab = tab
    phone = phone
    Conns <- BothConns
    TTL <- FortyFiveSeconds
    RenewEvery <- TwentySeconds
    PingEvery <- ThirtySeconds
    PongWait <- SixtySeconds
    MaxLost = 0
INVARIANT OnlineWhileConnected
