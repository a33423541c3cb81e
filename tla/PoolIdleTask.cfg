SPECIFICATION FairPoolSpec
CONSTANTS
    Keys = {k1}
    Conns = {c1, c2}
    Checkouts = {o1}
    MaxIdle = 2
    MaxPoolSize = 0
    IdleTimeout = 1
    MinCheck = 1
    HasTimer = TRUE
    NoConn = NoConn
    NoKey = NoKey
INVARIANT TypeOK
INVARIANT ExpiryInv
PROPERTY HandsOutUsable
PROPERTY StaleEvicted
