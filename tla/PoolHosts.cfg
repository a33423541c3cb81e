SPECIFICATION PoolSpec
CONSTANTS
    Keys = {k1, k2}
    Conns = {c1, c2}
    Checkouts = {o1, o2, o3}
    MaxIdle = 1
    MaxPoolSize = 1
    IdleTimeout <- NoTimeout
    MinCheck = 1
    HasTimer = FALSE
    NoConn = NoConn
    NoKey = NoKey
SYMMETRY Symmetry
INVARIANT KeyInv
INVARIANT LockInv
INVARIANT UniqueOwnership
INVARIANT NoLostWaiter
INVARIANT IdleInv
PROPERTY SuccessServesWaiters
