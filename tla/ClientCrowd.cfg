SPECIFICATION ClientSpec
CONSTANTS
    Keys = {k1}
    Conns = {c1, c2, c3}
    Checkouts = {r1, r2, r3}
    MaxIdle = 1
    MaxPoolSize = 0
    IdleTimeout <- NoTimeout
    MinCheck = 1
    HasTimer = FALSE
    NoConn = NoConn
    NoKey = NoKey
    DemandH2 = {}
    ConfigsH2 = {FALSE, TRUE}
    RetryCanceled = TRUE
    MaxCloses = 1
SYMMETRY Symmetry
INVARIANT ExclusiveExchange
INVARIANT WaitsAnswered
