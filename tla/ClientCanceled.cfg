SPECIFICATION ClientSpec
CONSTANTS
    Keys = {k1}
    Conns = {c1, c2, c3}
    Checkouts = {r1, r2}
    MaxIdle = 2
    MaxPoolSize = 0
    IdleTimeout <- NoTimeout
    MinCheck = 1
    HasTimer = FALSE
    NoConn = NoConn
    NoKey = NoKey
    DemandH2 = {}
    ConfigsH2 = {FALSE}
    RetryCanceled = TRUE
    MaxCloses = 0
SYMMETRY Symmetry
PROPERTY CanceledCheckoutWaits
