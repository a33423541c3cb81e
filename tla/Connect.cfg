SPECIFICATION ConnectorSpec
CONSTANTS
    None = None
    Keys <- MCKeys
    Sessions = {s1, t1}
    Tls13 = {s1}
    Connections = {h1, h2}
    Capacities = {1}
    NoKey = NoKey
    NoSession = NoSession
    Scenarios <- MCScenarios
INVARIANT IndexInv
INVARIANT SingleUse
INVARIANT HandedOutRight
INVARIANT CredentialsPlaced
INVARIANT BypassHonoured
INVARIANT TunnelEarned
PROPERTY IdentityHolds
PROPERTY CacheUsed
PROPERTY AttemptsEnd
