SPECIFICATION SetupSpec
CONSTANTS
    None = None
    Bad = Bad
    Scenarios <- MCScenarios
    Requests = {"r1", "r2"}
    HashOne <- MCHashOne
CHECK_DEADLOCK FALSE
INVARIANT CallsHonoured
INVARIANT IdentityTells
INVARIANT UpgradeVerified
INVARIANT HashAgrees
