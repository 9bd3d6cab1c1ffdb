SPECIFICATION FairSpec
CONSTANTS
    n1 = n1
    n2 = n2
    c1 = c1
    Node = {n1, n2}
    Noop = Noop
    None = None
    Command = {c1}
    Keys = 2
    lease_duration = 1
    maximum_age = 1
    maximum_future_skew = 0
    MaxHistory = 2
    MaxClock = 2
    MaxSetback = 1
    MaxFailures = 1
    MaxCrashes = 1
INVARIANTS
    NeverMovesBack
    SavedBeforeRouted
    NoFalseDivergence
    LeaseIsSpent
PROPERTIES
    GatewayFollows
