\* The largest bounds of the three studies.
SPECIFICATION StudiesSpec
CONSTANTS
    n1 = n1
    n2 = n2
    n3 = n3
    v1 = v1
    v2 = v2
    Node <- ThreeNodes
    Nil = Nil
    Intent = {v1}
    Noop = Noop
    Expected <- FencedOnNothing
    MaxCampaigns = 2
    MaxRounds = 4
    MaxLog = 3
    MaxRestarts = 1
    MaxStorageFailures = 1
SYMMETRY Symmetry
INVARIANTS
    AppliedIsCurrent
    ElectionSafety
    LogsAgree
PROPERTIES
    DurableVoteIsStable
    RevisionNeverRegresses
    ImplementsConfigService
CHECK_DEADLOCK FALSE
