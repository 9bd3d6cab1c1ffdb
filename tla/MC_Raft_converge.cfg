SPECIFICATION FairDivergedSpec
CONSTANTS
    n1 = n1
    n2 = n2
    n3 = n3
    v1 = v1
    v2 = v2
    Node <- ThreeNodes
    Nil = Nil
    Intent = {v1}
    Noop = Noop
    Expected <- Unfenced
    MaxCampaigns = 1
    MaxRounds = 0
    MaxLog = 3
    MaxRestarts = 1
    MaxStorageFailures = 0
PROPERTIES
    StableLeaderConverges
