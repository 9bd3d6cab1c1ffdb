SPECIFICATION SteadySpec
CONSTANTS
    n1 = n1
    n2 = n2
    n3 = n3
    v1 = v1
    v2 = v2
    Node <- ThreeNodes
    Nil = Nil
    Intent = {v1, v2}
    Noop = Noop
    Expected <- Unfenced
    MaxCampaigns = 1
    MaxRounds = 3
    MaxLog = 3
    MaxRestarts = 0
    MaxStorageFailures = 0
SYMMETRY SteadySymmetry
INVARIANTS
    AckNamesOwnEntry
