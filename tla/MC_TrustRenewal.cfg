\* Two renewer processes on one state file; any three incidents: storage faults,
\* crashes, timeouts, restarts of the distributor, the clock set back.
SPECIFICATION FairSpec
CONSTANTS
    None = None
    p1 = p1
    p2 = p2
    Process = {p1, p2}
    Receiver = {"r1"}
    Expected = {"r1"}
    policy_lifetime = 2
    renew_before = 1
    MaxGeneration = 2
    MaxClock = 3
    MaxIncidents = 3
CHECK_DEADLOCK FALSE
INVARIANTS
    PublishedOnce
    DistributorKeeps
PROPERTIES
    StagedIsSettled
