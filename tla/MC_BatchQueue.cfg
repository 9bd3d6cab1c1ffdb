\* The largest bounds of the two studies.
SPECIFICATION MCSpec
CONSTANTS
    k1 = k1
    k2 = k2
    b1 = b1
    b2 = b2
    b3 = b3
    c1 = c1
    c2 = c2
    Key = {k1, k2}
    Body = {b1, b2, b3}
    Limit <- MCLimit
    Consumer = {c1, c2}
    Nobody = Nobody
    Timeout = 2
    MaxFailures = 2
    MaxRestarts = 1
    MaxPowerLosses = 1
INVARIANTS
    LogIsTheQueue
    PromisesKept
PROPERTIES
    LeaseHonoured
    JobsSettle
