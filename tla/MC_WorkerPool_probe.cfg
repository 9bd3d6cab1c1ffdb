\* Two workers and the default probe interval of RoutingConfig::for_policy.
SPECIFICATION SteadySpec
CONSTANTS
    Unknown = Unknown
    worker_count = 2
    weight <- Equal
    ewma_probe_interval = 10
    RingSize = 2
    virtual_nodes = 1
    MaxEstimate = 2
    MaxLeases = 2
    MaxRefused = 0
PROPERTIES
    EveryWorkerIsProbed
