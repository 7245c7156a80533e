\* Reads go through informer caches that lag the API server (the instance
\* of MC_cache_lag.cfg): does an idle reconciler with nothing queued and no
\* event undelivered leave a persisted status that matches the cluster?
CONSTANTS
    r1 = r1
    r2 = r2
    ip1 = ip1
    ip2 = ip2
    Resources <- OneResource
    ClusterIPs <- OneClusterIP
    Environments <- PlainEnvs
    ExtraEnvironments <- NoExtraEnvironment
    NoIP = NoIP
    MaxFaults = 1
    MaxUserOps = 1
    MaxTemplateEdits = 0
    ExternalDeletion = FALSE
    NamespaceSelectedInit <- SelectedAtStart
    CacheLag = TRUE
SPECIFICATION Spec
INVARIANTS
    QuiescentConsistent
\* The controller may rightly stop: idle, nothing queued.
CHECK_DEADLOCK FALSE
