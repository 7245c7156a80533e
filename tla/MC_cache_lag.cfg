\* Reads go through informer caches that lag the API server. Both classes
\* of environment, so that the VM's and the VMI's CreateOrUpdate meet stale
\* reads; no GUI, one resource version and one address, which the cache
\* questions do not depend on.
CONSTANTS
    r1 = r1
    r2 = r2
    ip1 = ip1
    ip2 = ip2
    Resources <- OneResource
    ClusterIPs <- OneClusterIP
    Environments <- PlainEnvs
    ExtraEnvironments <- NoExtraEnvironment
    NoIP = NoIP
    MaxFaults = 1
    MaxUserOps = 1
    MaxTemplateEdits = 0
    ExternalDeletion = FALSE
    NamespaceSelectedInit <- SelectedAtStart
    CacheLag = TRUE
SPECIFICATION Spec
PROPERTIES
    ConflictKeepsPhase
    EventuallyClusterConverged
\* The controller may rightly stop: idle, nothing queued.
CHECK_DEADLOCK FALSE
