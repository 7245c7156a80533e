CONSTANTS
    r1 = r1
    r2 = r2
    ip1 = ip1
    ip2 = ip2
    Resources <- MCResources
    ClusterIPs <- MCClusterIPs
    Environments <- EphemeralEnvs
    ExtraEnvironments <- NoExtraEnvironment
    NoIP = NoIP
    MaxFaults = 1
    MaxUserOps = 2
    MaxTemplateEdits = 1
    ExternalDeletion = TRUE
    NamespaceSelectedInit <- SelectedAtStart
    CacheLag = FALSE
SPECIFICATION Spec
PROPERTIES
    EventuallyConverged
\* The controller may rightly stop: idle, nothing queued.
CHECK_DEADLOCK FALSE
