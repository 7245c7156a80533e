CONSTANTS
    r1 = r1
    r2 = r2
    ip1 = ip1
    ip2 = ip2
    Resources <- MCResources
    ClusterIPs <- MCClusterIPs
    Environments <- PersistentEnvs
    ExtraEnvironments <- NoExtraEnvironment
    NoIP = NoIP
    MaxFaults = 1
    MaxUserOps = 2
    MaxTemplateEdits = 1
    ExternalDeletion = FALSE
    NamespaceSelectedInit <- SelectedAtStart
    CacheLag = FALSE
SPECIFICATION Spec
INVARIANTS
    NoWorkloadBeforeImport
\* The controller may rightly stop: idle, nothing queued.
CHECK_DEADLOCK FALSE
