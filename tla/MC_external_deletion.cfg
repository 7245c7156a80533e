\* Someone other than the controller may delete the Service, and the
\* Instance's namespace may lack the allow-list labels at first and be
\* labelled later. Persistent VMs, with symmetry over addresses and
\* resource versions.
CONSTANTS
    r1 = r1
    r2 = r2
    ip1 = ip1
    ip2 = ip2
    Resources <- MCResources
    ClusterIPs <- MCClusterIPs
    Environments <- PersistentEnvs
    ExtraEnvironments <- NoExtraEnvironment
    NoIP = NoIP
    MaxFaults = 1
    MaxUserOps = 2
    MaxTemplateEdits = 1
    ExternalDeletion = TRUE
    NamespaceSelectedInit <- EitherSelection
    CacheLag = FALSE
SPECIFICATION Spec
SYMMETRY Symmetric
PROPERTIES
    EnforcementRefined
\* The controller may rightly stop: idle, nothing queued.
CHECK_DEADLOCK FALSE
