\* The Instance's namespace is labelled only after the Instance was first
\* reconciled and skipped: does the Instance still converge?
CONSTANTS
    r1 = r1
    r2 = r2
    ip1 = ip1
    ip2 = ip2
    Resources <- OneResource
    ClusterIPs <- OneClusterIP
    Environments <- PlainEnvs
    ExtraEnvironments <- NoExtraEnvironment
    NoIP = NoIP
    MaxFaults = 1
    MaxUserOps = 1
    MaxTemplateEdits = 0
    ExternalDeletion = FALSE
    NamespaceSelectedInit <- UnselectedAtStart
    CacheLag = FALSE
SPECIFICATION Spec
PROPERTIES
    EventuallyConverged
\* The controller may rightly stop: idle, nothing queued.
CHECK_DEADLOCK FALSE
