\* Container environments, with and without GUI: the exposition with its
\* file-browser Ingress and the Deployment, under failures, restarts, user
\* edits and deletion. The template may list a second environment (an
\* ephemeral VM), which must be left alone.
CONSTANTS
    r1 = r1
    r2 = r2
    ip1 = ip1
    ip2 = ip2
    Resources <- MCResources
    ClusterIPs <- MCClusterIPs
    Environments <- ContainerEnvs
    ExtraEnvironments <- ExtraVM
    NoIP = NoIP
    MaxFaults = 1
    MaxUserOps = 2
    MaxTemplateEdits = 1
    ExternalDeletion = FALSE
    NamespaceSelectedInit <- SelectedAtStart
    CacheLag = FALSE
SPECIFICATION Spec
INVARIANTS
    QuiescentConsistent
PROPERTIES
    EnforcementRefined
    EventuallyConverged
    EventuallyIdle
\* The controller may rightly stop: idle, nothing queued.
CHECK_DEADLOCK FALSE
