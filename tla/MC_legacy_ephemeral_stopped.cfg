CONSTANTS
    r1 = r1
    r2 = r2
    Resources <- MCResources
    Environments <- EphemeralEnvs
    MaxCalls = 4
    MaxFaults = 1
    MaxUserOps = 2
    MaxTemplateEdits = 1
SPECIFICATION Spec
PROPERTIES
    StoppedEphemeralUntouched
\* The caller may stop calling once its calls are spent.
CHECK_DEADLOCK FALSE
