CONSTANTS
    r1 = r1
    r2 = r2
    Resources <- MCResources
    Environments <- AllEnvs
    MaxCalls = 4
    MaxFaults = 1
    MaxUserOps = 2
    MaxTemplateEdits = 1
SPECIFICATION Spec
INVARIANTS
    TypeOK
    NothingBeforeImport
\* The caller may stop calling once its calls are spent.
CHECK_DEADLOCK FALSE
