SPECIFICATION Spec
CONSTANTS
    Jobs <- SomeJobs
    Codes <- SomeCodes
    Vars <- SomeVars
    v1 = v1
    v2 = v2
    r1 = r1
    r2 = r2
    Refs <- SomeRefs
    Cap = 1
    MaxFaults = 1
    None = None
INVARIANT OutputIsTheTools
INVARIANT StatusIsTheTools
INVARIANT SecretsAreWhole
INVARIANT OneValuePerReference
INVARIANT InputEndsLate
PROPERTY CallsReturn
PROPERTY ToolsEnd
CHECK_DEADLOCK FALSE
