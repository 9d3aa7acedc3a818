SPECIFICATION Spec
CONSTANTS
    Keys <- KeysValue
    Bodies <- BodiesValue
    DefaultBody <- DefaultValue
    Allowed <- AllowedValue
    Editors = {e1, e2}
    Processes = {w1}
    Nothing = Nothing
    MaxStarts = 2
    MaxEdits = 3
    MaxJobs = 2
INVARIANTS
    NeverStale
    RawOnlyFromExpressions
PROPERTIES
    EditsKept
CHECK_DEADLOCK FALSE
