CONSTANTS
    NVars = 2
    MaxCosets = 10
    MaxLength = 2
    Presentations <- GroupOfOrderTwo
    NPoints = 1
    PointTables = {}
SPECIFICATION Spec
INVARIANTS
    CosetsSatisfyRelations
CHECK_DEADLOCK FALSE
