CONSTANTS
    NVars = 2
    MaxCosets = 6
    MaxLength = 3
    Presentations <- ShortPresentations
    NPoints = 3
    PointTables <- PermutationTables
SPECIFICATION Spec
INVARIANTS
    TypeOK
    TableAccurate
    ResultIsAction
    NothingMerged
PROPERTIES
    NothingLost
    Terminates
CHECK_DEADLOCK FALSE
