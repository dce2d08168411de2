CONSTANTS
    UserContexts = {a}
    Patterns = {p, q}
    MaxDatums = 2
    Facts <- Datums
    Global = Global
    Initial = Initial
    NoContext = NoContext
    NoMark = NoMark
    MaxDisturbances = 0
SYMMETRY Symmetric
SPECIFICATION FactSpec
INVARIANTS
    FactTypeOK
    IndexesAgree
    AssumedOnce
    AnswersEnd
PROPERTIES
    AssumptionsSurvive
CHECK_DEADLOCK FALSE
