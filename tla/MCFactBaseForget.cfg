CONSTANTS
    UserContexts = {a}
    Patterns = {p}
    MaxDatums = 2
    Facts <- Datums
    Global = Global
    Initial = Initial
    NoContext = NoContext
    NoMark = NoMark
    MaxDisturbances = 0
SPECIFICATION FactSpec
PROPERTIES
    ForgottenIsUnknown
CHECK_DEADLOCK FALSE
