CONSTANTS
    UserContexts = {a, b}
    Facts = {}
    Global = Global
    Initial = Initial
    NoContext = NoContext
    NoMark = NoMark
    MaxDisturbances = 1
SYMMETRY Symmetric
SPECIFICATION Spec
PROPERTY KillRefusesActive
CHECK_DEADLOCK FALSE
