CONSTANTS
    UserContexts = {a, b}
    Facts = {f}
    Global = Global
    Initial = Initial
    NoContext = NoContext
    NoMark = NoMark
    MaxDisturbances = 0
SYMMETRY Symmetric
SPECIFICATION Spec
INVARIANT DeadAreBlank
PROPERTY KillAllBlank
CHECK_DEADLOCK FALSE
