CONSTANTS
    UserContexts = {a, b}
    Facts = {}
    Global = Global
    Initial = Initial
    NoContext = NoContext
    NoMark = NoMark
    MaxDisturbances = 1
SYMMETRY Symmetric
SPECIFICATION Spec
INVARIANTS
    TypeOK
    MarksExact
    HierarchySound
    ActivationsAgree
CHECK_DEADLOCK FALSE
