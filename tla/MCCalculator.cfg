CONSTANTS
    Half = 4
    Width = 3
    Unit = 2
    Sample <- MCSample
    Functions <- MCFunctions
    Arity <- MCArity
    Depth = 5
    Code <- MCCode
    Variables <- MCVariables
    ValueOf <- MCValueOf
    Programs <- MCPrograms
    NoCode = NoCode
    NoValue = NoValue
SPECIFICATION Spec
INVARIANTS
    TypeOK
    StackBalanced
    Agrees
    StaleNeedsRecursion
PROPERTIES
    CallersKept
    Ends
CHECK_DEADLOCK FALSE
