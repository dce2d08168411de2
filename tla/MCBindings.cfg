SPECIFICATION Spec
CONSTANTS
    var = var
    fun = fun
    Vars = {var}
    Values = {v}
    Unbound = munbound
    Funs = {fun}
    Props = {p}
    NoProp = noprop
    VarLists <- MCVarLists
    EvLists <- MCEvLists
    FunLists <- MCFunLists
    MaxDepth = 3
    MaxAfter = 1
    MaxLocs = 2
INVARIANT TypeOK
INVARIANT TailsKept
INVARIANT ReturnsAreLegal
INVARIANT BindlistIsNested
PROPERTY KeepsScopes
CHECK_DEADLOCK FALSE
