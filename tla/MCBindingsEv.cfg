SPECIFICATION Spec
CONSTANTS
    var = var
    fun = fun
    Vars = {var}
    Values = {v}
    Unbound = munbound
    Funs = {fun}
    Props = {p}
    NoProp = noprop
    VarLists <- MCVarLists
    EvLists <- MCEvLists
    FunLists <- MCFunLists
    MaxDepth = 2
    MaxAfter = 1
    MaxLocs = 2
INVARIANT EvLeaksNothing
CHECK_DEADLOCK FALSE
