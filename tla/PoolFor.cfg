SPECIFICATION Spec
CONSTANTS
    outer = outer
    inner = inner
    small = small
    NoSite = NoSite
    Sites = {outer, inner, small}
    NumWorkers = 2
    PoolSize = 2
    Program <- MCProgram
    To <- MCTo
    Step <- MCStep
    Body <- MCBody
INVARIANTS
    TypeOK
    RemainingExact
    NothingLeftBehind
    EachIterationOnce
PROPERTIES
    ImplementsParallelFor
    EveryCallReturns
CHECK_DEADLOCK FALSE
