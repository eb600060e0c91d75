SPECIFICATION Spec
CONSTANTS
    outer = outer
    inner = inner
    small = small
    NoSite = NoSite
    Sites = {outer, inner, small}
    NumWorkers = 1
    PoolSize = 1
    Program <- MCTwice
    To <- MCTo
    Step <- MCStep
    Body <- MCBody
INVARIANT
    EachIterationOnce
CHECK_DEADLOCK FALSE
