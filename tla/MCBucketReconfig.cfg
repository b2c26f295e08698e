\* A call and a refill under the old and the new configurations.
CONSTANTS
    c1 = c1
    r1 = r1
    Callers = {c1}
    Refillers = {r1}
    InitCfg <- MCCfg
    NewCfgs <- MCNewCfgs
    MaxUpdates = 2
    Second = 1
    MaxTime = 2
SPECIFICATION FairReconfigSpec
INVARIANTS CreditedOnce ReconfigBalance
PROPERTIES LockFree
