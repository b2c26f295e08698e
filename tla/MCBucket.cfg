\* Two callers and the scheduler race on a bucket with a sliding window.
CONSTANTS
    c1 = c1
    c2 = c2
    r1 = r1
    Callers = {c1, c2}
    Refillers = {r1}
    InitCfg <- MCCfg
    Second = 1
    MaxTime = 4
SYMMETRY Symmetry
SPECIFICATION Spec
INVARIANTS TypeOK Ledger CreditedOnce RateBound BalanceBound
PROPERTIES ImplementsTokenBucket RetryAfterSuffices
