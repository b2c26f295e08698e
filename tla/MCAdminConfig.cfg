\* Two admins patch a tier that a request may be about to create, and the client may
\* be evicted.
CONSTANTS
    Nil = Nil
    a1 = a1
    a2 = a2
    u1 = u1
    u2 = u2
    o1 = o1
    o2 = o2
    Admins = {a1, a2}
    Users = {u1}
    Objects = {o1, o2}
    Values <- MCValues
    Default <- MCDefault
    MaxTokensRange <- MCTokensRange
    RefillRateRange <- MCRateRange
    RefillIntervalRange <- MCIntervalRange
    Millisecond = 2
    Width = 6
    MinRefillInterval = 0
    MaxRefillInterval = 8
    MaxUpdates = 2
SPECIFICATION Spec
SYMMETRY Symmetry
INVARIANTS InForceIsValid AuditChain
PROPERTIES OmittedKeptAlone
\* The number of requests is bounded.
CHECK_DEADLOCK FALSE
