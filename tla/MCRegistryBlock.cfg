\* A blocked client is updated; without a limit on clients nothing is evicted.
CONSTANTS
    Nil = Nil
    DefaultTier = DefaultTier
    kA = kA
    kB = kB
    gold = gold
    free = free
    r1 = r1
    r2 = r2
    a1 = a1
    a2 = a2
    Keys = {kA}
    Tiers = {DefaultTier}
    TierDefaults = {DefaultTier}
    Refilling = {DefaultTier}
    Requests = {r1}
    Admins = {a1, a2}
    AdminOps = {"block", "update"}
    NewRefills = {TRUE}
    BlockEnds = {}
    MaxClients = 0
    MaxTime = 3
SPECIFICATION Spec
INVARIANTS BlockHolds
\* Once every operation is done and nothing is scheduled, nothing happens.
CHECK_DEADLOCK FALSE
