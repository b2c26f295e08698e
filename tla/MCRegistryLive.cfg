\* Stale entries disappear and operations return.
CONSTANTS
    Nil = Nil
    DefaultTier = DefaultTier
    kA = kA
    kB = kB
    gold = gold
    free = free
    r1 = r1
    r2 = r2
    a1 = a1
    a2 = a2
    Keys = {kA, kB}
    Tiers = {DefaultTier, gold}
    TierDefaults = {DefaultTier, gold}
    Refilling = {DefaultTier}
    Requests = {r1}
    Admins = {a1}
    AdminOps = {"block", "update"}
    NewRefills = {TRUE, FALSE}
    BlockEnds = {"update", "evict"}
    MaxClients = 1
    MaxTime = 0
SPECIFICATION FairSpec
PROPERTIES StaleDropped OperationsFinish
\* Once every operation is done and nothing is scheduled, nothing happens.
CHECK_DEADLOCK FALSE
