\* Creations, evictions, updates, blocks and callbacks cross one another.
CONSTANTS
    Nil = Nil
    DefaultTier = DefaultTier
    kA = kA
    kB = kB
    gold = gold
    free = free
    r1 = r1
    r2 = r2
    a1 = a1
    a2 = a2
    Keys = {kA, kB}
    Tiers = {DefaultTier, gold, free}
    TierDefaults = {DefaultTier, gold}
    Refilling = {DefaultTier, gold}
    Requests = {r1, r2}
    Admins = {a1}
    AdminOps = {"block", "unblock", "update"}
    NewRefills = {TRUE}
    BlockEnds = {"update", "evict"}
    MaxClients = 1
    MaxTime = 0
SYMMETRY Symmetry
SPECIFICATION Spec
INVARIANTS TypeOK Capacity Covered BlockHolds
\* Once every operation is done and nothing is scheduled, nothing happens.
CHECK_DEADLOCK FALSE
