\* Two clients move two entries under a running scheduler, in the map and in the heap.
CONSTANTS
    i1 = i1
    i2 = i2
    k1 = k1
    k2 = k2
    Ids = {i1, i2}
    Clients = {k1, k2}
    Hour = 3
    MaxNext = 2
    MaxLag = 1
    MaxTime = 3
SPECIFICATION FairSchedulerSpec
INVARIANTS NoOversleep IndexAgrees HeapMatches
PROPERTIES OverdueIsServed
