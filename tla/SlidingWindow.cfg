\* Callers with clocks up to one tick behind.
CONSTANTS
    W = 3
    MaxRequests = 2
    BufferSize = 1
    Skew = 1
    MaxTime = 9
SPECIFICATION Spec
INVARIANTS RingIsSuffix WindowBound RejectedOnlyWhenFull
