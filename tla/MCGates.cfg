\* Two addresses compete for one bucket while the global limit is set and removed twice.
CONSTANTS
    Nil = Nil
    Main = Main
    ip1 = ip1
    ip2 = ip2
    r1 = r1
    r2 = r2
    a1 = a1
    a2 = a2
    IPs = {ip1, ip2}
    Requests = {r1, r2}
    Admins = {a1, a2}
    Refills = {TRUE, FALSE}
    GlobalEnabled = FALSE
    IPBucketCap = 1
    MaxTime = 0
SPECIFICATION FairSpec
INVARIANTS TypeOK IPCapacity GatesCovered
PROPERTIES OrphansDropped SpinNeedsRefillOff
\* Once every operation is done and nothing is scheduled, nothing happens.
CHECK_DEADLOCK FALSE
