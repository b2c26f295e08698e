---------------------------- MODULE AdminConfig ----------------------------
(***************************************************************************)
(* server.handleUpdateConfig: the merge-patch update of one tier of one    *)
(* client.  The handler reads the tier's configuration (TierConfig), lays  *)
(* the request's fields over it, validates the result, replaces the bucket *)
(* (UpdateClientConfig) and writes an audit record, with no lock held from *)
(* one of these steps to the next: other admin calls, evictions and client *)
(* requests may come in between.  A client request creates the client, and *)
(* ensureTier the tier, in two critical sections: it tests whether the     *)
(* tier has a bucket and then configures the defaults without another look.*)
(*                                                                         *)
(* Goroutines keep ClientBuckets objects that may be evicted meanwhile.    *)
(* Requests that fail the key, tier or body checks change nothing and are  *)
(* left out.  The schedule entries an update moves are in ClientRegistry.  *)
(***************************************************************************)
EXTENDS Integers, Sequences, Functions

CONSTANTS
    Admins,         \* goroutines of admin requests
    Users,          \* goroutines of client requests
    Objects,        \* ClientBuckets objects; for TLC a bound on their number
    Values,         \* Values[f]: what a request may ask for in field f
    Millisecond,    \* the unit of refill_interval_ms
    Width,          \* bits of an int64, for TLC a small number of them
    Default,        \* the tier's entry in tierDefaults; requests for a tier that
                    \* has none use the default tier's bucket
    MaxTokensRange, RefillRateRange, RefillIntervalRange,
                    \* ValidateBucketConfig's ranges, as <<low, high>>
    MinRefillInterval, MaxRefillInterval,   \* cfg.Limits
    MaxUpdates,     \* bound on the number of requests, for TLC
    Nil

Fields == {"MaxTokens", "RefillRate", "RefillInterval"}
Configs == [Fields \cup {"TokensPerRequest"} -> Int]

ASSUME DefaultAssumption == Default \in Configs
ASSUME ValuesAssumption == DOMAIN Values = Fields /\ \A f \in Fields : Values[f] \subseteq Int
ASSUME NilAssumption == Nil \notin Configs \cup Objects
ASSUME ProcsAssumption == Admins \cap Users = {}
ASSUME UnitAssumption == Millisecond \in Nat \ {0} /\ Width \in Nat \ {0}
\* A fact of arithmetic: powers of two are positive.
ASSUME PowerAssumption == 2 ^ Width \in Nat \ {0} /\ 2 ^ (Width - 1) \in Nat \ {0}
ASSUME BoundAssumption == MaxUpdates \in Nat

VARIABLES
    client,     \* the client's object in the map, Nil while there is none
    tiers,      \* Config() of the tier's bucket in each object, Nil for no bucket
    unused,     \* objects not yet allocated
    default,    \* whether the tier is DefaultTier, which getOrCreateClient configures
    pc, frame,  \* each goroutine's progress and locals: cb; patch, before, after
    log,        \* the audit records of update_config
    updates,    \* number of updates so far
    disturbed   \* history: updates have overlapped, the client was evicted, or an
                \* update was applied between ensureTier's test and its Configure

registry == <<client, tiers, unused, default>>
vars == <<registry, pc, frame, log, updates, disturbed>>

Procs == Admins \cup Users
Patch == [Fields -> (UNION Range(Values)) \cup {Nil}]     \* Nil: field omitted
NoFrame ==
    [cb |-> Nil, patch |-> [f \in Fields |-> Nil], before |-> Default, after |-> Default]
-----------------------------------------------------------------------------
\* TierConfig, with the client it has looked up: the bucket's configuration,
\* else the tier's defaults.
TierConfig(cb) == IF cb # Nil /\ tiers[cb] # Nil THEN tiers[cb] ELSE Default

\* What the client's next request is decided by.
InForce == TierConfig(client)

\* bucket.New normalises what it is given; handleUpdateConfig does the same.
Normalize(cfg) == [cfg EXCEPT !["TokensPerRequest"] = IF @ <= 0 THEN 1 ELSE @]

\* Signed integers of Width bits wrap around.
Wrap(x) == ((x + 2 ^ (Width - 1)) % 2 ^ Width) - 2 ^ (Width - 1)

\* What a request asks for in field f; intervals are sent in milliseconds and
\* their product with a Millisecond may wrap.
Requested(patch, f) ==
    IF f = "RefillInterval" THEN Wrap(patch[f] * Millisecond) ELSE patch[f]

\* after: the request's fields over before.
BugMerge(before, patch) ==              \* omitted fields take the defaults
    Normalize([f \in DOMAIN before |->
        IF f \in Fields /\ patch[f] # Nil THEN Requested(patch, f) ELSE Default[f]])
Merge(before, patch) ==
    Normalize([f \in DOMAIN before |->
        IF f \in Fields /\ patch[f] # Nil THEN Requested(patch, f) ELSE before[f]])

InRange(x, r) == r[1] <= x /\ x <= r[2]

ValidateBucketConfig(cfg) ==
    /\ InRange(cfg["MaxTokens"], MaxTokensRange)
    /\ InRange(cfg["RefillRate"], RefillRateRange)
    /\ cfg["RefillRate"] > 0 => InRange(cfg["RefillInterval"], RefillIntervalRange)

\* The handler's checks of the merged configuration.
BugAccepts(before, patch) ==            \* checks the fields it was sent only
    LET after == Merge(before, patch) IN
    /\ patch["MaxTokens"] # Nil => InRange(after["MaxTokens"], MaxTokensRange)
    /\ patch["RefillRate"] # Nil => InRange(after["RefillRate"], RefillRateRange)
    /\ patch["RefillInterval"] # Nil /\ after["RefillRate"] > 0 =>
        InRange(after["RefillInterval"], RefillIntervalRange)
    /\ patch["RefillInterval"] # Nil =>
        InRange(after["RefillInterval"], <<MinRefillInterval, MaxRefillInterval>>)
Accepts(before, patch) ==
    LET after == Merge(before, patch) IN
    /\ ValidateBucketConfig(after)
    /\ InRange(after["RefillInterval"], <<MinRefillInterval, MaxRefillInterval>>)

\* snapshot truncates the interval to milliseconds.
Snapshot(cfg) == [Restrict(cfg, Fields) EXCEPT !["RefillInterval"] = @ \div Millisecond]

Init ==
    /\ client = Nil
    /\ tiers = [o \in Objects |-> Nil]
    /\ unused = Objects
    /\ default \in BOOLEAN
    /\ pc = [p \in Procs |-> "idle"]
    /\ frame = [p \in Procs |-> NoFrame]
    /\ log = << >>
    /\ updates = 0
    /\ disturbed = FALSE

Goto(p, l) == pc' = [pc EXCEPT ![p] = l]
Return(p) == Goto(p, "idle") /\ frame' = [frame EXCEPT ![p] = NoFrame]

\* getOrCreateClient: the client in the map, or a new one with the default tier,
\* put there in one critical section.
GetOrCreateClient(p) ==
    \/ /\ client # Nil
       /\ frame' = [frame EXCEPT ![p].cb = client]
       /\ UNCHANGED <<client, tiers, unused>>
    \/ /\ client = Nil
       /\ \E o \in unused :
            /\ client' = o
            /\ unused' = unused \ {o}
            /\ tiers' = [tiers EXCEPT ![o] = IF default THEN Normalize(Default) ELSE Nil]
            /\ frame' = [frame EXCEPT ![p].cb = o]

\* ClientBuckets.Configure: a new bucket replaces whatever the tier has by now.
Configure(p, cfg) == tiers' = [tiers EXCEPT ![frame[p].cb] = Normalize(cfg)]

\* handleUpdateConfig: TierConfig looks the client up.
HandleUpdateConfig(a) ==
    /\ pc[a] = "idle" /\ updates < MaxUpdates
    /\ updates' = updates + 1
    /\ disturbed' = (disturbed \/ \E b \in Admins : pc[b] # "idle")
    /\ frame' = [frame EXCEPT ![a].cb = client]
    /\ Goto(a, "read")
    /\ UNCHANGED <<registry, log>>

\* TierConfig reads the bucket's configuration; the request is rejected with
\* status 400, or on its way to be applied.
MergePatch(a, patch) ==
    /\ pc[a] = "read"
    /\ LET before == TierConfig(frame[a].cb) IN
       IF Accepts(before, patch)
       THEN /\ Goto(a, "ensure")
            /\ frame' = [frame EXCEPT ![a] = [cb |-> Nil, patch |-> patch, before |-> before,
                                              after |-> Merge(before, patch)]]
       ELSE Return(a)
    /\ UNCHANGED <<registry, log, updates, disturbed>>

\* UpdateClientConfig: EnsureClient, and then Configure of the client it found.
EnsureClient(a) ==
    /\ pc[a] = "ensure"
    /\ GetOrCreateClient(a)
    /\ Goto(a, "apply")
    /\ UNCHANGED <<default, log, updates, disturbed>>

UpdateClientConfig(a) ==
    /\ pc[a] = "apply"
    /\ Configure(a, frame[a].after)
    /\ disturbed' = (disturbed \/ \E u \in Users : pc[u] = "configure")
    /\ Goto(a, "audit")
    /\ UNCHANGED <<client, unused, default, frame, log, updates>>

\* audit.AdminChange and the response.
BugAdminChange(a) ==                    \* before and after swapped
    /\ pc[a] = "audit"
    /\ log' = Append(log, [before |-> Snapshot(frame[a].after),
                           after |-> Snapshot(frame[a].before)])
    /\ Return(a)
    /\ UNCHANGED <<registry, updates, disturbed>>
AdminChange(a) ==
    /\ pc[a] = "audit"
    /\ log' = Append(log, [before |-> Snapshot(frame[a].before),
                           after |-> Snapshot(frame[a].after)])
    /\ Return(a)
    /\ UNCHANGED <<registry, updates, disturbed>>

\* store.Allow for a request that names the tier: getOrCreateClient,
\* ensureTier's test, and its Configure if the tier had no bucket then.
Request(u) ==
    /\ pc[u] = "idle"
    /\ GetOrCreateClient(u)
    /\ Goto(u, "test")
    /\ UNCHANGED <<default, log, updates, disturbed>>

TestTier(u) ==
    /\ pc[u] = "test"
    /\ IF ~default /\ tiers[frame[u].cb] = Nil
       THEN Goto(u, "configure") /\ UNCHANGED frame
       ELSE Return(u)
    /\ UNCHANGED <<registry, log, updates, disturbed>>

ConfigureTier(u) ==
    /\ pc[u] = "configure"
    /\ Configure(u, Default)
    /\ Return(u)
    /\ UNCHANGED <<client, unused, default, log, updates, disturbed>>

\* evictLRULocked takes the client.
Evict ==
    /\ client # Nil
    /\ client' = Nil
    /\ disturbed' = TRUE
    /\ UNCHANGED <<tiers, unused, default, pc, frame, log, updates>>

Next ==
    \/ \E a \in Admins :
        \/ HandleUpdateConfig(a)
        \/ \E patch \in Patch :
            /\ \A f \in Fields : patch[f] \in Values[f] \cup {Nil}
            /\ MergePatch(a, patch)
        \/ EnsureClient(a)
        \/ UpdateClientConfig(a)
        \/ AdminChange(a)
    \/ \E u \in Users : Request(u) \/ TestTier(u) \/ ConfigureTier(u)
    \/ Evict

Spec == Init /\ [][Next]_vars
-----------------------------------------------------------------------------
\* ValidateBucketConfig and the configured limits hold of every configuration
\* in force other than the defaults, although the fields of one were sent by
\* different requests, each was validated against a configuration that may have
\* been replaced or evicted since, and an interval may have wrapped around.  The
\* ranges are the code's: a rate of zero turns refill off, which design.md's
\* table of validation rules does not allow for.
InForceIsValid ==
    \/ InForce \in {Default, Normalize(Default)}
    \/ /\ ValidateBucketConfig(InForce)
       /\ InRange(InForce["RefillInterval"], <<MinRefillInterval, MaxRefillInterval>>)

\* The fields that applied requests left out have the value they had then.
KeepsOmitted ==
    \A a \in Admins : pc[a] = "apply" /\ pc'[a] = "audit" =>
        \A f \in Fields : frame[a].patch[f] = Nil => InForce'[f] = InForce[f]

\* README, PUT /admin/v1/clients/{key}/config: "Merge-patch update; omitted
\* fields keep their current value."  handleUpdateConfig does so when no other
\* update overlaps, the client is not evicted and no update came between
\* ensureTier's test and its Configure, whatever requests create the client and
\* the tier during the update and whoever sent the fields that are in force.  Of
\* two overlapping updates the second may undo the first.
OmittedKeptAlone == [][~disturbed => KeepsOmitted]_vars

\* design.md: "Admin changes logged append-only with before/after diffs".
\* While no update is in progress, and under the conditions of
\* OmittedKeptAlone, the diffs of AdminChange form a chain that ends in the
\* configuration in force, requests that are about to create the tier or have
\* created it notwithstanding.
AuditChain ==
    ~disturbed /\ (\A a \in Admins : pc[a] = "idle") =>
        /\ \A i \in DOMAIN log : i > 1 => log[i].before = log[i - 1].after
        /\ log # << >> => Snapshot(InForce) = log[Len(log)].after

\* design.md, on configuration updates: "Changes apply instantly on next request".
\* The configuration that an update has put in force gives way to another update
\* only, as long as the client is not evicted.
UpdateStands ==
    [][\A o \in Objects : tiers[o] # Nil /\ tiers'[o] # tiers[o] =>
        \E a \in Admins : pc[a] = "apply" /\ pc'[a] = "audit"]_vars
=============================================================================
