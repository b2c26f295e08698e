# A TLA+ model of Rateforge

Rateforge (the `sentinel` binary) is a rate-limiting service in Go. A client
asks over HTTP whether a request may go ahead; the service answers from token
buckets that are refilled lazily on the request path and eagerly by a
scheduler goroutine. An admin API changes limits and blocks clients while
requests are served. This directory models the service in TLA+, from the lines
of its configuration file to the answers its clients count, checks the models
with TLC on small instances, and proves with TLAPS, for every instance, that the
token bucket is correct, also while it is reconfigured, that the window's bound
holds, that the scheduler's heap is in order and it does not oversleep, that the
maps stay within their capacities, scheduled and blocked as they should be, that
the configuration file means what its indentation says and its tiers are layered
over its defaults, that configurations in force are valid and their history is
recorded, that every decision is paid for at each gate and counted once by each
observer, and that connection slots balance and shutdown drains the requests.
Paths below are relative to `src/`.

## 1. The system

| Component | State it keeps | Operations | Hard behaviour |
|---|---|---|---|
| Token bucket, `internal/bucket` | atomics `configPtr`, `tokens`, `lastRefillTime`, `blocked`, `lastAccessTime`, `windowPtr` | `Allow`, `ScheduledRefill`, `Block`, `Unblock`, `UpdateConfig` | no mutex: every atomic operation interleaves; callers' clocks are stale; the refund after a window rejection races refills |
| Sliding window, `internal/window` | ring of timestamps, `head`, `count`, under a mutex | `Allow`, `Cleanup` | timestamps enter out of order; ring wrap-around |
| Refill scheduler, `internal/scheduler` | heap and map of entries, one-slot `wakeup` channel, `Run`'s timer | `Schedule`, `Remove`, `Run`, `processDue` | lost wakeups between the look at the heap, the timer and `select`; entries are out of the heap while their callback runs; indices that every swap must update |
| Client registry, `internal/store` and `internal/multibucket` | `clients` map, each client's tier map, schedule entries | `Allow`, `getOrCreateClient`, `ensureTier`, `evictLRULocked`, `Block`, `Unblock`, `UpdateClientConfig`, `OnDue` | an operation is several critical sections of three locks; only `getOrCreateClient` holds `store.mu` while it takes `cb.mu` and the scheduler's mutex; pointers outlive evictions and replacements; creation at capacity |
| Global and IP gates, `internal/store` | `globalBucket` pointer, `ipBuckets` map with `ipBucketCap`, their schedule entries | `Allow`'s first gates, `SetGlobalConfig`, `DisableGlobal`, `getOrCreateIPBucket`, `OnDue` | pointer and schedule change in separate steps; racing creations and evictions |
| Admin configuration, `internal/server/admin_server.go` | none of its own; audit log | `handleUpdateConfig`, `handleBlock`, `handleUnblock`, `handleGlobalConfig` | read, merge, validate and apply without a lock, among requests that create the same tier |
| Client API, `internal/server/client_server.go`, `identity.go` | none | `handleRequest` | reads the clock long before the bucket uses it; three gates without refunds |
| Observers, `internal/audit`, `metrics`, `fairness` | audit records, counters by label, a histogram, consumption by client | `RequestDecision`, `Counter.Inc`, `Observe`, `RecordConsumption` | labels are created on first use by racing requests |
| Lifecycle, `cmd/sentinel/main.go`, both servers, `middleware.go` | server pointers, `LimitListener` semaphore, open connections | start, `Accept`, `Close`, `Shutdown`, exit | shutdown before start, full semaphore, connections closed twice, one deadline for three servers |
| Configuration, `internal/config`, `main` | a tree of sections; the resolved settings | `parseTree`, `Load`, `Validate`, `toBucketConfig` | indentation, repeated sections, layers of defaults, ranges |
| Simulator, `cmd/simulator` | a result for each client, the result channel | `runClient`, report | answers that come too late, a channel read only at the end |

Interaction: an HTTP goroutine reads the clock and calls `store.Allow`, which
asks the global bucket, the IP's bucket and the client's tier bucket in this
order. Creating, replacing or evicting a bucket calls the scheduler; the
scheduler's goroutine calls back (`OnDue`) into the store without its mutex and
puts the entry back at the time the store answers. Admin calls are goroutines
of the same store. `main` loads the configuration, wires these parts together,
runs the two APIs and the metrics endpoint in a goroutine each, and on a signal
shuts them down in order. The simulator is a second binary, a client of the API.

What makes each part correct: the bucket never grants more than the burst and
the elapsed intervals allow, creates and loses no token, and does not livelock;
the window admits no more than `MaxRequests` per window; the heap has the earliest
entry at its root, and the scheduler does not sleep past an entry; the maps stay within their capacities, live buckets stay
scheduled and dead entries go away; blocks hold; configurations in force are
valid and the audit log tells their history; a request is allowed only with a
token of every gate and each decision is counted once; the configuration means
what its indentation says; connection slots balance, and a signal ends the
process after the requests under way.

## 2. Modules

| Module | Models | Notes |
|---|---|---|
| `TokenBucket` | abstract specification | atomic tick, credit, reserve, commit, cancel |
| `Bucket` | `bucket.go` | one action for each atomic load, store, add or CAS |
| `BucketReconfig` | `Bucket.UpdateConfig` | extends `Bucket` with the four operations of an update |
| `BucketProofs` | | the theorems about `Bucket` and `BucketReconfig` |
| `SlidingWindow` | `window.go` | one action for each method (they hold the mutex throughout) |
| `SlidingWindowProofs` | | the theorems about `SlidingWindow` |
| `Scheduler` | `scheduler.go` | one action for each critical section, channel or timer operation |
| `RefillHeap` | `heap.go` and its callers in `scheduler.go` | extends `Scheduler` with the heap: one action for each call of `container/heap`, turn of its loops and `Pop` |
| `SchedulerProofs` | | the theorems about `Scheduler` and `RefillHeap` |
| `ClientRegistry` | `store.go`, `multibucket.go` | one action for each critical section or atomic access |
| `ClientRegistryProofs` | | the theorems about `ClientRegistry` |
| `Gates` | `store.go` (global, IP) | likewise |
| `GatesProofs` | | the theorems about `Gates` |
| `AdminConfig` | `handleUpdateConfig`, `ValidateBucketConfig`, `AdminChange`; of `store.go` `TierConfig`, `UpdateClientConfig`, `getOrCreateClient`, `ensureTier` | one action for each critical section |
| `AdminConfigProofs` | | the theorems about `AdminConfig` |
| `Admission` | `handleRequest`, `identity.go`, `store.Allow`'s gates, `RequestDecision`, `Counter.Inc`, `Observe`, `RecordConsumption` | one action for each gate and each observer's critical section |
| `Simulator` | `cmd/simulator` | extends `Admission`: clients, lost requests, late answers, the channel |
| `SimulatorProofs` | | the theorems about `Admission` and `Simulator` |
| `Config` | `config.go`, `main`'s use of it | one action for each line; `Load` and `Validate` as operators |
| `Lifecycle` | `main`, `ListenAndServe`, `Shutdown`, `middleware.go` | one action for each blocking step of `main`, of a server's goroutine and of a connection's |
| `Sentinel` | `main` | composes `Config` and `Lifecycle`: the file decides which servers run |
| `SentinelProofs` | | the theorems about `Config` and `Lifecycle` as `Sentinel` composes them |
| `MC...` | | constants and symmetry for TLC |

`PROJECT.json` maps every definition to its lines. In each module `pc` is the
next shared access of a goroutine and `frame` holds its Go locals; a goroutine
that keeps a pointer or a value across an unlock keeps it in `frame`. Operators
named `Bug...` are faulty variants of the definition that follows them; each
property of a passing run is violated when one of them takes the definition's
place.

How the abstractions relate:

* `Bucket` leaves the window's verdict open (any rejection, whenever a window is
  configured) and `SlidingWindow` models it.
* `Scheduler` leaves the callback's answer and its clients' calls open, and has the
  heap and the entries map as one map from ids to times of which it takes the
  earliest. `RefillHeap` adds the slots, the indices and the keys of the map: a
  critical section takes effect on `Scheduler`'s map as it begins and is then carried
  out in the heap, and `HeapMatches` says that the two agree when the mutex is free.
  While it is held, the other goroutines' steps are put off: none of them sees the heap
  without it. `Down` and `Up` are the loops of `container/heap`, which is not part of
  the repository. In
  `ClientRegistry` and `Gates` the scheduler is a map from ids to "none",
  "zero" (the zero `Time`, due at once) or "later", from which `Fire` takes any
  batch that includes the zero entries.
* `ClientRegistry` and `Gates` leave a bucket's verdict open and keep of it only
  whether it refills, is blocked and when it was used. Evictions scan the
  buckets one by one while others touch them; `Seen` is the set of times the
  scan may find.
* `ClientRegistry` has `getOrCreateClient` under its write lock as one step. The
  locks it takes inside (`cb.mu` of an object nobody else has yet, and of the
  candidates for eviction, and the scheduler's mutex) are free or held by
  goroutines that take no other lock, so this hides no deadlock; but a deadlock by
  the order of the locks could not be expressed.
* `AdminConfig` keeps the numbers of a configuration of one tier of one client and
  leaves out the schedule. The client's objects are explicit, because an update may
  reach one that has been evicted. Its integers have `Width` bits where the code
  multiplies.
* `Admission` uses a bucket as one atomic step, which is what `Bucket` is proved
  to implement (`TokenBucket`), and leaves evictions to `ClientRegistry` and
  `Gates`. Both optional limits and the fairness tracker are on.
* `Config` takes lines that are already split into indentation, key and text,
  and the parsers of numbers, durations and truth values as a function. It has
  two definitions of what a file means: the code's stack, and one by the
  enclosing lines (`Enclosing`, `Paths`, `Standing`), against which it is checked.
* `Lifecycle` models `net/http` as far as the code relies on it: `Serve` returns
  once `Shutdown` was called, `Shutdown` closes idle connections and waits for
  the others until its deadline, and a connection's goroutine closes it again.
  `main` reads the field `httpServer` without synchronisation; it finds it set
  or not.

History variables (`granted`, `credits`, `credited`, `spilled` in `Bucket`;
`accepted` in `SlidingWindow`; `barred` in `ClientRegistry`; `overlapped` in
`Gates`; `disturbed` in `AdminConfig`; `taken`, `refused` in `Admission`;
`skipped` in `Lifecycle`) are read by properties only.

## 3. Runs

Each is `tlc -config X.cfg M`; all but the violations finish in about three
minutes or less with two workers.

| Run | Instance | Properties |
|---|---|---|
| `bucket` | 2 callers, 1 refiller, 3 tokens, cost 3, rate 2 per 2 ticks, a window, clock to 4 | `TypeOK`, `Ledger` (conservation), `CreditedOnce` (D11: no interval twice), `RateBound` (the rate limit), `BalanceBound`, `ImplementsTokenBucket` (refinement), `RetryAfterSuffices` |
| `reconfig` | 1 caller, 1 refiller, 2 updates among a smaller bucket and a disabled refill | `CreditedOnce`, `ReconfigBalance`, `LockFree` |
| `window` | window 3, 2 requests, clock skew 1, clock to 9 | `RingIsSuffix` (D12), `WindowBound`, `RejectedOnlyWhenFull` |
| `scheduler` | 2 ids, 2 clients, times to 2, clock to 3; the map and the heap | `NoOversleep`, `IndexAgrees`, `HeapMatches`, `OverdueIsServed` |
| `registry` | 2 keys, room for 1, 3 tiers (one without defaults), 2 requests, 1 admin call | `TypeOK`, `Capacity`, `Covered`, `BlockHolds` |
| `registry_live` | 2 keys, room for 1, 2 tiers, one whose defaults do not refill, 1 request, 1 admin call, refill on or off | `StaleDropped`, `OperationsFinish` |
| `gates` | 2 addresses, room for 1, 2 requests, 2 admin calls that may overlap | `TypeOK`, `IPCapacity`, `GatesCovered`, `OrphansDropped`, `SpinNeedsRefillOff` |
| `admin_config` | 2 admins, 2 updates, 1 client request at a time, 2 objects, evictions, values in and out of range, integers of 6 bits | `InForceIsValid`, `AuditChain`, `OmittedKeptAlone` |
| `update_lost` | 1 admin, 1 update, 1 client request at a time, 1 object; violation | `UpdateStands` |
| `registry_block` | 1 key, 1 tier, no limit on clients, 1 request, 2 admin calls; violation | `BlockHolds`, when only `Unblock` may end a block |
| `sentinel` | every file of up to 5 lines out of 11; 3 servers, 2 connections, a limit of 1 | `ParsedAsWritten`, `TiersLayered`, `SlotsAccounted`, `InFlightDrained`, `StopsOnSignal` |
| `simulation` | 2 simulated clients, one with 2 requests and one whose time is up before its first, another client whose request is good or malformed, an address, 1 refill, blocks of one key | `GateLedger`, `DecisionsCounted`, `ReportAgrees`, `SimulationEnds` |

Why the bounds are enough for the cases that matter. The numbers of `bucket`
are chosen so that a request costs more than an interval brings and the rate
does not divide the cost (rounding in `retryAfter`), the bucket can be full
while a refund is under way, two refills can claim different intervals, and
every CAS can fail against each of the others. `window`'s clock passes the
window three times, so the ring of 3 slots (a configured size of 1, corrected)
wraps. `scheduler`'s times include one in the past of its clock and `Hour` is
longer than any of them; the clock passes the latest time by the lag of the timer, so
that every sleep ends. Its heap of two entries reaches every action and both
directions of sifting, but not `heap.Remove` in another branch than the last
slot's, which takes six entries: for larger heaps there are the theorems. In `registry` and `gates` the map has one place for two
keys, so every creation by another key evicts, also while the victim is in use;
`MaxTime = 0` makes all arrivals equally old, so the scan may choose any live
bucket. A single admin call with two requests is what the hard orders of
`BlockHolds` take: one request passes the check before `Block` and creates a
tier after it, and one arrives later. `admin_config`'s values are in and out of
range, among them an interval of zero, which is valid only with the rate of zero
that switches its check off; two updates are enough for one to follow, overlap or
chain with another, and two objects for an eviction under each; the default interval is no whole number of
milliseconds, the unit of requests and audit records; of the requested intervals
one wraps around to a value in range and one to a negative value. The lines of
`sentinel` open the three sections that are layered and a section at every
depth, and files that leave some of them out put keys at indentations no section
has; five lines are a defaults section and a tier with a field each and one line
more, which repeats, interrupts or malforms them. With a connection limit of 1,
one connection fills a listener while the second goes to another server or
waits. In `simulation` the global and the IP bucket hold 2 tokens and the clients'
1, so each gate refuses some request that the gates before it let pass, a
client with two requests can have both under way, and the other client's request
competes with them for the two outer buckets, or is refused as malformed.

Deadlock is checked where the model cannot stop (`bucket`, `window`,
`scheduler`, `reconfig`). In the others each goroutine performs one operation,
so the system stops when all are done and nothing is scheduled, or the process
ends (`sentinel`).

### What the violations show

* `registry_block`: `Block` sets a flag in the client's buckets, and an update
  installs a fresh bucket (`store.go:423`). In the trace a client is blocked, a
  request arrives, another admin call updates the client's tier, and the request is
  granted, though `bucket.go:179` says that all subsequent calls are rejected. With
  updates and evictions counted as ends of a block (`BlockEnds`) the property holds
  (`registry`).
* `update_lost`: `ensureTier` tests whether the tier has a bucket (`store.go:240`)
  and configures it in a later critical section without another look
  (`store.go:251`). A first request that is past the test puts the tier's defaults
  back over an update that was applied in between, although `design.md:222` says
  "Changes apply instantly on next request". It takes no overlap of updates and no
  eviction. The lost update also makes the audit log end in a configuration that is
  not in force, so `AuditChain` and `OmittedKeptAlone` are claimed only as long as no
  update came between a test and its `Configure`; that is the third thing that sets
  `disturbed`.

### Disagreements with the documents that a passing run states

* The window is half open: `compactLocked` drops a timestamp exactly one window old
  (`window.go:91`), where `design.md:685` counts it. `WindowBound` is what the code
  keeps; the documented bound, with a closed interval, it does not. The other
  direction holds of the documented window: `RejectedOnlyWhenFull` says that a
  request is refused only when the closed one is full.
* `ValidateBucketConfig` accepts a rate of 0, and then any interval that the
  configured limits admit (`sanitize.go:110`; `sanitize_test.go:94` expects it), where
  `design.md:560-561` requires a rate of at least 1 and an interval between 10ms and
  1h. `InForceIsValid` states the code's ranges, and `admin_config` has updates that
  put a rate and an interval of 0 in force.
* `clientIdentity` answers the source address for a request without a key, and
  `handleRequest` validates it as a key (`client_server.go:79`). The pattern of keys
  has no dots and no colons, so the fallback of `design.md:21` refuses every such
  request with status 400 and logs an anomaly. `simulation` has such a request; it
  reaches no gate.

### Observations that are not runs of their own

* Of two overlapping merge-patch updates of different fields the second writes
  back the first one's old value (`admin_server.go:122`), against `README.md:109`,
  "omitted fields keep their current value"; `OmittedKeptAlone` holds because it
  excludes overlap, eviction and the race of `update_lost` (`disturbed`), and fails
  without each of these conditions.
* An update whose client is evicted between `EnsureClient` and `Configure`
  (`store.go:422-423`) configures an object that is no longer in the map, and is
  lost; eviction sets `disturbed`.
* LRU eviction does not spare blocked clients (`store.go:283`), and an evicted one
  comes back unblocked; in `registry` an eviction counts as an end of the block.
* Of two first requests past `ensureTier`'s test the second replaces the bucket the
  first may have spent from. Blocks and schedule entries survive it
  (`BlockHolds`, `Covered`); the spent tokens do not.
* `OnDue` has no answer for "exists but does not refill" (`store.go:373`). A
  callback that crosses the change to such a global bucket puts the entry back at
  the zero `Time`, and `Run` spins until the limit is removed or refills again,
  which is what `SpinNeedsRefillOff` says.
* A signal before a server's goroutine has set `httpServer`
  (`client_server.go:171`) leaves that server running and `main` waiting for it;
  `StopsOnSignal` states the exception.
* `Validate` looks at the `defaults` section only (`config.go:499`): a named tier,
  one called `default` among them, may have no tokens at all. `TiersLayered`
  claims the range only for tiers without a section of their own.
* No gate gives back what it took when a later one refuses (`store.go:161-184`);
  `GateLedger` is the exact balance.
* If the five seconds pass, `main` closes the audit file and ends although
  handlers may still run (`main.go:147-158`); `InFlightDrained` is about the
  other case.
* A refund is not capped (`bucket.go:106`), so with a window the balance can
  pass `MaxTokens` by one cost for each concurrent caller; `BalanceBound` is the
  exact statement, and `RateBound` holds all the same.
* `lastAccessTime` can go backwards (`bucket.go:89`): a slow old call stores over
  a newer time. Only the choice of the least recently used victim reads it.
* `UpdateConfig`'s clamp (`bucket.go:168-169`) is a load and a store, and
  refills with the old configuration may follow it; only tests call it.
* Callers of the window with old timestamps can be admitted although their own
  window is full, which is why `WindowBound` speaks of the current window and of
  windows shortened by the skew.
* `Remove` during the entry's callback has no effect (`scheduler.go:156`); the
  store's `OnDue` drops such entries at the next turn (`StaleDropped`,
  `OrphansDropped`).
* A tier created while `Block` runs is not blocked itself
  (`multibucket.go:49`), against the comment at line 117; `IsBlocked` looks at
  all tiers, so `BlockHolds` is not affected.
* Overlapping changes of the global limit can leave a refilling bucket without
  an entry, and so can overlapping updates of a tier of which one turns refill
  off. Lazy refill makes up for it. `GatesCovered` excludes the former with
  `overlapped`, and `registry` the latter by `NewRefills = {TRUE}`.

## 4. Fairness

* Goroutines inside an operation go on (weak fairness of each goroutine's
  steps): the Go scheduler is preemptive. Nothing requires requests or admin
  calls to arrive.
* `RefillHeap`: weak fairness of the clock and of what is done under the mutex; strong
  fairness of `Run` and of pending signals, because others may take the mutex again
  and again and Go's `sync.Mutex` lets no waiter starve; strong fairness of the timer
  case, because `select` chooses at random among ready cases, so that wakeups cannot
  starve it for ever.
* `ClientRegistry`, `Gates`: strong fairness of each entry's turn. Every time in
  the heap is finite and `Run` serves overdue entries (`OverdueIsServed`); the
  entry may be out of the heap in between, hence strong.
* `Lifecycle`: `main`, the servers' goroutines and the clock go on, a closed
  listener ends a pending `Accept`, and the handlers of the two APIs return,
  which their work is short enough for and their read and write timeouts bound.
  Nothing is assumed of the metrics server's connections, which have no timeouts,
  of idle connections, or of anyone connecting.
* `Simulator`: the clients' goroutines and `main` go on. `Turns` stands for the
  duration that bounds each client's loop; the server need not answer, because
  the HTTP client has a timeout.
* `LockFree` claims that some call completes, not that each does, under weak
  fairness only.

## 5. Proofs

Every theorem is of the form `Spec => []Property`, or `Spec => Property` for an
action property or a refinement, with the specification and the property of the
run that model-checks it. No bound of a run is used. The type invariants of
`Scheduler` and `SlidingWindow` are proved and in no run.

| Module | Holds for | Theorems (property) |
|---|---|---|
| `BucketProofs`, about `Bucket` | every configuration in `Configs` (no negative `MaxTokens` or `RefillRate`, any interval, any cost), any finite set of callers, any refillers | `TypeCorrect` (`TypeOK`), `CreditedOnceTheorem`, `LedgerTheorem`, `BalanceTheorem` (`BalanceBound`), `RateBoundTheorem`, `RetryAfterTheorem` (`RetryAfterSuffices`), `Refinement` (`ImplementsTokenBucket`) |
| `BucketProofs`, about `BucketReconfig` | besides, any finite set of configurations and any number of updates | `ReconfigCreditedTheorem` (`CreditedOnce`), `ReconfigBalanceTheorem` |
| `SlidingWindowProofs` | every window, limit, configured buffer size (also negative ones) and skew | `TypeCorrect`, `SuffixTheorem` (`RingIsSuffix`), `WindowBoundTheorem`, `RejectedTheorem` (`RejectedOnlyWhenFull`) |
| `SchedulerProofs` | any ids, clients and times, heaps of any size | `TypeCorrect`, `NoOversleepTheorem`, `IndexTheorem` (`IndexAgrees`), `HeapTheorem` (`HeapMatches`) |
| `ClientRegistryProofs` | any finite set of keys, any tiers, whichever of their defaults refill, any requests, admin calls and capacity | `TypeCorrect`, `CapacityTheorem`, `BlockTheorem` (`BlockHolds`), `CoveredTheorem` |
| `GatesProofs` | any finite set of addresses, any requests, admin calls and capacity | `TypeCorrect`, `IPCapacityTheorem`, `CoveredTheorem` (`GatesCovered`) |
| `AdminConfigProofs` | any admins, client requests, objects, values, ranges and widths | `InForceTheorem` (`InForceIsValid`), `AuditTheorem` (`AuditChain`), `OmittedTheorem` (`OmittedKeptAlone`) |
| `SentinelProofs`, about `Config` | any lines, files of any length, any parsers | `ParsedTheorem` (`ParsedAsWritten`), `TiersTheorem` (`TiersLayered`) |
| `SentinelProofs`, about `Lifecycle` | any finite set of connections, any limit and any lines | `SlotsTheorem` (`SlotsAccounted`), `DrainTheorem` (`InFlightDrained`) |
| `SimulatorProofs` | any finite set of handlers, addresses and keys, any clients, numbers of requests, capacities, refills and blocks | `GateLedgerTheorem`, `DecisionsTheorem` (`DecisionsCounted`), `ReportTheorem` (`ReportAgrees`) |

Two theorems have a hypothesis. `BlockTheorem` assumes that updates and evictions
are among the `BlockEnds`; without them the property is false, which is the
violation `registry_block`. `CoveredTheorem` of `ClientRegistryProofs` assumes
`NewRefills \subseteq {TRUE}`: two overlapping updates of which one turns refill
off can leave a bucket without an entry (section 3). The run `registry` is such an
instance of both.

Assumptions on constants are named where the constants are declared, and TLC
evaluates them in the runs. Beyond types, finiteness and ranges they are:
`NamesAssumption` of `ClientRegistry` and of `Gates` (`Nil`, which stands for Go's
nil, is no pointer or id; a goroutine is not both a request and an admin call; the
global schedule id is not an address, which the prefixes of the ids see to);
`NilAssumption` of `AdminConfig`; its `PowerAssumption`, that powers of two are
positive, which is a fact of arithmetic that the provers do not know;
`ParseAssumption` of `Config`, that what `ParseInt` returns is a number;
`NamesAssumption` of `Admission` (the store keeps global, IP and client buckets
apart) and `RequestsAssumption` (a request comes from an address); and
`ProfilesAssumption` of `Simulator`: `main` gives each profile a key of its own
(`cmd/simulator/main.go:55-64`), and no other client of the server uses one of
them. Without the latter a simulated client's bucket would also pay for others,
and `ReportAgrees` could not compare the two.

The argument for the bucket. `Base` strengthens the type invariant with what each
label of `pc` knows about its frame, whatever configuration the frame has loaded
(a claimed interval lies between `last` and `at`, `at <= now`, a loaded balance
covers the cost). It is preserved by each action, one lemma each. The lemmas
`Effect...` then reduce every action to one of six effects on the accounts:
nothing (time may pass), a claim of intervals, a credit, a taking, and its grant or
refund. `CreditedOnce` is proved from the effects alone. Without `UpdateConfig` the
configuration is `Fixed`, and so are `Counted` (the credited instants number
`credits` intervals), `Ledger` and `BalanceBound`; the conjunction is the inductive
invariant `IInv`. `RateBound` is not inductive: it follows from `Ledger` and from
`credits * RefillInterval <= now` (`CreditsFit`), which follows from
`CreditedOnce` and `Counted`, since instants credited once are no more than
those elapsed. The same fact is the guard of the abstract credit in the
refinement; the other effects map to abstract steps or stutters.
`RetryAfterSuffices` needs of the state only `Base`: that `lastRefillTime` is not
in the future; the rest is that `RetryAfter` rounds up (`RoundUp`) and that waiting
whole intervals makes up for any remainder that was under way (`DivAdds`).

With `UpdateConfig`, callers hold different costs, so what they hold is no
multiple of one cost. `HeldTokens` is a set with one element for each token a
caller holds, by the configuration it loaded. `Room` says that the balance and
these tokens together fit the largest capacity and, for each caller, the largest
cost of all the configurations there are: a taking, a grant or a refund does not
increase their sum, and a credit or a clamp leaves a balance that fits the
capacity alone, whatever is held.

The window. The timestamps in the ring are not sorted, only almost: each admitted
request is older than an earlier one by the skew at most (`Ordered`). What has left
the ring is out of the window (`Left`), and of `MaxRequests + 1` requests in a row
the first and the last are almost a window apart (`Spaced`), from which the bound
on past windows follows: a window with more requests would hold two that are so
far apart in the order of admission. For `RejectedOnlyWhenFull` the invariant has the
stronger fact that the code makes true, about the half-open window
(`RejectedWhenFull`).

The scheduler. `NoOversleep` is about the `select`; its inductive form `WaitFits`
holds from the end of `nextWait` on, across the reset of the timer, unless a wakeup
is pending or about to be sent.

The heap. Every step of `RefillHeap` is a step of `Scheduler` or leaves it alone
(`Simulates`), so what is proved of `Scheduler` holds of it. `Schedule` puts a new entry
into the map when `heap.Push` has returned (`scheduler.go:63-64`), so while the loop
runs the heap has one entry more than the map (`InHeap`); `Indexed` is `IndexAgrees`
with that entry. It is inductive given the types, that a loop stays in its part of the
heap, and that the last slot holds the entry that is being taken out (`Slots`); that
`Swap` keeps it is `SwapFacts`. For the order the invariant says how far the heap is out of order while
it is being repaired: every slot but the one at hand is in order with its parent
(`AllBut`), the parent of the slot at hand is no later than its children (`Across`),
and, once `down` has moved or `up` has begun, the slot is in order with its parent
(`Above`) or with its children (`Below`). `DownMoves` and `UpMoves` say that a swap
hands this on to the next slot, `Settled` that nothing is out of order when the loop
ends, and `RootIsEarliest` is the least number principle: the first of the slots that
are earlier than the root would have a parent that is earlier too. `HeapMatches` is the
case of `Matches` in which the mutex is free; while processDue pops, `Matches` says
that what it has still to pop is what is in the heap and due, so that a root that is
not due, being the earliest, means that there is nothing left (`WorkMatches`).

The registry. Goroutines hold pointers to objects that may have been evicted or
replaced; `Placed` says that an object is registered under one key at most, the
one that every goroutine holding it works for, and that a bucket is in one place
of one object at most; an object that its creator has not got yet is empty
(`Unfilled`). For
`BlockHolds`, while a block lasts the default bucket of the client's registered
object is blocked (`BarredBlocked`), every bucket that the walk of `Block` has
passed is (`WalksBlock`), and a request that a block bars has not got beyond the
check (`BarredRequests`). For `Covered`, each refilling bucket has
an entry in the heap, is in the batch of `processDue`, or is about to be scheduled
by a goroutine that is between its `Configure` and its `Schedule`
(`AllCovered`), for which no step may change whether a bucket refills
(`SameRefills`); `GatesCovered` has the same argument (`IPCovered`, `GlobalCovered`),
where the one admin call under way knows which bucket is current.

The admin API. For `InForceIsValid` the invariant adds that what a handler carries
from its validation to its update is valid as well, and so is what every object
holds, whether it is in the map or not (`Carried`); it does not matter what becomes
of the configuration the handler read. `normalize`, which runs after the validation,
keeps the validated fields. For `AuditChain` and `OmittedKeptAlone`, what a handler
merged keeps the omitted fields of what it read (`Merged`). Until something disturbs
the updates, one handler at most is under way, every goroutine holds the client that
is in the map, a request about to configure the defaults finds nothing else there,
and what the handler read is still in force (`Alone`), up to the normalisation that
comes with the creation of the tier (`Agree`); the records so far lead up to it
(`Chained`). The third of these is where the condition on `ensureTier` is needed: an
update that is applied while a request is past its test ends it.

The configuration. `ParsedAsWritten` compares the tree with the recursive function
`Paths` over the lines read so far, of which the provers know nothing but its
definition. That a function with this definition exists is therefore a part of the
invariant (`Named`): each new line extends it, and a smallest line on which two such
functions differ shows that there is only one. The stack then consists
of the root and of the sections that are still open by their indentation, of two of
which the later is indented more (`StackIsOpen`), so that its last frame is the
innermost section around the next line (`TopIsInnermost`). A frame's section may
have been overwritten by a repeated key in the meantime, but then its frame is not on
the stack (`Attached`); every entry of the tree is in a section of the tree
(`Rooted`). `TreeStands` is `ParsedAsWritten`, for the file as far as it is read.
`TiersLayered` follows when `Load` has run: what an accessor returns is what the
lines say (`GetSaid`), and a tier without a section of its own has, by `Rooted`,
nothing said of it, so that it has the settings `Validate` has checked.

The lifecycle. For `SlotsAccounted` the invariant adds that `releaseOnce` has run
exactly for the connections that `Shutdown` has closed and whose goroutines have
not yet (`ReleasedOnce`); closing a set of connections then lowers the semaphore by
as many slots as connections stop being open (`CloseKeeps`). For `InFlightDrained`
the invariant `DrainInv` follows `main` from server to server: once it is past a
server, that server was skipped, the deadline has expired, or none of its
requests is under way (`Drained`), and none comes under way later, because a
request that starts after `Shutdown` is not one it waits for.

The client API and the simulator. The equations of `GateLedger` and
`DecisionsCounted` are inductive, given the types of the frames and what each label
of `pc` knows of its handler's answer (`ServerInv`); the work is that they are sums
over sets of buckets and counts of handlers. `SumMore` and its relatives say how
`MapThenSumSet` changes when the function changes in one place, and follow from its
definition by induction over the subsets of a finite set; since the library's
induction theorems take an operator, the induction is made on the set of those
subsets for which the claim holds, with the least number principle (`Smallest`,
`NatSetInduction`, `SubsetInduction`). Each action is then one of the steps
`Enters`, `Passes`, `Takes`, `Refuses`, `Logs`, `Counts` and `Finishes` of one
handler, or leaves the books alone, and each equation has a lemma that says that
these steps keep it. `ReportAgrees` is not inductive: that a client's `Allowed` is
no more than its bucket granted depends on which handlers hold an answer the client
has not read. `ReportInv` adds that a key's taken tokens are as many as the
handlers that were granted one (`GrantsHeld`), that a simulated client's key is with
the handlers of the requests it has sent and no others (`OwnKeys`), that what a
client has counted is no more than the answers there are of each kind, while all
outcomes together number the requests sent (`Tally`), and that a client which is
done has its result in the channel (`Delivered`). The upper bound follows: a grant
that was not reported as allowed belongs to a request that was not rejected, hence
was an error or is awaited.

Only model-checked: the liveness properties (`LockFree`, `OverdueIsServed`,
`StaleDropped`, `OperationsFinish`, `OrphansDropped`, `SpinNeedsRefillOff`,
`StopsOnSignal`, `SimulationEnds`), since fairness and ENABLED are out of the
prover's reach. Every invariant and every other action property or refinement of a
passing run is proved.

## 6. Not modelled

* Text handling with no shared state: comments and quotes of the configuration
  file, regular expressions, hashing, sanitising and formatting of logs, JSON,
  the metrics' text format, the simulator's table and percentiles.
* `authMiddleware` and TLS: they end a request before it reaches a handler.
* Read-only operations: `Status`, `ListClients`, `Snapshot`, `Priority`, the
  status endpoints, and `reportMetricsLoop`, which copies sizes into gauges that
  nothing reads back. `SetWeight` has no caller.
* The random sample of allowed requests in the audit log.
* `encodeID` and `decodeID`: ids are pairs, so a client key that spells the
  prefix of IP ids (`store.go:376`) does not exist in the models.
* int64 and `time.Duration` overflow other than in `AdminConfig`.
* `Allow`'s `recover`: nothing in it panics once `New` has stored a
  configuration.

## 7. Plan

Done: everything in section 2. What is left, in order of importance:

1. `ScheduleIds`: `encodeID`, `decodeID` and the prefixes of IP and global ids.
