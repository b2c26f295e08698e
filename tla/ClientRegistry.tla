--------------------------- MODULE ClientRegistry ---------------------------
(***************************************************************************)
(* internal/store and internal/multibucket: the client map, each client's  *)
(* tier map, and the refill schedule entries the store keeps for them.     *)
(*                                                                         *)
(* Every HTTP request and admin call is a goroutine of its own, so a       *)
(* member of Requests or Admins performs one operation and is done.  An    *)
(* operation is as many steps here as it has critical sections of its own; *)
(* of the locks (store.mu, each ClientBuckets' mu, the scheduler's) only   *)
(* getOrCreateClient's write lock is held while others are taken, and what *)
(* it does under them is one step.  Goroutines keep pointers between their *)
(* steps: a ClientBuckets object may be evicted, and a bucket replaced,    *)
(* while a request still uses it.                                          *)
(*                                                                         *)
(* A ClientBuckets object is named after the goroutine that created it and *)
(* a bucket after the goroutine and the occasion.  A bucket's tokens are   *)
(* abstract (module Bucket), its verdict arbitrary; of a configuration     *)
(* only whether it refills (RefillInterval > 0) matters, and of a schedule *)
(* time only whether it is the zero Time.                                  *)
(***************************************************************************)
EXTENDS Integers, FiniteSets, FiniteSetsExt

CONSTANTS
    Keys,           \* client keys
    Tiers,          \* tier names, DefaultTier among them
    DefaultTier,
    TierDefaults,   \* tiers with configured defaults
    Refilling,      \* those of them whose defaults refill
    Requests,       \* goroutines, one for each client request
    Admins,         \* goroutines, one for each admin call
    AdminOps,       \* what admin calls may be: "block", "unblock", "update"
    NewRefills,     \* updates may turn refill on (TRUE) or off (FALSE)
    BlockEnds,      \* what may end a block besides an unblock: "update", "evict"
    MaxClients,     \* 0 for no limit
    MaxTime,        \* bound on the clock, for TLC: from then on arrivals read the
                    \* same time and a scan may find any of them the oldest
    Nil

ASSUME TierAssumption ==
    DefaultTier \in TierDefaults /\ TierDefaults \subseteq Tiers /\ Refilling \subseteq TierDefaults
ASSUME OpsAssumption ==
    /\ AdminOps \subseteq {"block", "unblock", "update"}
    /\ NewRefills \subseteq BOOLEAN
    /\ BlockEnds \subseteq {"update", "evict"}
ASSUME SizeAssumption == MaxClients \in Nat /\ MaxTime \in Nat

Procs == Requests \cup Admins
BucketIds == Procs \X {"default", "tier"}
Ids == Keys \X Tiers            \* encodeID(key, tier)

ASSUME NamesAssumption ==
    /\ IsFiniteSet(Keys) /\ Nil \notin Keys \cup Procs \cup BucketIds \cup Ids
    /\ Requests \cap Admins = {}

VARIABLES
    clients,    \* key -> ClientBuckets object, or Nil
    tiers,      \* ClientBuckets object -> tier -> bucket, or Nil
    buckets,    \* bucket -> refills, blocked, used (lastAccessTime)
    sched,      \* id -> "none", or the kind of its time: "zero" or "later"
    firing,     \* processDue: ids popped and not yet called back; the callback's
                \* pc, id, client and next time
    now,        \* the clock, which advances with arrivals
    pc,
    frame,      \* locals of each goroutine
    barred      \* history: keys blocked by a finished Block that nothing ended

vars == <<clients, tiers, buckets, sched, firing, now, pc, frame, barred>>

NoFrame == [op |-> "none", key |-> Nil, tier |-> DefaultTier, refills |-> TRUE,
            at |-> 0, cb |-> Nil, bkt |-> Nil, next |-> "none", todo |-> {},
            barred |-> FALSE]
NotFiring == [due |-> {}, pc |-> "idle", id |-> Nil, cb |-> Nil, next |-> "none"]
-----------------------------------------------------------------------------
Goto(p, l) == pc' = [pc EXCEPT ![p] = l]
Set(p, f, v) == frame' = [frame EXCEPT ![p][f] = v]
Finish(p) == Goto(p, "done") /\ frame' = [frame EXCEPT ![p] = NoFrame]

\* frame[p].barred: a request that arrived under a block which nothing ended
\* since; a Block that no Unblock overlaps.  Blocks of these keys end for these
\* operations in progress.
Released(f, keys, ops) ==
    [q \in Procs |-> IF f[q].key \in keys /\ f[q].op \in ops
                     THEN [f[q] EXCEPT !.barred = FALSE] ELSE f[q]]

\* An Unblock of the key is in progress.
Unblocking(k) == \E q \in Admins : frame[q].op = "unblock" /\ frame[q].key = k

\* The bucket of a tier of a client object, Nil if it is not configured.
Bucket(cb, t) == tiers[cb][t]

Tiered(cb) == {t \in Tiers : tiers[cb][t] # Nil}    \* ClientBuckets.Tiers
BucketsOf(cb) == {tiers[cb][t] : t \in Tiered(cb)}

\* bucket.New.
Fresh(refills, at) == [refills |-> refills, blocked |-> FALSE, used |-> at]

\* NextRefillTime.
NextRefillTime(b) == IF buckets[b].refills THEN "later" ELSE "zero"

\* BlockAll, UnblockAll hold cb.mu for reading while they walk the buckets,
\* which keeps Configure, a writer, out.
BugWalking(cb) ==                   \* the read lock is not released
    \E p \in Procs : pc[p] = "walk" \/ (pc[p] = "done" /\ p \in Admins)
Walking(cb) == \E p \in Procs : pc[p] = "walk" /\ frame[p].cb = cb

\* ClientBuckets.IsBlocked.
BugIsBlocked(p) ==                  \* looks at the requested tier only
    LET b == Bucket(frame[p].cb, frame[p].tier) IN b # Nil /\ buckets[b].blocked
IsBlocked(p) == \E b \in BucketsOf(frame[p].cb) : buckets[b].blocked

LastAccess(cb) == Max({buckets[b].used : b \in BucketsOf(cb)})

Init ==
    /\ clients = [k \in Keys |-> Nil]
    /\ tiers = [p \in Procs |-> [t \in Tiers |-> Nil]]
    /\ buckets = [b \in BucketIds |-> Fresh(TRUE, 0)]
    /\ sched = [i \in Ids |-> "none"]
    /\ firing = NotFiring
    /\ now = 0
    /\ pc = [p \in Procs |-> "start"]
    /\ frame = [p \in Procs |-> NoFrame]
    /\ barred = {}

\* An operation begins: it reads the clock.  An Unblock that has begun may
\* take effect at any time, so it ends the block.
Begin(p, op, key, tier, refills) ==
    LET ended == IF op = "unblock" THEN {key} ELSE {} IN
    /\ pc[p] = "start"
    /\ now' = IF now < MaxTime THEN now + 1 ELSE now
    /\ Goto(p, "lookup")
    /\ barred' = barred \ ended
    /\ frame' = [Released(frame, ended, {"allow", "block"}) EXCEPT
                    ![p] = [NoFrame EXCEPT !.op = op, !.key = key, !.tier = tier,
                                           !.at = now', !.refills = refills,
                                           !.barred = \/ op = "allow" /\ key \in barred
                                                      \/ op = "block" /\ ~Unblocking(key)]]
    /\ UNCHANGED <<clients, tiers, buckets, sched, firing>>

Request(r) == \E k \in Keys, t \in Tiers : Begin(r, "allow", k, t, t \in Refilling)

AdminCall(a) ==
    \E op \in AdminOps, k \in Keys :
        IF op = "update"
        THEN \E t \in Tiers, f \in NewRefills : Begin(a, op, k, t, f)
        ELSE Begin(a, op, k, DefaultTier, TRUE)

\* Where an operation goes with its client in hand, f being the goroutines'
\* locals.
Entered(p, f, cb) ==
    /\ frame' = [f EXCEPT ![p].cb = cb]
    /\ Goto(p, CASE f[p].op = "allow" -> "isBlocked"
                 [] f[p].op = "update" -> "configure"
                 [] OTHER -> "lockTiers")

\* getOrCreateClient's read-locked fast path, and Unblock's lookup, which
\* gives up on an unknown client.
Lookup(p) ==
    /\ pc[p] = "lookup"
    /\ LET cb == clients[frame[p].key] IN
       IF cb # Nil THEN Entered(p, frame, cb)
       ELSE IF frame[p].op = "unblock" THEN Finish(p)
       ELSE Goto(p, "create") /\ UNCHANGED frame
    /\ UNCHANGED <<clients, tiers, buckets, sched, firing, now, barred>>

\* evictLRULocked: the least recently used client, if the map is full.  The
\* scan reads one client after the other while operations that have a client
\* in hand may touch it, so it may see any of these times of a client.
Seen(k) ==
    {LastAccess(clients[k])} \cup {frame[p].at : p \in {q \in Procs : frame[q].cb = clients[k]}}

Scan(live) == {k \in live : \A j \in live : Min(Seen(k)) <= Max(Seen(j))}

BugVictims ==                       \* lets the map grow by one too many
    LET live == {k \in Keys : clients[k] # Nil}
    IN IF MaxClients > 0 /\ Cardinality(live) > MaxClients THEN Scan(live) ELSE {Nil}
Victims ==
    LET live == {k \in Keys : clients[k] # Nil}
    IN IF MaxClients > 0 /\ Cardinality(live) >= MaxClients THEN Scan(live) ELSE {Nil}

\* getOrCreateClient under the write lock: look again, evict at capacity
\* (dropping the victim's schedule), create with the default tier, and schedule
\* it if its defaults refill.
Create(p) ==
    /\ pc[p] = "create"
    /\ LET key == frame[p].key
           b == <<p, "default">>
       IN IF clients[key] # Nil
          THEN /\ Entered(p, frame, clients[key])
               /\ UNCHANGED <<clients, tiers, buckets, sched, barred>>
          ELSE \E v \in Victims :
               /\ tiers' = [tiers EXCEPT ![p][DefaultTier] = b]
               /\ buckets' = [buckets EXCEPT ![b] = Fresh(DefaultTier \in Refilling, frame[p].at)]
               /\ clients' = [k \in Keys |-> IF k = key THEN p
                                             ELSE IF k = v THEN Nil ELSE clients[k]]
               /\ sched' = [i \in Ids |->
                    IF i = <<key, DefaultTier>> /\ DefaultTier \in Refilling THEN "later"
                    ELSE IF i[1] = v /\ i[2] \in Tiered(clients[v]) THEN "none"
                    ELSE sched[i]]
               /\ LET ended == IF "evict" \in BlockEnds THEN {v} ELSE {} IN
                  /\ barred' = barred \ ended
                  /\ Entered(p, Released(frame, ended, {"allow"}), p)
    /\ UNCHANGED <<firing, now>>

\* Allow: the client-wide block, then ensureTier's test for a known tier.
CheckBlocked(r) ==
    /\ pc[r] = "isBlocked"
    /\ IF IsBlocked(r) THEN Finish(r) ELSE Goto(r, "ensureTier") /\ UNCHANGED frame
    /\ UNCHANGED <<clients, tiers, buckets, sched, firing, now, barred>>

EnsureTier(r) ==
    /\ pc[r] = "ensureTier"
    /\ LET t == frame[r].tier IN
       Goto(r, IF t # DefaultTier /\ Bucket(frame[r].cb, t) = Nil /\ t \in TierDefaults
               THEN "configure" ELSE "pick")
    /\ UNCHANGED <<clients, tiers, buckets, sched, firing, now, frame, barred>>

\* Configure: a new bucket replaces whatever the tier has by now.  ensureTier
\* goes on to schedule it if it refills, UpdateClientConfig to remove the old
\* entry first.
Configure(p) ==
    /\ pc[p] = "configure"
    /\ ~Walking(frame[p].cb)
    /\ LET b == <<p, "tier">> IN
       /\ buckets' = [buckets EXCEPT ![b] = Fresh(frame[p].refills, frame[p].at)]
       /\ tiers' = [tiers EXCEPT ![frame[p].cb][frame[p].tier] = b]
    /\ LET ended == IF frame[p].op = "update" /\ "update" \in BlockEnds
                    THEN {frame[p].key} ELSE {} IN
       barred' = barred \ ended /\ frame' = Released(frame, ended, {"allow"})
    /\ Goto(p, CASE frame[p].op = "update" -> "unschedule"
                 [] frame[p].op = "allow" -> IF frame[p].refills THEN "nextTime" ELSE "pick")
    /\ UNCHANGED <<clients, sched, firing, now>>

Id(p) == <<frame[p].key, frame[p].tier>>

\* UpdateClientConfig: Remove, and schedule again only if refill is on.
Unschedule(a) ==
    /\ pc[a] = "unschedule"
    /\ sched' = [sched EXCEPT ![Id(a)] = "none"]
    /\ IF frame[a].refills THEN Goto(a, "nextTime") /\ UNCHANGED frame ELSE Finish(a)
    /\ UNCHANGED <<clients, tiers, buckets, firing, now, barred>>

\* The time to schedule is that of the bucket the tier has by now.
NextTime(p) ==
    /\ pc[p] = "nextTime"
    /\ Set(p, "next", NextRefillTime(Bucket(frame[p].cb, frame[p].tier)))
    /\ Goto(p, "schedule")
    /\ UNCHANGED <<clients, tiers, buckets, sched, firing, now, barred>>

BugSchedule(p) ==                   \* an update does not schedule anew
    /\ pc[p] = "schedule"
    /\ sched' = IF frame[p].op = "update" THEN sched
                ELSE [sched EXCEPT ![Id(p)] = frame[p].next]
    /\ IF frame[p].op = "update" THEN Finish(p) ELSE Goto(p, "pick") /\ UNCHANGED frame
    /\ UNCHANGED <<clients, tiers, buckets, firing, now, barred>>
Schedule(p) ==
    /\ pc[p] = "schedule"
    /\ sched' = [sched EXCEPT ![Id(p)] = frame[p].next]
    /\ IF frame[p].op = "update" THEN Finish(p) ELSE Goto(p, "pick") /\ UNCHANGED frame
    /\ UNCHANGED <<clients, tiers, buckets, firing, now, barred>>

\* ClientBuckets.Allow: the tier's bucket, or the default tier's.
BugPick(r) ==                       \* no fallback to the default tier
    /\ pc[r] = "pick"
    /\ Set(r, "bkt", Bucket(frame[r].cb, frame[r].tier))
    /\ Goto(r, "take")
    /\ UNCHANGED <<clients, tiers, buckets, sched, firing, now, barred>>
Pick(r) ==
    /\ pc[r] = "pick"
    /\ LET b == Bucket(frame[r].cb, frame[r].tier) IN
       Set(r, "bkt", IF b # Nil THEN b ELSE Bucket(frame[r].cb, DefaultTier))
    /\ Goto(r, "take")
    /\ UNCHANGED <<clients, tiers, buckets, sched, firing, now, barred>>

\* Bucket.Allow: a blocked bucket rejects without being touched; otherwise
\* the tokens decide.
TakeBlocked(r) ==
    /\ pc[r] = "take"
    /\ buckets[frame[r].bkt].blocked
    /\ Finish(r)
    /\ UNCHANGED <<clients, tiers, buckets, sched, firing, now, barred>>

Take(r, granted) ==
    /\ pc[r] = "take"
    /\ ~buckets[frame[r].bkt].blocked
    /\ buckets' = [buckets EXCEPT ![frame[r].bkt].used = frame[r].at]
    /\ Goto(r, IF granted THEN "granted" ELSE "done")
    /\ IF granted THEN UNCHANGED frame ELSE frame' = [frame EXCEPT ![r] = NoFrame]
    /\ UNCHANGED <<clients, tiers, sched, firing, now, barred>>

\* The response is sent.
Respond(r) ==
    /\ pc[r] = "granted"
    /\ Finish(r)
    /\ UNCHANGED <<clients, tiers, buckets, sched, firing, now, barred>>

\* BlockAll, UnblockAll: under the read lock, one bucket after the other in
\* an arbitrary order, among other readers.
LockTiers(a) ==
    /\ pc[a] = "lockTiers"
    /\ Set(a, "todo", BucketsOf(frame[a].cb))
    /\ Goto(a, "walk")
    /\ UNCHANGED <<clients, tiers, buckets, sched, firing, now, barred>>

Walk(a) ==
    /\ pc[a] = "walk"
    /\ \E b \in frame[a].todo :
        /\ buckets' = [buckets EXCEPT ![b].blocked = frame[a].op = "block"]
        /\ Set(a, "todo", frame[a].todo \ {b})
    /\ UNCHANGED <<clients, tiers, sched, firing, now, pc, barred>>

WalkDone(a) ==
    /\ pc[a] = "walk" /\ frame[a].todo = {}
    /\ LET key == frame[a].key
           evicted == "evict" \in BlockEnds /\ clients[key] # frame[a].cb
       IN barred' = IF frame[a].op = "block" /\ frame[a].barred /\ ~evicted
                    THEN barred \cup {key} ELSE barred
    /\ Finish(a)
    /\ UNCHANGED <<clients, tiers, buckets, sched, firing, now>>

\* processDue takes the entries that are due out of the schedule, those at the
\* zero Time among them, and then calls back for one after the other.
Fire(ids) ==
    /\ firing = NotFiring /\ ids # {}
    /\ \A i \in ids : sched[i] # "none"
    /\ {i \in Ids : sched[i] = "zero"} \subseteq ids
    /\ sched' = [i \in Ids |-> IF i \in ids THEN "none" ELSE sched[i]]
    /\ firing' = [firing EXCEPT !.due = ids]
    /\ UNCHANGED <<clients, tiers, buckets, now, pc, frame, barred>>

\* The callback for one id is over.
CallbackDone == [NotFiring EXCEPT !.due = firing.due \ {firing.id}]

\* OnDue: look the client up; an evicted one is dropped from the schedule.
BugOnDueClient(i) ==                \* keeps an unknown id scheduled
    /\ firing.pc = "idle" /\ i \in firing.due
    /\ LET cb == clients[i[1]] IN
       firing' = IF cb = Nil THEN [firing EXCEPT !.pc = "put", !.id = i, !.next = "later"]
                 ELSE [firing EXCEPT !.pc = "refill", !.id = i, !.cb = cb]
    /\ UNCHANGED <<clients, tiers, buckets, sched, now, pc, frame, barred>>
OnDueClient(i) ==
    /\ firing.pc = "idle" /\ i \in firing.due
    /\ LET cb == clients[i[1]] IN
       firing' = IF cb = Nil THEN [firing EXCEPT !.due = @ \ {i}]
                 ELSE [firing EXCEPT !.pc = "refill", !.id = i, !.cb = cb]
    /\ UNCHANGED <<clients, tiers, buckets, sched, now, pc, frame, barred>>

\* OnDue: refill the tier's bucket and answer its next time.
OnDueBucket ==
    /\ firing.pc = "refill"
    /\ LET b == Bucket(firing.cb, firing.id[2]) IN
       firing' = IF b = Nil THEN CallbackDone
                 ELSE [firing EXCEPT !.pc = "put", !.next = NextRefillTime(b)]
    /\ UNCHANGED <<clients, tiers, buckets, sched, now, pc, frame, barred>>

\* processDue reschedules.
Reschedule ==
    /\ firing.pc = "put"
    /\ sched' = [sched EXCEPT ![firing.id] = firing.next]
    /\ firing' = CallbackDone
    /\ UNCHANGED <<clients, tiers, buckets, now, pc, frame, barred>>

ProcessDue == (\E i \in Ids : OnDueClient(i)) \/ OnDueBucket \/ Reschedule

Serve(r) ==
    \/ Lookup(r) \/ Create(r) \/ CheckBlocked(r) \/ EnsureTier(r)
    \/ Configure(r) \/ NextTime(r) \/ Schedule(r)
    \/ Pick(r) \/ TakeBlocked(r) \/ Take(r, TRUE) \/ Take(r, FALSE) \/ Respond(r)

Administer(a) ==
    \/ Lookup(a) \/ Create(a)
    \/ Configure(a) \/ Unschedule(a) \/ NextTime(a) \/ Schedule(a)
    \/ LockTiers(a) \/ Walk(a) \/ WalkDone(a)

Next ==
    \/ \E r \in Requests : Request(r) \/ Serve(r)
    \/ \E a \in Admins : AdminCall(a) \/ Administer(a)
    \/ \E ids \in SUBSET Ids : Fire(ids)
    \/ ProcessDue

Spec == Init /\ [][Next]_vars

\* Goroutines that have begun go on, and every entry comes due in time: it is
\* then in the next batch.
FairSpec ==
    /\ Spec
    /\ \A r \in Requests : WF_vars(Serve(r))
    /\ \A a \in Admins : WF_vars(Administer(a))
    /\ \A i \in Ids : SF_vars(\E ids \in SUBSET Ids : i \in ids /\ Fire(ids))
    /\ WF_vars(ProcessDue)
-----------------------------------------------------------------------------
Objects == Procs \cup {Nil}
BucketRefs == BucketIds \cup {Nil}

TypeOK ==
    /\ clients \in [Keys -> Objects]
    /\ tiers \in [Procs -> [Tiers -> BucketRefs]]
    /\ buckets \in [BucketIds -> [refills : BOOLEAN, blocked : BOOLEAN, used : Nat]]
    /\ sched \in [Ids -> {"none", "zero", "later"}]
    /\ firing \in [due : SUBSET Ids, pc : {"idle", "refill", "put"}, id : Ids \cup {Nil},
                   cb : Objects, next : {"none", "zero", "later"}]
    /\ now \in Nat
    /\ pc \in [Procs -> {"start", "lookup", "create", "isBlocked", "ensureTier",
                         "configure", "unschedule", "nextTime", "schedule",
                         "pick", "take", "granted", "lockTiers", "walk", "done"}]
    /\ barred \in SUBSET Keys
    \* Nil is never dereferenced where the code relies on a pointer.
    /\ \A p \in Procs :
        /\ pc[p] \notin {"start", "lookup", "create", "done"} =>
            frame[p].cb \in Procs /\ Bucket(frame[p].cb, DefaultTier) # Nil
        /\ pc[p] = "take" => frame[p].bkt # Nil

Live == {k \in Keys : clients[k] # Nil}
Idle == (\A p \in Procs : pc[p] \in {"start", "done"}) /\ firing = NotFiring

\* getOrCreateClient, FR10: racing creations at capacity never leave more
\* than MaxClients clients.
Capacity == MaxClients > 0 => Cardinality(Live) <= MaxClients

\* OnDue and the creation, update and eviction paths together: when no
\* operation is in progress every refilling bucket that a registered client
\* can reach has a schedule entry, whatever evictions, replaced buckets and
\* callbacks crossed one another.
Covered ==
    Idle => \A k \in Live : \A t \in Tiered(clients[k]) :
                buckets[Bucket(clients[k], t)].refills => sched[<<k, t>>] # "none"

\* A schedule entry for a client or a tier that no longer exists.
Stale(i) ==
    /\ sched[i] # "none"
    /\ clients[i[1]] = Nil \/ Bucket(clients[i[1]], i[2]) = Nil

\* OnDue: entries left behind by an eviction that raced ensureTier, an update
\* or a callback do not come back to the heap forever; once the operations are
\* over there are none.
StaleDropped == \A i \in Ids : <>[]~Stale(i)

\* Every operation that has begun returns, although Configure waits for the
\* readers of the tier map and both maps change between an operation's steps.
OperationsFinish == \A p \in Procs : pc[p] = "lookup" ~> pc[p] = "done"

\* Block: a request that arrives after Block has returned is not granted
\* until an Unblock, or one of BlockEnds, ends the block, whichever tier it
\* names, even one that ensureTier is still to create, and whichever of the
\* client's buckets requests replace meanwhile.  (No claim is made of a Block
\* that an Unblock overlaps.)
BlockHolds == \A r \in Requests : pc[r] = "granted" => ~frame[r].barred
=============================================================================
