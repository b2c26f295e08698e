------------------------ MODULE ClientRegistryProofs ------------------------
(***************************************************************************)
(* The safety properties of ClientRegistry for any keys, tiers, requests   *)
(* and admin calls: TypeOK, Capacity, BlockHolds and Covered.              *)
(*                                                                         *)
(* Goroutines hold pointers to client objects and buckets that may have    *)
(* been evicted or replaced.  What the proofs rest on is that an object is *)
(* registered for one key only and not twice, and that a bucket is in one  *)
(* place of one object only (Placed).                                      *)
(***************************************************************************)
EXTENDS ClientRegistry, FiniteSetTheorems, TLAPS

Entries == {"none", "zero", "later"}
BucketStates == [refills : BOOLEAN, blocked : BOOLEAN, used : Nat]
Frames ==
    [op : {"none", "allow", "block", "unblock", "update"}, key : Keys \cup {Nil},
     tier : Tiers, refills : BOOLEAN, at : Nat, cb : Objects, bkt : BucketRefs,
     next : Entries, todo : SUBSET BucketIds, barred : BOOLEAN]

\* Before an operation has its client, and before it has replaced a bucket.
Early == {"start", "lookup", "create"}
Unconfigured == Early \cup {"isBlocked", "ensureTier", "configure"}

\* What the label of a goroutine says of its operation.
Local(p) ==
    /\ pc[p] \in {"start", "done"} <=> frame[p].op = "none"
    /\ pc[p] \in {"start", "done"} => frame[p] = NoFrame
    /\ pc[p] \notin {"start", "done"} => frame[p].key \in Keys
    /\ pc[p] \in {"isBlocked", "ensureTier", "pick", "take", "granted"} => frame[p].op = "allow"
    /\ pc[p] = "unschedule" => frame[p].op = "update"
    /\ pc[p] \in {"configure", "nextTime", "schedule"} => frame[p].op \in {"allow", "update"}
    /\ pc[p] \in {"lockTiers", "walk"} => frame[p].op \in {"block", "unblock"}
    /\ pc[p] = "configure" /\ frame[p].op = "allow" => frame[p].tier # DefaultTier
    /\ pc[p] = "schedule" => frame[p].next # "none"

\* What processDue's label says of its callback.
Callback ==
    /\ firing.pc # "idle" => firing.id \in Ids /\ firing.id \in firing.due
    /\ firing.pc = "refill" => firing.cb \in Procs
    /\ firing.pc = "put" => firing.next # "none"

Locals ==
    /\ frame \in [Procs -> Frames]
    /\ \A p \in Procs : Local(p)
    /\ \A r \in Requests : frame[r].op \in {"none", "allow"}
    /\ \A a \in Admins : frame[a].op # "allow"
    /\ \A k \in Keys : clients[k] # Nil => Bucket(clients[k], DefaultTier) # Nil
    /\ Callback

Base == TypeOK /\ Locals

\* An object is registered once at most, for the key of every goroutine that
\* holds it, and nobody knows it before it is created.
ObjectsPlaced ==
    /\ \A p \in Procs : pc[p] \in Early =>
        (\A k \in Keys : clients[k] # p) /\ (\A q \in Procs : frame[q].cb # p)
    /\ \A k, j \in Keys : clients[k] = clients[j] /\ clients[k] # Nil => k = j
    /\ \A k \in Keys, q \in Procs :
        clients[k] = frame[q].cb /\ clients[k] # Nil => frame[q].key = k

\* A bucket is in one tier of one object at most, and in none before it is
\* created; a walk under the read lock goes over the buckets of its object.
BucketsPlaced ==
    /\ \A p, c \in Procs, t \in Tiers :
        /\ pc[p] \in Early => tiers[c][t] # <<p, "default">>
        /\ pc[p] \in Unconfigured => tiers[c][t] # <<p, "tier">>
    /\ \A c, d \in Procs, t, u \in Tiers :
        tiers[c][t] = tiers[d][u] /\ tiers[c][t] # Nil => c = d /\ t = u
    /\ \A p \in Procs : pc[p] = "walk" => frame[p].todo \subseteq BucketsOf(frame[p].cb)

Placed == ObjectsPlaced /\ BucketsPlaced

\* A key under a block has a registered client whose default bucket is blocked,
\* and no Unblock of it is in progress.
BarredBlocked ==
    \A k \in barred :
        /\ clients[k] # Nil /\ ~Unblocking(k)
        /\ buckets[Bucket(clients[k], DefaultTier)].blocked

\* A Block that no Unblock overlaps has blocked the buckets behind it, as long
\* as its client is registered.
WalksBlock ==
    \A p \in Procs : frame[p].op = "block" /\ frame[p].barred =>
        /\ ~Unblocking(frame[p].key)
        /\ pc[p] = "walk" /\ clients[frame[p].key] = frame[p].cb =>
            \A b \in BucketsOf(frame[p].cb) \ frame[p].todo : buckets[b].blocked

\* A request that arrived under a block finds the blocked client.
BarredRequests ==
    \A p \in Procs : frame[p].op = "allow" /\ frame[p].barred =>
        /\ frame[p].key \in barred
        /\ pc[p] \in {"lookup", "isBlocked"}
        /\ pc[p] = "isBlocked" => frame[p].cb = clients[frame[p].key]

Blocks == BarredBlocked /\ WalksBlock /\ BarredRequests

\* An object has no buckets before it is created.
Unfilled == \A p \in Procs, t \in Tiers : pc[p] \in Early => tiers[p][t] = Nil

\* An id has its entry in the heap, or some goroutine is to put it there, or
\* processDue has it and will not drop it.
Scheduling(p) == pc[p] \in {"unschedule", "nextTime", "schedule"}
InBatch(i) ==
    /\ i \in firing.due
    /\ firing.pc = "refill" /\ firing.id = i => Bucket(firing.cb, i[2]) # Nil
IdCovered(i) ==
    \/ sched[i] # "none"
    \/ \E p \in Procs : Scheduling(p) /\ Id(p) = i
    \/ InBatch(i)
AllCovered ==
    /\ \A p \in Procs : frame[p].op = "update" => frame[p].refills
    /\ \A k \in Keys : clients[k] # Nil => \A t \in Tiered(clients[k]) :
            buckets[Bucket(clients[k], t)].refills => IdCovered(<<k, t>>)
-----------------------------------------------------------------------------
(* Types.                                                                  *)

\* Released only clears the flags of blocks.
LEMMA ReleasedTypes ==
    ASSUME NEW f \in [Procs -> Frames], NEW keys, NEW ops
    PROVE  /\ Released(f, keys, ops) \in [Procs -> Frames]
           /\ \A q \in Procs :
                LET g == Released(f, keys, ops)[q] IN
                /\ g.op = f[q].op /\ g.key = f[q].key /\ g.tier = f[q].tier
                /\ g.refills = f[q].refills /\ g.at = f[q].at /\ g.cb = f[q].cb
                /\ g.bkt = f[q].bkt /\ g.next = f[q].next /\ g.todo = f[q].todo
                /\ g.barred = (f[q].barred /\ ~(f[q].key \in keys /\ f[q].op \in ops))
                /\ f[q].op \notin ops => g = f[q]
BY DEF Released, Frames

\* The frame of a goroutine that has not begun, or is done.
LEMMA NoFrameType == NoFrame \in Frames
BY TierAssumption DEF NoFrame, Frames, Objects, BucketRefs, Entries

Labels == {"start", "lookup", "create", "isBlocked", "ensureTier", "configure",
           "unschedule", "nextTime", "schedule", "pick", "take", "granted",
           "lockTiers", "walk", "done"}

\* A goroutine's locals are the same except for the flags of blocks.
Kept(q) ==
    /\ frame'[q].op = frame[q].op /\ frame'[q].key = frame[q].key
    /\ frame'[q].tier = frame[q].tier /\ frame'[q].refills = frame[q].refills
    /\ frame'[q].at = frame[q].at /\ frame'[q].cb = frame[q].cb
    /\ frame'[q].bkt = frame[q].bkt /\ frame'[q].next = frame[q].next
    /\ frame'[q].todo = frame[q].todo
    /\ frame[q].op = "none" => frame'[q] = frame[q]

\* Where a goroutine has its client, and its bucket.
Held(p) ==
    /\ pc[p] \notin Early \cup {"done"} =>
        frame[p].cb \in Procs /\ Bucket(frame[p].cb, DefaultTier) # Nil
    /\ pc[p] = "take" => frame[p].bkt # Nil

\* A step of goroutine p, as far as types and locals go.
LEMMA StepBase ==
    ASSUME Base, NEW p \in Procs, NEW l \in Labels, pc' = [pc EXCEPT ![p] = l],
           frame' \in [Procs -> Frames],
           \A q \in Procs \ {p} : Kept(q),
           Local(p)', Held(p)',
           p \in Requests => frame'[p].op \in {"none", "allow"},
           p \in Admins => frame'[p].op # "allow",
           clients' \in [Keys -> Objects],
           tiers' \in [Procs -> [Tiers -> BucketRefs]],
           \A c \in Procs : tiers[c][DefaultTier] # Nil => tiers'[c][DefaultTier] # Nil,
           \A k \in Keys : clients'[k] # Nil =>
                clients'[k] = clients[k] \/ tiers'[clients'[k]][DefaultTier] # Nil,
           buckets' \in [BucketIds -> BucketStates],
           sched' \in [Ids -> Entries], now' \in Nat, barred' \in SUBSET Keys,
           UNCHANGED firing
    PROVE  Base'
<1>1. pc' \in [Procs -> Labels] /\ pc'[p] = l /\ \A q \in Procs \ {p} : pc'[q] = pc[q]
  BY DEF Base, TypeOK, Labels
<1>2. \A q \in Procs \ {p} : Local(q)'
  BY <1>1 DEF Kept, Local, Base, Locals
<1>3. \A q \in Procs \ {p} : Held(q)'
  <2> SUFFICES ASSUME NEW q \in Procs \ {p} PROVE Held(q)'
    OBVIOUS
  <2>1. Held(q)
    BY DEF Base, TypeOK, Held, Early
  <2>2. Kept(q) /\ pc'[q] = pc[q]
    BY <1>1
  <2>3. frame'[q].cb = frame[q].cb /\ frame'[q].bkt = frame[q].bkt
    BY <2>2 DEF Kept
  <2>4. QED
    BY <2>1, <2>2, <2>3 DEF Held, Bucket
<1>4. (\A k \in Keys : clients[k] # Nil => Bucket(clients[k], DefaultTier) # Nil)'
  <2> SUFFICES ASSUME NEW k \in Keys, clients'[k] # Nil
               PROVE  tiers'[clients'[k]][DefaultTier] # Nil
    BY DEF Bucket
  <2>1. clients'[k] \in Procs
    BY DEF Objects
  <2>2. clients[k] # Nil => tiers[clients[k]][DefaultTier] # Nil
    BY DEF Base, Locals, Bucket
  <2>3. QED
    BY <2>1, <2>2
<1>5. TypeOK'
  BY <1>1, <1>3 DEF Base, TypeOK, Held, Labels, Early, Entries, BucketStates
<1>6. /\ \A r \in Requests : frame'[r].op \in {"none", "allow"}
      /\ \A b \in Admins : frame'[b].op # "allow"
  BY DEF Kept, Base, Locals, Procs
<1>7. Callback'
  BY DEF Base, Locals, Callback
<1>8. Locals'
  BY <1>2, <1>4, <1>6, <1>7 DEF Locals
<1>9. QED
  BY <1>5, <1>8 DEF Base

\* The same for a step that leaves the maps alone.
LEMMA OwnStepBase ==
    ASSUME Base, NEW p \in Procs, NEW l \in Labels, pc' = [pc EXCEPT ![p] = l],
           frame' \in [Procs -> Frames],
           \A q \in Procs \ {p} : frame'[q] = frame[q],
           Local(p)', Held(p)',
           frame'[p].op \in {"none", frame[p].op},
           buckets' = buckets \/ buckets' \in [BucketIds -> BucketStates],
           sched' = sched \/ sched' \in [Ids -> Entries],
           barred' = barred \/ barred' \in SUBSET Keys,
           UNCHANGED <<clients, tiers, firing, now>>
    PROVE  Base'
<1>1. \A q \in Procs \ {p} : Kept(q)
  BY DEF Kept
<1>2. /\ p \in Requests => frame'[p].op \in {"none", "allow"}
      /\ p \in Admins => frame'[p].op # "allow"
  BY DEF Base, Locals
<1>3. /\ clients' \in [Keys -> Objects]
      /\ tiers' \in [Procs -> [Tiers -> BucketRefs]]
      /\ buckets' \in [BucketIds -> BucketStates]
      /\ sched' \in [Ids -> Entries] /\ now' \in Nat /\ barred' \in SUBSET Keys
  BY DEF Base, TypeOK, Entries, BucketStates
<1>4. QED
  BY <1>1, <1>2, <1>3, StepBase

\* The operation returns.
LEMMA FinishBase ==
    ASSUME Base, NEW p \in Procs, Finish(p),
           buckets' = buckets \/ buckets' \in [BucketIds -> BucketStates],
           sched' = sched \/ sched' \in [Ids -> Entries],
           barred' = barred \/ barred' \in SUBSET Keys,
           UNCHANGED <<clients, tiers, firing, now>>
    PROVE  Base'
<1>1. /\ pc' = [pc EXCEPT ![p] = "done"] /\ pc'[p] = "done"
      /\ frame' = [frame EXCEPT ![p] = NoFrame] /\ frame'[p] = NoFrame
  BY DEF Finish, Goto, Base, TypeOK, Locals
<1>2. frame' \in [Procs -> Frames]
  BY <1>1, NoFrameType DEF Base, Locals
<1>3. Local(p)' /\ Held(p)'
  BY <1>1 DEF Local, Held, NoFrame, Early
<1>4. frame'[p].op = "none" /\ \A q \in Procs \ {p} : frame'[q] = frame[q]
  BY <1>1, <1>2 DEF NoFrame, Base, Locals
<1>5. QED
  BY <1>1, <1>2, <1>3, <1>4, OwnStepBase DEF Labels

\* The operation goes on.
LEMMA GotoBase ==
    ASSUME Base, NEW p \in Procs, NEW l \in Labels, Goto(p, l), UNCHANGED frame,
           pc[p] \notin {"start", "done"}, l \notin {"start", "done"},
           l \in {"isBlocked", "ensureTier", "pick", "take", "granted"} => frame[p].op = "allow",
           l \in {"configure", "nextTime"} => frame[p].op \in {"allow", "update"},
           l \notin {"unschedule", "schedule", "lockTiers", "walk"},
           l = "configure" /\ frame[p].op = "allow" => frame[p].tier # DefaultTier,
           l \in Early \/ pc[p] \notin Early,
           l = "take" => frame[p].bkt # Nil,
           buckets' = buckets \/ buckets' \in [BucketIds -> BucketStates],
           sched' = sched \/ sched' \in [Ids -> Entries],
           UNCHANGED <<clients, tiers, firing, now, barred>>
    PROVE  Base'
<1>1. pc' = [pc EXCEPT ![p] = l] /\ pc'[p] = l /\ frame' = frame
  BY DEF Goto, Base, TypeOK
<1>2. frame' \in [Procs -> Frames]
  BY <1>1 DEF Base, Locals
<1>3. Local(p)'
  BY <1>1 DEF Local, Base, Locals, Early
<1>4. Held(p)'
  <2>1. pc[p] \notin Early => frame[p].cb \in Procs /\ Bucket(frame[p].cb, DefaultTier) # Nil
    BY DEF Base, TypeOK, Early
  <2>2. QED
    BY <1>1, <2>1 DEF Held, Bucket
<1>5. QED
  BY <1>1, <1>2, <1>3, <1>4, OwnStepBase

\* What the beginning of an operation does.
LEMMA BeginSteps ==
    ASSUME Base, NEW p \in Procs, NEW op \in {"allow", "block", "unblock", "update"},
           NEW k \in Keys, NEW t \in Tiers, NEW f, f \in BOOLEAN, Begin(p, op, k, t, f)
    PROVE  /\ pc[p] = "start" /\ pc' = [pc EXCEPT ![p] = "lookup"] /\ pc'[p] = "lookup"
           /\ frame' \in [Procs -> Frames]
           /\ frame'[p].op = op /\ frame'[p].key = k /\ frame'[p].cb = Nil
           /\ f => frame'[p].refills
           /\ frame'[p].barred => \/ op = "allow" /\ k \in barred
                                  \/ op = "block" /\ ~Unblocking(k)
           /\ \A q \in Procs \ {p} :
                /\ Kept(q)
                /\ frame'[q].barred => frame[q].barred /\ ~(op = "unblock" /\ frame[q].key = k
                                                        /\ frame[q].op \in {"allow", "block"})
           /\ barred' = {j \in barred : ~(op = "unblock" /\ j = k)}
           /\ now' \in Nat /\ UNCHANGED <<clients, tiers, buckets, sched, firing>>
<1> DEFINE ended == IF op = "unblock" THEN {k} ELSE {}
           bar == \/ op = "allow" /\ k \in barred
                  \/ op = "block" /\ ~Unblocking(k)
           g == [NoFrame EXCEPT !.op = op, !.key = k, !.tier = t, !.at = now', !.refills = f,
                                !.barred = bar]
           old == Released(frame, ended, {"allow", "block"})
<1>1. /\ pc' = [pc EXCEPT ![p] = "lookup"] /\ frame' = [old EXCEPT ![p] = g]
      /\ pc[p] = "start" /\ barred' = barred \ ended
      /\ UNCHANGED <<clients, tiers, buckets, sched, firing>>
  BY DEF Begin, Goto
<1>2. now' \in Nat
  BY SizeAssumption DEF Begin, Base, TypeOK
<1>3. bar \in BOOLEAN
  BY Zenon
<1> HIDE DEF bar
<1>4. g \in Frames /\ g.op = op /\ g.key = k /\ g.cb = Nil /\ g.refills = f /\ g.barred = bar
  BY <1>2, <1>3, NoFrameType DEF Frames, NoFrame
<1>5. old \in [Procs -> Frames]
  BY ReleasedTypes DEF Base, Locals
<1> HIDE DEF g
<1>6. frame' \in [Procs -> Frames] /\ frame'[p] = g /\ \A q \in Procs \ {p} : frame'[q] = old[q]
  BY <1>1, <1>4, <1>5
<1>7. \A q \in Procs \ {p} : Kept(q)
  <2>1. \A q \in Procs : old[q].op = frame[q].op /\ (frame[q].op \notin {"allow", "block"} => old[q] = frame[q])
    BY ReleasedTypes DEF Base, Locals
  <2>2. QED
    BY <1>6, <2>1, ReleasedTypes DEF Kept, Base, Locals
<1>8. \A q \in Procs \ {p} : frame'[q].barred =
                    (frame[q].barred /\ ~(op = "unblock" /\ frame[q].key = k
                                          /\ frame[q].op \in {"allow", "block"}))
  <2>1. \A q \in Procs : old[q].barred =
            (frame[q].barred /\ ~(frame[q].key \in ended /\ frame[q].op \in {"allow", "block"}))
    BY ReleasedTypes DEF Base, Locals
  <2>2. QED
    BY <1>6, <2>1
<1>9. pc'[p] = "lookup"
  BY <1>1 DEF Base, TypeOK
<1>10. barred' = {j \in barred : ~(op = "unblock" /\ j = k)}
  BY <1>1
<1>11. /\ frame'[p].op = op /\ frame'[p].key = k /\ frame'[p].cb = Nil
       /\ frame'[p].refills = f /\ frame'[p].barred = bar
  BY <1>4, <1>6
<1>12. QED
  BY <1>1, <1>2, <1>6, <1>7, <1>8, <1>9, <1>10, <1>11 DEF bar

\* The beginning of an operation keeps the types.
LEMMA BeginBase ==
    ASSUME Base, NEW p \in Procs, NEW op \in {"allow", "block", "unblock", "update"},
           NEW k \in Keys, NEW t \in Tiers, NEW f, f \in BOOLEAN, Begin(p, op, k, t, f),
           p \in Requests => op = "allow", p \in Admins => op # "allow"
    PROVE  Base'
<1>1. /\ pc' = [pc EXCEPT ![p] = "lookup"] /\ pc'[p] = "lookup"
      /\ frame' \in [Procs -> Frames] /\ frame'[p].op = op /\ frame'[p].key = k
      /\ \A q \in Procs \ {p} : Kept(q)
      /\ now' \in Nat /\ UNCHANGED <<clients, tiers, buckets, sched, firing>>
  BY BeginSteps
<1>2. barred' = {j \in barred : ~(op = "unblock" /\ j = k)}
  BY BeginSteps
<1>3. Local(p)' /\ Held(p)'
  BY <1>1 DEF Local, Held, Early
<1>4. /\ clients' \in [Keys -> Objects]
      /\ tiers' \in [Procs -> [Tiers -> BucketRefs]]
      /\ buckets' \in [BucketIds -> BucketStates]
      /\ sched' \in [Ids -> Entries] /\ barred' \in SUBSET Keys
  BY <1>1, <1>2 DEF Base, TypeOK, BucketStates, Entries
<1>5. QED
  BY <1>1, <1>3, <1>4, StepBase DEF Labels

\* What a request or an admin call begins.
LEMMA Beginnings ==
    /\ \A r \in Requests : Request(r) =>
        \E k \in Keys, t \in Tiers, f \in BOOLEAN : Begin(r, "allow", k, t, f)
    /\ \A a \in Admins : AdminCall(a) =>
        \E op \in {"block", "unblock", "update"}, k \in Keys, t \in Tiers, f \in {TRUE} \cup NewRefills :
            Begin(a, op, k, t, f)
<1>1. ASSUME NEW r \in Requests, Request(r)
      PROVE  \E k \in Keys, t \in Tiers, f \in BOOLEAN : Begin(r, "allow", k, t, f)
  <2>1. PICK k \in Keys, t \in Tiers : Begin(r, "allow", k, t, t \in Refilling)
    BY <1>1 DEF Request
  <2> DEFINE x == t \in Refilling
  <2>2. x \in BOOLEAN
    BY SMT
  <2>3. Begin(r, "allow", k, t, x)
    BY <2>1, Zenon
  <2> HIDE DEF x
  <2>4. QED
    BY <2>2, <2>3
<1>2. QED
  BY <1>1, TierAssumption, OpsAssumption DEF AdminCall

\* Requests arrive and admin calls are made.
LEMMA ArriveBase ==
    ASSUME Base,
           (\E r \in Requests : Request(r)) \/ (\E a \in Admins : AdminCall(a))
    PROVE  Base'
<1>1. ASSUME NEW r \in Requests, Request(r) PROVE Base'
  BY <1>1, Beginnings, BeginBase, NamesAssumption DEF Procs
<1>2. ASSUME NEW a \in Admins, AdminCall(a) PROVE Base'
  <2>1. PICK op \in {"block", "unblock", "update"}, k \in Keys, t \in Tiers,
             f \in {TRUE} \cup NewRefills : Begin(a, op, k, t, f)
    BY <1>2, Beginnings
  <2>2. f \in BOOLEAN
    BY OpsAssumption
  <2>3. QED
    BY <2>1, <2>2, BeginBase, NamesAssumption DEF Procs
<1>3. QED
  BY <1>1, <1>2

\* Where an operation goes with its client.
LEMMA EnteredSteps ==
    ASSUME Base, NEW p \in Procs, NEW f \in [Procs -> Frames], NEW cb \in Procs,
           pc[p] \in {"lookup", "create"}, f[p].op = frame[p].op, f[p].key = frame[p].key,
           Entered(p, f, cb), tiers'[cb][DefaultTier] # Nil
    PROVE  /\ frame' = [f EXCEPT ![p].cb = cb] /\ frame' \in [Procs -> Frames]
           /\ frame'[p] = [f[p] EXCEPT !.cb = cb]
           /\ \A q \in Procs \ {p} : frame'[q] = f[q]
           /\ Local(p)' /\ Held(p)'
           /\ \E l \in {"isBlocked", "configure", "lockTiers"} :
                /\ pc' = [pc EXCEPT ![p] = l] /\ pc'[p] = l
                /\ l = "isBlocked" <=> frame[p].op = "allow"
                /\ l = "configure" <=> frame[p].op = "update"
                /\ l = "lockTiers" <=> frame[p].op \in {"block", "unblock"}
<1>1. frame' = [f EXCEPT ![p].cb = cb]
  BY DEF Entered
<1>2. /\ frame' \in [Procs -> Frames] /\ frame'[p] = [f[p] EXCEPT !.cb = cb]
      /\ \A q \in Procs \ {p} : frame'[q] = f[q]
  BY <1>1 DEF Frames, Objects
<1>3. frame[p].op \in {"allow", "block", "unblock", "update"} /\ frame[p].key \in Keys
  BY DEF Base, Locals, Local, Frames
<1>4. PICK l \in {"isBlocked", "configure", "lockTiers"} :
        /\ pc' = [pc EXCEPT ![p] = l]
        /\ l = "isBlocked" <=> frame[p].op = "allow"
        /\ l = "configure" <=> frame[p].op = "update"
        /\ l = "lockTiers" <=> frame[p].op \in {"block", "unblock"}
  BY <1>3 DEF Entered, Goto
<1>5. pc'[p] = l
  BY <1>4 DEF Base, TypeOK
<1>6. frame'[p].op = frame[p].op /\ frame'[p].key = frame[p].key /\ frame'[p].cb = cb
  BY <1>2 DEF Frames
<1>7. Local(p)'
  BY <1>3, <1>4, <1>5, <1>6 DEF Local
<1>8. Held(p)'
  BY <1>4, <1>5, <1>6 DEF Held, Bucket
<1>9. QED
  BY <1>1, <1>2, <1>4, <1>5, <1>7, <1>8

\* What a creation under the write lock does; the victim v may be Nil.
Created(p, v) ==
    LET key == frame[p].key
        ended == IF "evict" \in BlockEnds THEN {v} ELSE {}
    IN  /\ pc[p] = "create" /\ clients[key] = Nil
        /\ tiers' = [tiers EXCEPT ![p][DefaultTier] = <<p, "default">>]
        /\ buckets' = [buckets EXCEPT ![<<p, "default">>] = Fresh(DefaultTier \in Refilling, frame[p].at)]
        /\ clients' = [k \in Keys |-> IF k = key THEN p
                                      ELSE IF k = v THEN Nil ELSE clients[k]]
        /\ sched' = [i \in Ids |->
             IF i = <<key, DefaultTier>> /\ DefaultTier \in Refilling THEN "later"
             ELSE IF i[1] = v /\ i[2] \in Tiered(clients[v]) THEN "none"
             ELSE sched[i]]
        /\ barred' = barred \ ended
        /\ Entered(p, Released(frame, ended, {"allow"}), p)
        /\ UNCHANGED <<firing, now>>

\* The goroutine has a client that exists already: nothing but its own locals
\* changes.
Enters(p) ==
    /\ pc[p] \in {"lookup", "create"} /\ clients[frame[p].key] # Nil
    /\ Entered(p, frame, clients[frame[p].key])
    /\ UNCHANGED <<clients, tiers, buckets, sched, barred, firing, now>>

\* getOrCreateClient under the write lock finds the client, or creates it.
LEMMA CreateCases ==
    ASSUME NEW p \in Procs, Create(p)
    PROVE  Enters(p) \/ \E v \in Victims : Created(p, v)
BY DEF Create, Created, Enters

\* The locals of a goroutine that finds its client.
LEMMA EntersSteps ==
    ASSUME Base, NEW p \in Procs, Enters(p)
    PROVE  /\ clients[frame[p].key] \in Procs /\ frame[p].key \in Keys
           /\ frame' \in [Procs -> Frames]
           /\ frame'[p] = [frame[p] EXCEPT !.cb = clients[frame[p].key]]
           /\ frame'[p].op = frame[p].op
           /\ \A q \in Procs \ {p} : frame'[q] = frame[q]
           /\ Local(p)' /\ Held(p)'
           /\ \E l \in {"isBlocked", "configure", "lockTiers"} :
                /\ pc' = [pc EXCEPT ![p] = l] /\ pc'[p] = l
                /\ l = "isBlocked" <=> frame[p].op = "allow"
<1> DEFINE cb == clients[frame[p].key]
<1>1. pc[p] \in {"lookup", "create"} /\ frame[p].key \in Keys
  BY DEF Enters, Base, Locals, Local
<1>2. Entered(p, frame, cb)
  BY DEF Enters
<1>3. cb \in Procs /\ tiers'[cb][DefaultTier] # Nil
  BY <1>1 DEF Enters, Base, TypeOK, Locals, Objects, Bucket
<1>4. frame \in [Procs -> Frames]
  BY DEF Base, Locals
<1> HIDE DEF cb
<1>5. /\ frame' \in [Procs -> Frames] /\ frame'[p] = [frame[p] EXCEPT !.cb = cb]
      /\ \A q \in Procs \ {p} : frame'[q] = frame[q]
      /\ Local(p)' /\ Held(p)'
      /\ \E l \in {"isBlocked", "configure", "lockTiers"} :
            /\ pc' = [pc EXCEPT ![p] = l] /\ pc'[p] = l
            /\ l = "isBlocked" <=> frame[p].op = "allow"
  BY <1>1, <1>2, <1>3, <1>4, EnteredSteps
<1>6. frame'[p].op = frame[p].op
  BY <1>4, <1>5 DEF Frames
<1>7. QED
  BY <1>1, <1>3, <1>5, <1>6 DEF cb

\* Finding a client keeps the types.
LEMMA EntersBase ==
    ASSUME Base, NEW p \in Procs, Enters(p)
    PROVE  Base'
BY EntersSteps, OwnStepBase DEF Enters, Labels

\* getOrCreateClient's fast path.
LEMMA LookupBase ==
    ASSUME Base, NEW p \in Procs, Lookup(p)
    PROVE  Base'
<1>1. pc[p] = "lookup" /\ frame[p].op # "none"
  BY DEF Lookup, Base, Locals, Local
<1>2. CASE clients[frame[p].key] # Nil
  BY <1>2, EntersBase DEF Lookup, Enters
<1>3. CASE clients[frame[p].key] = Nil /\ frame[p].op = "unblock"
  BY <1>3, FinishBase DEF Lookup
<1>4. CASE clients[frame[p].key] = Nil /\ frame[p].op # "unblock"
  BY <1>1, <1>4, GotoBase DEF Lookup, Labels, Early
<1>5. QED
  BY <1>2, <1>3, <1>4

\* The creator's locals, and everybody else's.
LEMMA CreatedSteps ==
    ASSUME Base, NEW p \in Procs, NEW v, Created(p, v)
    PROVE  /\ frame' \in [Procs -> Frames]
           /\ frame'[p].op = frame[p].op /\ frame'[p].key = frame[p].key /\ frame'[p].cb = p
           /\ frame[p].key \in Keys
           /\ \A q \in Procs \ {p} :
                Kept(q) /\ frame'[q].barred =
                    (frame[q].barred /\ ~("evict" \in BlockEnds /\ frame[q].key = v
                                          /\ frame[q].op = "allow"))
           /\ frame'[p].barred =
                    (frame[p].barred /\ ~("evict" \in BlockEnds /\ frame[p].key = v
                                          /\ frame[p].op = "allow"))
           /\ tiers' \in [Procs -> [Tiers -> BucketRefs]]
           /\ tiers'[p][DefaultTier] = <<p, "default">>
           /\ \A c \in Procs, t \in Tiers : (c = p /\ t = DefaultTier) \/ tiers'[c][t] = tiers[c][t]
           /\ Local(p)' /\ Held(p)'
           /\ \E l \in {"isBlocked", "configure", "lockTiers"} :
                /\ pc' = [pc EXCEPT ![p] = l] /\ pc'[p] = l
                /\ l = "isBlocked" <=> frame[p].op = "allow"
<1> DEFINE ended == IF "evict" \in BlockEnds THEN {v} ELSE {}
           f == Released(frame, ended, {"allow"})
<1>1. /\ pc[p] = "create" /\ Entered(p, f, p)
      /\ tiers' = [tiers EXCEPT ![p][DefaultTier] = <<p, "default">>]
  BY DEF Created
<1>2. frame[p].key \in Keys
  BY <1>1 DEF Base, Locals, Local
<1>3. f \in [Procs -> Frames] /\
      \A q \in Procs :
        /\ f[q].op = frame[q].op /\ f[q].key = frame[q].key /\ f[q].tier = frame[q].tier
        /\ f[q].refills = frame[q].refills /\ f[q].at = frame[q].at /\ f[q].cb = frame[q].cb
        /\ f[q].bkt = frame[q].bkt /\ f[q].next = frame[q].next /\ f[q].todo = frame[q].todo
        /\ f[q].barred = (frame[q].barred /\ ~(frame[q].key \in ended /\ frame[q].op \in {"allow"}))
        /\ frame[q].op \notin {"allow"} => f[q] = frame[q]
  BY ReleasedTypes DEF Base, Locals
<1> HIDE DEF f
<1>4. /\ tiers' \in [Procs -> [Tiers -> BucketRefs]]
      /\ tiers'[p][DefaultTier] = <<p, "default">>
      /\ \A c \in Procs, t \in Tiers : (c = p /\ t = DefaultTier) \/ tiers'[c][t] = tiers[c][t]
  BY <1>1, TierAssumption DEF Base, TypeOK, BucketRefs, BucketIds
<1>5. <<p, "default">> # Nil
  BY NamesAssumption DEF BucketIds
<1>6. /\ frame' \in [Procs -> Frames] /\ frame'[p] = [f[p] EXCEPT !.cb = p]
      /\ \A q \in Procs \ {p} : frame'[q] = f[q]
      /\ Local(p)' /\ Held(p)'
      /\ \E l \in {"isBlocked", "configure", "lockTiers"} :
            /\ pc' = [pc EXCEPT ![p] = l] /\ pc'[p] = l
            /\ l = "isBlocked" <=> frame[p].op = "allow"
  BY <1>1, <1>3, <1>4, <1>5, EnteredSteps
<1>7. \A q \in Procs \ {p} : Kept(q)
  BY <1>3, <1>6 DEF Kept
<1>8. \A q \in Procs : f[q].barred =
                (frame[q].barred /\ ~("evict" \in BlockEnds /\ frame[q].key = v
                                      /\ frame[q].op = "allow"))
  BY <1>3
<1>9. /\ frame'[p].op = frame[p].op /\ frame'[p].key = frame[p].key /\ frame'[p].cb = p
      /\ frame'[p].barred = f[p].barred
  BY <1>3, <1>6 DEF Frames
<1>10. QED
  BY <1>2, <1>4, <1>6, <1>7, <1>8, <1>9

\* A creation keeps the types.
LEMMA CreateBase ==
    ASSUME Base, NEW p \in Procs, Create(p)
    PROVE  Base'
<1>1. ASSUME NEW v \in Victims, Created(p, v) PROVE Base'
  <2>1. frame[p].at \in Nat
    BY DEF Base, Locals, Frames
  <2>2. buckets' \in [BucketIds -> BucketStates]
    <3> DEFINE x == DefaultTier \in Refilling
    <3>1. x \in BOOLEAN
      BY SMT
    <3>2. buckets' = [buckets EXCEPT ![<<p, "default">>] = Fresh(x, frame[p].at)]
      BY <1>1, Zenon DEF Created
    <3> HIDE DEF x
    <3>3. QED
      BY <2>1, <3>1, <3>2 DEF Base, TypeOK, BucketStates, Fresh
  <2>3. sched' \in [Ids -> Entries]
    BY <1>1 DEF Created, Base, TypeOK, Entries
  <2>4. clients' \in [Keys -> Objects] /\ barred' \in SUBSET Keys /\ now' \in Nat /\ UNCHANGED firing
    BY <1>1 DEF Created, Base, TypeOK, Objects
  <2>5. tiers'[p][DefaultTier] # Nil
    <3>1. tiers'[p][DefaultTier] = <<p, "default">>
      BY <1>1, CreatedSteps
    <3>2. <<p, "default">> # Nil
      BY NamesAssumption DEF BucketIds
    <3>3. QED
      BY <3>1, <3>2
  <2>6. \A k \in Keys : clients'[k] # Nil =>
                clients'[k] = clients[k] \/ tiers'[clients'[k]][DefaultTier] # Nil
    BY <1>1, <2>5 DEF Created
  <2>7. \A c \in Procs : tiers[c][DefaultTier] # Nil => tiers'[c][DefaultTier] # Nil
    BY <1>1, <2>5, CreatedSteps, TierAssumption
  <2>8. /\ p \in Requests => frame'[p].op \in {"none", "allow"}
        /\ p \in Admins => frame'[p].op # "allow"
    BY <1>1, CreatedSteps DEF Base, Locals
  <2>9. /\ frame' \in [Procs -> Frames] /\ tiers' \in [Procs -> [Tiers -> BucketRefs]]
        /\ \A q \in Procs \ {p} : Kept(q)
        /\ Local(p)' /\ Held(p)'
        /\ \E l \in Labels : pc' = [pc EXCEPT ![p] = l]
    BY <1>1, CreatedSteps DEF Labels
  <2>10. QED
    BY <2>2, <2>3, <2>4, <2>6, <2>7, <2>8, <2>9, StepBase
<1>2. QED
  BY <1>1, CreateCases, EntersBase

\* What a Configure does.
LEMMA ConfigureSteps ==
    ASSUME Base, NEW p \in Procs, Configure(p)
    PROVE  /\ pc[p] = "configure" /\ frame[p].cb \in Procs /\ frame[p].key \in Keys
           /\ ~Walking(frame[p].cb)
           /\ frame[p].op \in {"allow", "update"}
           /\ buckets' \in [BucketIds -> BucketStates]
           /\ buckets'[<<p, "tier">>].refills = frame[p].refills
           /\ \A b \in BucketIds : b # <<p, "tier">> => buckets'[b] = buckets[b]
           /\ tiers' \in [Procs -> [Tiers -> BucketRefs]]
           /\ tiers'[frame[p].cb][frame[p].tier] = <<p, "tier">> /\ <<p, "tier">> # Nil
           /\ \A c \in Procs, t \in Tiers :
                (c = frame[p].cb /\ t = frame[p].tier) \/ tiers'[c][t] = tiers[c][t]
           /\ frame' \in [Procs -> Frames] /\ \A q \in Procs : Kept(q)
           /\ \A q \in Procs : frame'[q].barred =
                (frame[q].barred /\ ~(frame[p].op = "update" /\ "update" \in BlockEnds
                                      /\ frame[q].key = frame[p].key /\ frame[q].op = "allow"))
           /\ barred' = {k \in barred : ~(frame[p].op = "update" /\ "update" \in BlockEnds
                                          /\ k = frame[p].key)}
           /\ \E l \in {"unschedule", "nextTime", "pick"} :
                /\ pc' = [pc EXCEPT ![p] = l] /\ pc'[p] = l
                /\ l = "unschedule" <=> frame[p].op = "update"
                /\ l = "pick" => ~frame[p].refills
           /\ UNCHANGED <<clients, sched, firing, now>>
<1> DEFINE ended == IF frame[p].op = "update" /\ "update" \in BlockEnds
                    THEN {frame[p].key} ELSE {}
<1>1. /\ pc[p] = "configure" /\ ~Walking(frame[p].cb)
      /\ buckets' = [buckets EXCEPT ![<<p, "tier">>] = Fresh(frame[p].refills, frame[p].at)]
      /\ tiers' = [tiers EXCEPT ![frame[p].cb][frame[p].tier] = <<p, "tier">>]
      /\ barred' = barred \ ended /\ frame' = Released(frame, ended, {"allow"})
      /\ Goto(p, CASE frame[p].op = "update" -> "unschedule"
                   [] frame[p].op = "allow" -> IF frame[p].refills THEN "nextTime" ELSE "pick")
      /\ UNCHANGED <<clients, sched, firing, now>>
  BY DEF Configure
<1>2. /\ frame[p].cb \in Procs /\ frame[p].key \in Keys /\ frame[p].op \in {"allow", "update"}
      /\ frame[p].refills \in BOOLEAN /\ frame[p].at \in Nat /\ frame[p].tier \in Tiers
  BY <1>1 DEF Base, TypeOK, Locals, Local, Frames
<1>3. /\ buckets' \in [BucketIds -> BucketStates]
      /\ buckets'[<<p, "tier">>].refills = frame[p].refills
      /\ \A b \in BucketIds : b # <<p, "tier">> => buckets'[b] = buckets[b]
  BY <1>1, <1>2 DEF Base, TypeOK, BucketStates, BucketIds, Fresh
<1>4. /\ tiers' \in [Procs -> [Tiers -> BucketRefs]]
      /\ tiers'[frame[p].cb][frame[p].tier] = <<p, "tier">>
      /\ \A c \in Procs, t \in Tiers :
            (c = frame[p].cb /\ t = frame[p].tier) \/ tiers'[c][t] = tiers[c][t]
  BY <1>1, <1>2 DEF Base, TypeOK, BucketRefs, BucketIds
<1>5. <<p, "tier">> # Nil
  BY NamesAssumption DEF BucketIds
<1>6. frame' \in [Procs -> Frames] /\ \A q \in Procs : Kept(q)
  BY <1>1, ReleasedTypes DEF Base, Locals, Kept
<1>7. \A q \in Procs : frame'[q].barred =
                (frame[q].barred /\ ~(frame[p].op = "update" /\ "update" \in BlockEnds
                                      /\ frame[q].key = frame[p].key /\ frame[q].op = "allow"))
  <2>1. \A q \in Procs : frame'[q].barred =
            (frame[q].barred /\ ~(frame[q].key \in ended /\ frame[q].op \in {"allow"}))
    BY <1>1, ReleasedTypes DEF Base, Locals
  <2>2. QED
    BY <2>1
<1>8. barred' = {k \in barred : ~(frame[p].op = "update" /\ "update" \in BlockEnds
                                  /\ k = frame[p].key)}
  BY <1>1
<1>9. \E l \in {"unschedule", "nextTime", "pick"} :
        /\ pc' = [pc EXCEPT ![p] = l] /\ pc'[p] = l
        /\ l = "unschedule" <=> frame[p].op = "update"
        /\ l = "pick" => ~frame[p].refills
  BY <1>1, <1>2 DEF Goto, Base, TypeOK
<1>10. QED
  BY <1>1, <1>2, <1>3, <1>4, <1>5, <1>6, <1>7, <1>8, <1>9

\* A Configure keeps the types.
LEMMA ConfigureBase ==
    ASSUME Base, NEW p \in Procs, Configure(p)
    PROVE  Base'
<1>1. /\ pc[p] = "configure" /\ frame[p].cb \in Procs /\ frame[p].key \in Keys
      /\ frame[p].op \in {"allow", "update"}
      /\ \A q \in Procs : Kept(q)
      /\ frame' \in [Procs -> Frames]
      /\ UNCHANGED <<clients, sched, firing, now>>
      /\ buckets' \in [BucketIds -> BucketStates]
  BY ConfigureSteps
<1>2. PICK l \in {"unschedule", "nextTime", "pick"} :
        /\ pc' = [pc EXCEPT ![p] = l] /\ pc'[p] = l
        /\ l = "unschedule" <=> frame[p].op = "update"
  BY ConfigureSteps
<1>3. /\ tiers' \in [Procs -> [Tiers -> BucketRefs]]
      /\ \A c \in Procs : tiers[c][DefaultTier] # Nil => tiers'[c][DefaultTier] # Nil
  BY ConfigureSteps, TierAssumption
<1>4. Local(p)'
  BY <1>1, <1>2 DEF Local, Kept
<1>5. Held(p)'
  <2>1. Bucket(frame[p].cb, DefaultTier) # Nil
    BY <1>1 DEF Base, TypeOK
  <2>2. frame'[p].cb = frame[p].cb
    BY <1>1 DEF Kept
  <2>3. QED
    BY <1>1, <1>2, <1>3, <2>1, <2>2 DEF Held, Bucket
<1>6. /\ p \in Requests => frame'[p].op \in {"none", "allow"}
      /\ p \in Admins => frame'[p].op # "allow"
  BY <1>1 DEF Base, Locals, Kept
<1>7. /\ clients' \in [Keys -> Objects] /\ sched' \in [Ids -> Entries] /\ now' \in Nat
      /\ barred' \in SUBSET Keys
  BY <1>1, ConfigureSteps DEF Base, TypeOK, Entries
<1>8. QED
  BY <1>1, <1>2, <1>3, <1>4, <1>5, <1>6, <1>7, StepBase DEF Labels

\* A step that sets one of the goroutine's own locals and goes on.
LEMMA SetBase ==
    ASSUME Base, NEW p \in Procs, NEW l \in Labels, pc' = [pc EXCEPT ![p] = l],
           pc[p] \notin Early \cup {"done"},
           frame' \in [Procs -> Frames], \A q \in Procs \ {p} : frame'[q] = frame[q],
           frame'[p].op = frame[p].op, frame'[p].key = frame[p].key, frame'[p].cb = frame[p].cb,
           \/ l = "take" /\ frame[p].op = "allow" /\ frame'[p].bkt # Nil
           \/ l = "schedule" /\ frame[p].op \in {"allow", "update"} /\ frame'[p].next # "none"
           \/ l = "walk" /\ frame[p].op \in {"block", "unblock"},
           buckets' = buckets \/ buckets' \in [BucketIds -> BucketStates],
           UNCHANGED <<clients, tiers, sched, firing, now, barred>>
    PROVE  Base'
<1>1. pc'[p] = l
  BY DEF Base, TypeOK
<1>2. Local(p)'
  BY <1>1 DEF Local, Base, Locals, Early
<1>3. Held(p)'
  <2>1. frame[p].cb \in Procs /\ Bucket(frame[p].cb, DefaultTier) # Nil
    BY DEF Base, TypeOK, Early
  <2>2. QED
    BY <1>1, <2>1 DEF Held, Bucket
<1>4. QED
  BY <1>2, <1>3, OwnStepBase

\* The labels of requests alone.
LEMMA ServeBase ==
    ASSUME Base, NEW r \in Procs,
           \/ CheckBlocked(r) \/ EnsureTier(r) \/ Pick(r) \/ TakeBlocked(r)
           \/ Take(r, TRUE) \/ Take(r, FALSE) \/ Respond(r)
    PROVE  Base'
<1>1. CASE CheckBlocked(r)
  <2>1. pc[r] = "isBlocked" /\ frame[r].op = "allow"
    BY <1>1 DEF CheckBlocked, Base, Locals, Local
  <2>2. QED
    BY <1>1, <2>1, FinishBase, GotoBase DEF CheckBlocked, Labels, Early
<1>2. CASE EnsureTier(r)
  <2>1. pc[r] = "ensureTier" /\ frame[r].op = "allow"
    BY <1>2 DEF EnsureTier, Base, Locals, Local
  <2>2. PICK l \in {"configure", "pick"} : Goto(r, l) /\ (l = "configure" => frame[r].tier # DefaultTier)
    BY <1>2 DEF EnsureTier
  <2>3. QED
    BY <1>2, <2>1, <2>2, GotoBase DEF EnsureTier, Labels, Early
<1>3. CASE Pick(r)
  <2> DEFINE b == Bucket(frame[r].cb, frame[r].tier)
             x == IF b # Nil THEN b ELSE Bucket(frame[r].cb, DefaultTier)
  <2>1. pc[r] = "pick" /\ frame[r].op = "allow" /\ pc' = [pc EXCEPT ![r] = "take"]
    BY <1>3 DEF Pick, Goto, Base, Locals, Local
  <2>2. /\ frame[r].cb \in Procs /\ frame[r].tier \in Tiers
        /\ Bucket(frame[r].cb, DefaultTier) # Nil
    BY <2>1 DEF Base, TypeOK, Locals, Frames
  <2>3. x \in BucketRefs /\ x # Nil
    BY <2>2, TierAssumption DEF Bucket, Base, TypeOK
  <2>4. frame' = [frame EXCEPT ![r].bkt = x]
    BY <1>3 DEF Pick, Set
  <2> HIDE DEF x
  <2>5. /\ frame' \in [Procs -> Frames] /\ \A q \in Procs \ {r} : frame'[q] = frame[q]
        /\ frame'[r].op = frame[r].op /\ frame'[r].key = frame[r].key
        /\ frame'[r].cb = frame[r].cb /\ frame'[r].bkt # Nil
    BY <2>3, <2>4 DEF Base, Locals, Frames
  <2>6. QED
    BY <1>3, <2>1, <2>5, SetBase DEF Pick, Labels, Early
<1>4. CASE TakeBlocked(r)
  BY <1>4, FinishBase DEF TakeBlocked
<1>5. ASSUME NEW ok \in BOOLEAN, Take(r, ok) PROVE Base'
  <2>1. pc[r] = "take" /\ frame[r].op = "allow" /\ frame[r].bkt \in BucketIds /\ frame[r].at \in Nat
    BY <1>5 DEF Take, Base, TypeOK, Locals, Local, Frames, BucketRefs
  <2>2. buckets' \in [BucketIds -> BucketStates]
    BY <1>5, <2>1 DEF Take, Base, TypeOK, BucketStates
  <2>3. CASE ok
    BY <1>5, <2>1, <2>2, <2>3, GotoBase DEF Take, Labels, Early
  <2>4. CASE ~ok
    BY <1>5, <2>2, <2>4, FinishBase DEF Take, Finish
  <2>5. QED
    BY <2>3, <2>4
<1>6. CASE Respond(r)
  BY <1>6, FinishBase DEF Respond
<1>7. QED
  BY <1>1, <1>2, <1>3, <1>4, <1>5, <1>6

\* Scheduling, by requests and updates.
LEMMA ScheduleBase ==
    ASSUME Base, NEW p \in Procs, Unschedule(p) \/ NextTime(p) \/ Schedule(p)
    PROVE  Base'
<1>1. pc[p] \in {"unschedule", "nextTime", "schedule"} /\ frame[p].op \in {"allow", "update"}
  BY DEF Unschedule, NextTime, Schedule, Base, Locals, Local
<1>2. frame[p].next \in Entries
  BY DEF Base, Locals, Frames
<1>3. CASE Unschedule(p)
  <2>1. sched' \in [Ids -> Entries]
    BY <1>3 DEF Unschedule, Base, TypeOK, Entries
  <2>2. QED
    BY <1>1, <1>3, <2>1, FinishBase, GotoBase DEF Unschedule, Labels, Early
<1>4. CASE NextTime(p)
  <2> DEFINE x == NextRefillTime(Bucket(frame[p].cb, frame[p].tier))
  <2>1. frame' = [frame EXCEPT ![p].next = x]
    BY <1>4 DEF NextTime, Set
  <2>2. x \in {"later", "zero"}
    BY DEF NextRefillTime
  <2> HIDE DEF x
  <2>3. /\ frame' \in [Procs -> Frames] /\ \A q \in Procs \ {p} : frame'[q] = frame[q]
        /\ frame'[p].op = frame[p].op /\ frame'[p].key = frame[p].key
        /\ frame'[p].cb = frame[p].cb /\ frame'[p].next # "none"
    BY <2>1, <2>2 DEF Base, Locals, Frames, Entries
  <2>4. QED
    BY <1>1, <1>4, <2>3, SetBase DEF NextTime, Goto, Labels, Early
<1>5. CASE Schedule(p)
  <2>1. sched' \in [Ids -> Entries]
    BY <1>2, <1>5 DEF Schedule, Base, TypeOK, Entries
  <2>2. QED
    BY <1>1, <1>5, <2>1, FinishBase, GotoBase DEF Schedule, Labels, Early
<1>6. QED
  BY <1>3, <1>4, <1>5

\* One step of a walk.
LEMMA WalkSteps ==
    ASSUME Base, BucketsPlaced, NEW a \in Procs, Walk(a)
    PROVE  \E b \in frame[a].todo :
            /\ b \in BucketsOf(frame[a].cb) /\ b \in BucketIds
            /\ buckets' \in [BucketIds -> BucketStates]
            /\ \A d \in BucketIds : d # b => buckets'[d] = buckets[d]
            /\ buckets'[b].blocked = (frame[a].op = "block")
            /\ buckets'[b].refills = buckets[b].refills
            /\ frame' \in [Procs -> Frames] /\ \A q \in Procs \ {a} : frame'[q] = frame[q]
            /\ frame'[a] = [frame[a] EXCEPT !.todo = frame[a].todo \ {b}]
            /\ frame'[a].op = frame[a].op /\ frame'[a].key = frame[a].key
            /\ frame'[a].cb = frame[a].cb /\ frame'[a].barred = frame[a].barred
            /\ frame'[a].todo = frame[a].todo \ {b}
<1>1. PICK b \in frame[a].todo :
        /\ buckets' = [buckets EXCEPT ![b].blocked = frame[a].op = "block"]
        /\ frame' = [frame EXCEPT ![a].todo = frame[a].todo \ {b}]
        /\ pc[a] = "walk"
  BY DEF Walk, Set
<1>2. b \in BucketsOf(frame[a].cb) /\ b \in BucketIds
  BY <1>1 DEF BucketsPlaced, Base, Locals, Frames
<1> DEFINE x == frame[a].op = "block"
<1>3. x \in BOOLEAN /\ buckets' = [buckets EXCEPT ![b].blocked = x]
  BY <1>1, Zenon
<1> HIDE DEF x
<1>4. /\ buckets' \in [BucketIds -> BucketStates] /\ buckets'[b].blocked = x
      /\ buckets'[b].refills = buckets[b].refills
      /\ \A d \in BucketIds : d # b => buckets'[d] = buckets[d]
  BY <1>2, <1>3 DEF Base, TypeOK, BucketStates
<1>5. /\ frame' \in [Procs -> Frames] /\ \A q \in Procs \ {a} : frame'[q] = frame[q]
      /\ frame'[a] = [frame[a] EXCEPT !.todo = frame[a].todo \ {b}]
  BY <1>1 DEF Base, Locals, Frames
<1>6. /\ frame'[a].op = frame[a].op /\ frame'[a].key = frame[a].key
      /\ frame'[a].cb = frame[a].cb /\ frame'[a].barred = frame[a].barred
      /\ frame'[a].todo = frame[a].todo \ {b}
  BY <1>5 DEF Base, Locals, Frames
<1>7. QED
  BY <1>2, <1>4, <1>5, <1>6 DEF x

\* What locking the tier map for a walk does.
LEMMA LockSteps ==
    ASSUME Base, NEW a \in Procs, LockTiers(a)
    PROVE  /\ pc[a] = "lockTiers" /\ pc' = [pc EXCEPT ![a] = "walk"] /\ pc'[a] = "walk"
           /\ frame' \in [Procs -> Frames] /\ \A q \in Procs \ {a} : frame'[q] = frame[q]
           /\ frame'[a].op = frame[a].op /\ frame'[a].key = frame[a].key
           /\ frame'[a].cb = frame[a].cb /\ frame'[a].barred = frame[a].barred
           /\ frame'[a].todo = BucketsOf(frame[a].cb) /\ frame[a].cb \in Procs
           /\ frame'[a].refills = frame[a].refills
<1>1. /\ pc[a] = "lockTiers" /\ pc' = [pc EXCEPT ![a] = "walk"]
      /\ frame' = [frame EXCEPT ![a].todo = BucketsOf(frame[a].cb)]
  BY DEF LockTiers, Goto, Set
<1>2. frame[a].cb \in Procs
  BY <1>1 DEF Base, TypeOK
<1>3. BucketsOf(frame[a].cb) \subseteq BucketIds
  BY <1>2 DEF BucketsOf, Tiered, Base, TypeOK, BucketRefs
<1>4. pc'[a] = "walk"
  BY <1>1 DEF Base, TypeOK
<1>5. /\ frame' \in [Procs -> Frames] /\ \A q \in Procs \ {a} : frame'[q] = frame[q]
      /\ frame'[a] = [frame[a] EXCEPT !.todo = BucketsOf(frame[a].cb)]
  BY <1>1, <1>3 DEF Base, Locals, Frames
<1>6. /\ frame'[a].op = frame[a].op /\ frame'[a].key = frame[a].key
      /\ frame'[a].cb = frame[a].cb /\ frame'[a].barred = frame[a].barred
      /\ frame'[a].todo = BucketsOf(frame[a].cb) /\ frame'[a].refills = frame[a].refills
  BY <1>5 DEF Base, Locals, Frames
<1>7. QED
  BY <1>1, <1>2, <1>4, <1>5, <1>6

\* Blocks and unblocks.
LEMMA WalkBase ==
    ASSUME Base, BucketsPlaced, NEW a \in Procs, LockTiers(a) \/ Walk(a) \/ WalkDone(a)
    PROVE  Base'
<1>1. pc[a] \in {"lockTiers", "walk"} /\ frame[a].op \in {"block", "unblock"} /\ frame[a].key \in Keys
  BY DEF LockTiers, Walk, WalkDone, Base, Locals, Local
<1>2. CASE LockTiers(a)
  BY <1>1, <1>2, LockSteps, SetBase DEF LockTiers, Labels, Early
<1>3. CASE Walk(a)
  <2>1. pc' = [pc EXCEPT ![a] = "walk"] /\ UNCHANGED <<clients, tiers, sched, firing, now, barred>>
    BY <1>3 DEF Walk, Base, TypeOK
  <2>2. QED
    BY <1>1, <1>3, <2>1, WalkSteps, SetBase DEF Labels, Early
<1>4. CASE WalkDone(a)
  <2>1. barred' \in SUBSET Keys
    BY <1>1, <1>4 DEF WalkDone, Base, TypeOK
  <2>2. QED
    BY <1>4, <2>1, FinishBase DEF WalkDone
<1>5. QED
  BY <1>2, <1>3, <1>4

\* The scheduler's callbacks leave the goroutines and the maps alone.
LEMMA FiringBase ==
    ASSUME Base, (\E ids \in SUBSET Ids : Fire(ids)) \/ ProcessDue
    PROVE  Base' /\ UNCHANGED <<clients, tiers, buckets, now, pc, frame, barred>>
<1> USE DEF Base, TypeOK, Locals, Callback
<1>1. UNCHANGED <<clients, tiers, buckets, now, pc, frame, barred>>
  BY DEF Fire, ProcessDue, OnDueClient, OnDueBucket, Reschedule
<1>2. ASSUME /\ sched' \in [Ids -> Entries] /\ Callback'
             /\ firing' \in [due : SUBSET Ids, pc : {"idle", "refill", "put"}, id : Ids \cup {Nil},
                             cb : Objects, next : Entries]
      PROVE  Base'
  BY <1>1, <1>2 DEF Local, Bucket, Entries
<1>3. ASSUME NEW ids \in SUBSET Ids, Fire(ids) PROVE Base'
  BY <1>2, <1>3 DEF Fire, NotFiring, Entries
<1>4. ASSUME NEW i \in Ids, OnDueClient(i) PROVE Base'
  <2>1. clients[i[1]] \in Objects
    BY DEF Ids
  <2>2. QED
    BY <1>2, <1>4, <2>1 DEF OnDueClient, Entries, Objects
<1>5. CASE OnDueBucket
  BY <1>2, <1>5 DEF OnDueBucket, CallbackDone, NotFiring, NextRefillTime, Entries, Objects
<1>6. CASE Reschedule
  BY <1>2, <1>6 DEF Reschedule, CallbackDone, NotFiring, Entries, Objects
<1>7. QED
  BY <1>1, <1>3, <1>4, <1>5, <1>6 DEF ProcessDue

\* A step is of one goroutine, or of processDue.
Act(p) ==
    \/ Lookup(p) \/ Create(p) \/ CheckBlocked(p) \/ EnsureTier(p)
    \/ Configure(p) \/ Unschedule(p) \/ NextTime(p) \/ Schedule(p)
    \/ Pick(p) \/ TakeBlocked(p) \/ Take(p, TRUE) \/ Take(p, FALSE) \/ Respond(p)
    \/ LockTiers(p) \/ Walk(p) \/ WalkDone(p)
Arrive == (\E r \in Requests : Request(r)) \/ (\E a \in Admins : AdminCall(a))
Callbacks == (\E ids \in SUBSET Ids : Fire(ids)) \/ ProcessDue

\* Every step is one of these.
LEMMA Steps ==
    ASSUME [Next]_vars
    PROVE  Arrive \/ (\E p \in Procs : Act(p)) \/ Callbacks \/ UNCHANGED vars
BY DEF Next, Serve, Administer, Act, Arrive, Callbacks, Procs

\* Every step keeps the types and what the labels say.
LEMMA BaseStep == Base /\ BucketsPlaced /\ [Next]_vars => Base'
<1> SUFFICES ASSUME Base, BucketsPlaced, [Next]_vars PROVE Base'
  OBVIOUS
<1>1. ASSUME NEW p \in Procs, Act(p) PROVE Base'
  BY <1>1, LookupBase, CreateBase, ConfigureBase, ServeBase, ScheduleBase, WalkBase DEF Act
<1>2. CASE UNCHANGED vars
  BY <1>2 DEF vars, Base, TypeOK, Locals, Local, Callback, Bucket
<1>3. QED
  BY <1>1, <1>2, Steps, ArriveBase, FiringBase DEF Arrive, Callbacks
-----------------------------------------------------------------------------
(* The registry's size.                                                    *)

\* Steps of a goroutine after which it holds what it held, or has returned.
Plain(p) ==
    \/ Lookup(p) /\ clients[frame[p].key] = Nil
    \/ CheckBlocked(p) \/ EnsureTier(p) \/ Unschedule(p) \/ NextTime(p) \/ Schedule(p)
    \/ Pick(p) \/ TakeBlocked(p) \/ Take(p, TRUE) \/ Take(p, FALSE) \/ Respond(p)
    \/ WalkDone(p)

\* The kinds of steps of a goroutine.
LEMMA ActKinds ==
    ASSUME NEW p \in Procs, Act(p)
    PROVE  \/ Enters(p) \/ (\E v \in Victims : Created(p, v)) \/ Configure(p)
           \/ LockTiers(p) \/ Walk(p) \/ Plain(p)
<1>1. CASE Create(p)
  BY <1>1, CreateCases
<1>2. CASE Lookup(p) /\ clients[frame[p].key] # Nil
  BY <1>2 DEF Lookup, Enters
<1>3. QED
  BY <1>1, <1>2 DEF Act, Plain

\* Only a creation writes the map of clients.
LEMMA MapStep ==
    ASSUME Base, [Next]_vars
    PROVE  UNCHANGED clients \/ \E p \in Procs, v \in Victims : Created(p, v)
<1>1. ASSUME NEW p \in Procs, Enters(p) \/ Configure(p) \/ LockTiers(p) \/ Walk(p) \/ Plain(p)
      PROVE  UNCHANGED clients
  BY <1>1
  DEF Enters, Configure, LockTiers, Walk, Plain, Lookup, CheckBlocked, EnsureTier, Unschedule,
      NextTime, Schedule, Pick, TakeBlocked, Take, Respond, WalkDone
<1>2. Arrive => UNCHANGED clients
  BY DEF Arrive, Request, AdminCall, Begin
<1>3. Callbacks => UNCHANGED clients
  BY FiringBase DEF Callbacks
<1>4. QED
  BY <1>1, <1>2, <1>3, Steps, ActKinds DEF vars

\* A creation evicts one client of a full map, and adds one.
LEMMA CreateCapacity ==
    ASSUME Base, Capacity, NEW p \in Procs, NEW v \in Victims, Created(p, v)
    PROVE  Capacity'
<1> DEFINE key == frame[p].key
<1>1. SUFFICES ASSUME MaxClients > 0 PROVE Cardinality(Live') <= MaxClients
  BY DEF Capacity
<1>2. /\ key \in Keys /\ clients[key] = Nil /\ p # Nil
      /\ clients' = [k \in Keys |-> IF k = key THEN p ELSE IF k = v THEN Nil ELSE clients[k]]
  <2>1. key \in Keys
    BY CreatedSteps
  <2>2. QED
    BY <2>1, NamesAssumption DEF Created
<1>3. IsFiniteSet(Live) /\ Cardinality(Live) \in Nat /\ key \notin Live
  BY <1>2, FS_Subset, FS_CardinalityType, NamesAssumption DEF Live
<1>4. Live' = (Live \ {v}) \cup {key}
  BY <1>2 DEF Live
<1>5. MaxClients \in Nat \ {0} /\ Cardinality(Live) <= MaxClients
  BY <1>1, SizeAssumption DEF Capacity
<1>6. CASE Cardinality(Live) >= MaxClients
  <2>1. v \in Live
    BY <1>1, <1>6 DEF Victims, Scan, Live
  <2>2. IsFiniteSet(Live \ {v}) /\ Cardinality(Live \ {v}) = Cardinality(Live) - 1
    BY <1>3, <2>1, FS_RemoveElement
  <2>3. Cardinality((Live \ {v}) \cup {key}) = Cardinality(Live \ {v}) + 1
    BY <1>3, <2>2, FS_AddElement
  <2>4. QED
    BY <1>3, <1>4, <1>5, <2>2, <2>3
<1>7. CASE Cardinality(Live) < MaxClients
  <2>1. v = Nil
    BY <1>3, <1>5, <1>7 DEF Victims, Live
  <2>2. Live' = Live \cup {key}
    BY <1>4, <2>1, NamesAssumption DEF Live
  <2>3. Cardinality(Live') = Cardinality(Live) + 1
    BY <1>3, <2>2, FS_AddElement
  <2>4. QED
    BY <1>3, <1>5, <1>7, <2>3
<1>8. QED
  BY <1>3, <1>5, <1>6, <1>7

\* The map stays within its capacity.
LEMMA CapacityStep == Base /\ Capacity /\ [Next]_vars => Capacity'
<1>1. Capacity /\ UNCHANGED clients => Capacity'
  BY DEF Capacity, Live
<1>2. QED
  BY <1>1, MapStep, CreateCapacity
-----------------------------------------------------------------------------
(* Where objects and buckets are.                                          *)

\* What a plain step of a goroutine changes.
Continues(p) ==
    /\ frame'[p].op = frame[p].op /\ frame'[p].key = frame[p].key
    /\ frame'[p].tier = frame[p].tier /\ frame'[p].cb = frame[p].cb
    /\ frame'[p].refills = frame[p].refills /\ frame'[p].barred = frame[p].barred
    /\ pc'[p] \in Early => pc[p] = "lookup" /\ pc'[p] = "create" /\ clients[frame[p].key] = Nil
    /\ pc'[p] \in Unconfigured => pc[p] \in Unconfigured
    /\ pc[p] = "lookup" => clients[frame[p].key] = Nil
    /\ pc[p] = "isBlocked" => ~IsBlocked(p)
    /\ pc'[p] \notin {"start", "lookup", "isBlocked", "walk"}

\* Others' locals, the maps and the blocks stay as they are.
LEMMA PlainSteps ==
    ASSUME Base, NEW p \in Procs, Plain(p)
    PROVE  /\ UNCHANGED <<clients, tiers, firing>>
           /\ \A q \in Procs \ {p} : pc'[q] = pc[q] /\ frame'[q] = frame[q]
           /\ (pc'[p] = "done" /\ frame'[p] = NoFrame) \/ Continues(p)
           /\ \A b \in BucketIds : buckets'[b].blocked = buckets[b].blocked
           /\ WalkDone(p) \/ UNCHANGED barred
<1> USE DEF Base, TypeOK, Locals
<1>1. ASSUME Finish(p)
      PROVE  /\ \A q \in Procs \ {p} : pc'[q] = pc[q] /\ frame'[q] = frame[q]
             /\ pc'[p] = "done" /\ frame'[p] = NoFrame
  BY <1>1 DEF Finish, Goto
<1>2. ASSUME NEW l \in Labels, Goto(p, l)
      PROVE  pc'[p] = l /\ \A q \in Procs \ {p} : pc'[q] = pc[q]
  BY <1>2 DEF Goto
<1>3. UNCHANGED <<clients, tiers, firing>> /\ (WalkDone(p) \/ UNCHANGED barred)
  BY DEF Plain, Lookup, CheckBlocked, EnsureTier, Unschedule, NextTime, Schedule, Pick,
         TakeBlocked, Take, Respond, WalkDone
<1>4. ASSUME UNCHANGED <<frame, buckets>>, NEW l \in Labels, Goto(p, l),
             l \in Early => pc[p] = "lookup" /\ l = "create" /\ clients[frame[p].key] = Nil,
             l \in Unconfigured => pc[p] \in Unconfigured,
             pc[p] = "lookup" => clients[frame[p].key] = Nil,
             pc[p] = "isBlocked" => ~IsBlocked(p),
             l \notin {"start", "lookup", "isBlocked", "walk"}
      PROVE  /\ Continues(p)
             /\ \A q \in Procs \ {p} : pc'[q] = pc[q] /\ frame'[q] = frame[q]
             /\ \A b \in BucketIds : buckets'[b].blocked = buckets[b].blocked
  BY <1>2, <1>4 DEF Continues
<1>5. CASE Lookup(p) /\ clients[frame[p].key] = Nil
  BY <1>1, <1>3, <1>4, <1>5 DEF Lookup, Early, Unconfigured, Labels
<1>6. CASE CheckBlocked(p)
  BY <1>1, <1>3, <1>4, <1>6 DEF CheckBlocked, Early, Unconfigured, Labels
<1>7. CASE EnsureTier(p)
  <2>1. PICK l \in {"configure", "pick"} : Goto(p, l)
    BY <1>7 DEF EnsureTier
  <2>2. QED
    BY <1>3, <1>4, <1>7, <2>1 DEF EnsureTier, Early, Unconfigured, Labels
<1>8. CASE Unschedule(p)
  BY <1>1, <1>3, <1>4, <1>8 DEF Unschedule, Early, Unconfigured, Labels
<1>9. CASE Schedule(p)
  BY <1>1, <1>3, <1>4, <1>9 DEF Schedule, Early, Unconfigured, Labels
<1>10. ASSUME NEW f \in {"next", "bkt"}, NEW x, Set(p, f, x), NEW l \in {"schedule", "take"},
              Goto(p, l), pc[p] \in {"nextTime", "pick"}, UNCHANGED buckets
       PROVE  /\ Continues(p)
              /\ \A q \in Procs \ {p} : pc'[q] = pc[q] /\ frame'[q] = frame[q]
              /\ \A b \in BucketIds : buckets'[b].blocked = buckets[b].blocked
  <2>1. pc'[p] = l /\ \A q \in Procs \ {p} : pc'[q] = pc[q]
    BY <1>2, <1>10 DEF Labels
  <2>2. /\ \A q \in Procs \ {p} : frame'[q] = frame[q]
        /\ frame'[p] = [frame[p] EXCEPT ![f] = x]
    BY <1>10 DEF Set
  <2>3. /\ frame'[p].op = frame[p].op /\ frame'[p].key = frame[p].key
        /\ frame'[p].tier = frame[p].tier /\ frame'[p].cb = frame[p].cb
        /\ frame'[p].refills = frame[p].refills /\ frame'[p].barred = frame[p].barred
    BY <2>2 DEF Frames
  <2>4. QED
    BY <1>10, <2>1, <2>2, <2>3 DEF Continues, Early, Unconfigured
<1>11. CASE NextTime(p) \/ Pick(p)
  BY <1>3, <1>10, <1>11 DEF NextTime, Pick
<1>12. CASE TakeBlocked(p) \/ Respond(p)
  BY <1>1, <1>3, <1>12 DEF TakeBlocked, Respond
<1>13. CASE WalkDone(p)
  BY <1>1, <1>3, <1>13 DEF WalkDone
<1>14. ASSUME NEW ok \in BOOLEAN, Take(p, ok)
       PROVE  /\ (pc'[p] = "done" /\ frame'[p] = NoFrame) \/ Continues(p)
              /\ \A q \in Procs \ {p} : pc'[q] = pc[q] /\ frame'[q] = frame[q]
              /\ \A b \in BucketIds : buckets'[b].blocked = buckets[b].blocked
  <2>1. \A b \in BucketIds : buckets'[b].blocked = buckets[b].blocked
    BY <1>14 DEF Take
  <2>2. CASE ok
    BY <1>2, <1>14, <2>1, <2>2 DEF Take, Continues, Early, Unconfigured, Labels
  <2>3. CASE ~ok
    BY <1>1, <1>14, <2>1, <2>3 DEF Take, Finish
  <2>4. QED
    BY <2>2, <2>3
<1>15. QED
  BY <1>3, <1>5, <1>6, <1>7, <1>8, <1>9, <1>11, <1>12, <1>13, <1>14 DEF Plain

\* A plain step moves no object and no bucket.
LEMMA PlainPlaced ==
    ASSUME Base, Placed, NEW p \in Procs, Plain(p)
    PROVE  Placed'
<1>1. /\ UNCHANGED <<clients, tiers>>
      /\ \A q \in Procs \ {p} : pc'[q] = pc[q] /\ frame'[q] = frame[q]
      /\ (pc'[p] = "done" /\ frame'[p] = NoFrame) \/ Continues(p)
  BY PlainSteps
<1>2. /\ pc'[p] \in Early => pc[p] \in Early
      /\ pc'[p] \in Unconfigured => pc[p] \in Unconfigured
      /\ pc'[p] # "walk" /\ frame'[p].cb \in {Nil, frame[p].cb}
      /\ frame'[p].cb # Nil => frame'[p].key = frame[p].key
  BY <1>1 DEF Continues, Early, Unconfigured, NoFrame
<1>3. \A q \in Procs : pc'[q] \in Early => pc[q] \in Early
  BY <1>1, <1>2
<1>4. \A q \in Procs : frame'[q].cb \in {Nil, frame[q].cb}
  BY <1>1, <1>2
<1>5. \A q \in Procs : q # Nil
  BY NamesAssumption
<1>6. ObjectsPlaced'
  <2>1. \A q \in Procs : pc'[q] \in Early =>
            (\A k \in Keys : clients'[k] # q) /\ (\A x \in Procs : frame'[x].cb # q)
    BY <1>1, <1>3, <1>4, <1>5 DEF Placed, ObjectsPlaced
  <2>2. \A k \in Keys, q \in Procs :
            clients'[k] = frame'[q].cb /\ clients'[k] # Nil => frame'[q].key = k
    BY <1>1, <1>2 DEF Placed, ObjectsPlaced
  <2>3. QED
    BY <1>1, <2>1, <2>2 DEF Placed, ObjectsPlaced
<1>7. BucketsPlaced'
  <2>1. \A x, c \in Procs, t \in Tiers :
            /\ pc'[x] \in Early => tiers'[c][t] # <<x, "default">>
            /\ pc'[x] \in Unconfigured => tiers'[c][t] # <<x, "tier">>
    BY <1>1, <1>2 DEF Placed, BucketsPlaced
  <2>2. \A x \in Procs : pc'[x] = "walk" => frame'[x].todo \subseteq BucketsOf(frame[x].cb)'
    BY <1>1, <1>2 DEF Placed, BucketsPlaced, BucketsOf, Tiered
  <2>3. QED
    BY <1>1, <2>1, <2>2 DEF Placed, BucketsPlaced
<1>8. QED
  BY <1>6, <1>7 DEF Placed

\* A goroutine that finds its client holds the object registered for its key.
LEMMA EntersPlaced ==
    ASSUME Base, Placed, NEW p \in Procs, Enters(p)
    PROVE  Placed'
<1>1. /\ UNCHANGED <<clients, tiers>>
      /\ frame[p].key \in Keys
      /\ \A q \in Procs \ {p} : frame'[q] = frame[q]
      /\ clients[frame[p].key] # Nil
      /\ pc[p] \in Early
  <2>1. /\ UNCHANGED <<clients, tiers>> /\ clients[frame[p].key] # Nil /\ pc[p] \in Early
    BY DEF Enters, Early
  <2>2. QED
    BY <2>1, EntersSteps
<1>2. PICK l \in {"isBlocked", "configure", "lockTiers"} : pc' = [pc EXCEPT ![p] = l]
  BY EntersSteps
<1>3. /\ pc'[p] \notin Early /\ pc'[p] # "walk" /\ pc[p] \in Unconfigured
      /\ \A q \in Procs \ {p} : pc'[q] = pc[q]
  BY <1>1, <1>2 DEF Base, TypeOK, Early, Unconfigured
<1>4. frame'[p].cb = clients[frame[p].key] /\ frame'[p].key = frame[p].key
  <2>1. frame[p] \in Frames
    BY DEF Base, Locals
  <2>2. frame'[p] = [frame[p] EXCEPT !.cb = clients[frame[p].key]]
    BY EntersSteps
  <2>3. QED
    BY <2>1, <2>2 DEF Frames
<1>5. ObjectsPlaced'
  <2>1. \A q \in Procs : pc'[q] \in Early =>
            (\A k \in Keys : clients'[k] # q) /\ (\A x \in Procs : frame'[x].cb # q)
    BY <1>1, <1>3, <1>4 DEF Placed, ObjectsPlaced
  <2>2. \A k \in Keys, q \in Procs :
            clients'[k] = frame'[q].cb /\ clients'[k] # Nil => frame'[q].key = k
    BY <1>1, <1>4 DEF Placed, ObjectsPlaced
  <2>3. QED
    BY <1>1, <2>1, <2>2 DEF Placed, ObjectsPlaced
<1>6. BucketsPlaced'
  <2>1. \A x, c \in Procs, t \in Tiers :
            /\ pc'[x] \in Early => tiers'[c][t] # <<x, "default">>
            /\ pc'[x] \in Unconfigured => tiers'[c][t] # <<x, "tier">>
    BY <1>1, <1>3 DEF Placed, BucketsPlaced
  <2>2. \A x \in Procs : pc'[x] = "walk" => frame'[x].todo \subseteq BucketsOf(frame[x].cb)'
    BY <1>1, <1>3 DEF Placed, BucketsPlaced, BucketsOf, Tiered
  <2>3. QED
    BY <1>1, <2>1, <2>2 DEF Placed, BucketsPlaced
<1>7. QED
  BY <1>5, <1>6 DEF Placed

\* A creation registers an object nobody knew, with a bucket nobody had.
LEMMA CreatedPlaced ==
    ASSUME Base, Placed, NEW p \in Procs, NEW v, Created(p, v)
    PROVE  Placed'
<1>1. /\ frame'[p].key = frame[p].key /\ frame'[p].cb = p
      /\ \A q \in Procs \ {p} : Kept(q)
      /\ tiers'[p][DefaultTier] = <<p, "default">>
      /\ \A c \in Procs, t \in Tiers : (c = p /\ t = DefaultTier) \/ tiers'[c][t] = tiers[c][t]
  BY CreatedSteps
<1>2. /\ clients' = [k \in Keys |-> IF k = frame[p].key THEN p
                                    ELSE IF k = v THEN Nil ELSE clients[k]]
      /\ pc[p] \in Early /\ pc[p] \in Unconfigured
  BY DEF Created, Early, Unconfigured
<1>3. PICK l \in {"isBlocked", "configure", "lockTiers"} : pc' = [pc EXCEPT ![p] = l]
  BY CreatedSteps
<1>4. /\ pc'[p] \notin Early /\ pc'[p] # "walk" /\ \A q \in Procs \ {p} : pc'[q] = pc[q]
  BY <1>3 DEF Base, TypeOK, Early
<1>5. \A q \in Procs \ {p} : /\ frame'[q].cb = frame[q].cb /\ frame'[q].key = frame[q].key
                             /\ frame'[q].todo = frame[q].todo
  BY <1>1 DEF Kept
<1>6. (\A k \in Keys : clients[k] # p) /\ (\A q \in Procs : frame[q].cb # p)
  BY <1>2 DEF Placed, ObjectsPlaced
<1>7. ObjectsPlaced'
  <2>1. \A q \in Procs : pc'[q] \in Early =>
            (\A k \in Keys : clients'[k] # q) /\ (\A x \in Procs : frame'[x].cb # q)
    <3> SUFFICES ASSUME NEW q \in Procs, pc'[q] \in Early
                 PROVE  (\A k \in Keys : clients'[k] # q) /\ (\A x \in Procs : frame'[x].cb # q)
      OBVIOUS
    <3>1. q # p /\ pc[q] \in Early /\ q # Nil
      BY <1>4, NamesAssumption
    <3>2. QED
      BY <1>1, <1>2, <1>5, <3>1 DEF Placed, ObjectsPlaced
  <2>2. \A k, j \in Keys : clients'[k] = clients'[j] /\ clients'[k] # Nil => k = j
    BY <1>2, <1>6 DEF Placed, ObjectsPlaced
  <2>3. \A k \in Keys, q \in Procs :
            clients'[k] = frame'[q].cb /\ clients'[k] # Nil => frame'[q].key = k
    <3>1. \A k \in Keys : clients'[k] = p => k = frame[p].key
      BY <1>2, <1>6, NamesAssumption
    <3>2. \A k \in Keys : clients'[k] # p /\ clients'[k] # Nil => clients'[k] = clients[k]
      BY <1>2
    <3>3. QED
      BY <1>1, <1>5, <1>6, <3>1, <3>2 DEF Placed, ObjectsPlaced
  <2>4. QED
    BY <2>1, <2>2, <2>3 DEF ObjectsPlaced
<1>8. BucketsPlaced'
  <2>1. \A c \in Procs, t \in Tiers : tiers[c][t] # <<p, "default">>
    BY <1>2 DEF Placed, BucketsPlaced
  <2>2. \A x, c \in Procs, t \in Tiers :
            /\ pc'[x] \in Early => tiers'[c][t] # <<x, "default">>
            /\ pc'[x] \in Unconfigured => tiers'[c][t] # <<x, "tier">>
    BY <1>1, <1>2, <1>4 DEF Placed, BucketsPlaced
  <2>3. \A c, d \in Procs, t, u \in Tiers :
            tiers'[c][t] = tiers'[d][u] /\ tiers'[c][t] # Nil => c = d /\ t = u
    BY <1>1, <2>1 DEF Placed, BucketsPlaced
  <2>4. \A x \in Procs : pc'[x] = "walk" => frame'[x].todo \subseteq BucketsOf(frame[x].cb)'
    <3> SUFFICES ASSUME NEW x \in Procs, pc'[x] = "walk"
                 PROVE  frame'[x].todo \subseteq BucketsOf(frame[x].cb)'
      OBVIOUS
    <3>1. x # p /\ pc[x] = "walk" /\ frame[x].cb # p /\ frame'[x].cb = frame[x].cb
      BY <1>4, <1>5, <1>6
    <3>2. frame[x].cb \in Procs
      BY <3>1 DEF Base, TypeOK
    <3>3. \A t \in Tiers : tiers'[frame[x].cb][t] = tiers[frame[x].cb][t]
      BY <1>1, <3>1, <3>2
    <3>4. frame[x].todo \subseteq BucketsOf(frame[x].cb)
      BY <3>1 DEF Placed, BucketsPlaced
    <3>5. QED
      BY <1>5, <3>1, <3>3, <3>4 DEF BucketsOf, Tiered
  <2>5. QED
    BY <2>2, <2>3, <2>4 DEF BucketsPlaced
<1>9. QED
  BY <1>7, <1>8 DEF Placed

\* A Configure puts a bucket nobody had into an object that no walk goes over.
LEMMA ConfigurePlaced ==
    ASSUME Base, Placed, NEW p \in Procs, Configure(p)
    PROVE  Placed'
<1> DEFINE cb == frame[p].cb
           tier == frame[p].tier
<1>1. /\ cb \in Procs /\ ~Walking(cb) /\ UNCHANGED clients
      /\ tiers'[cb][tier] = <<p, "tier">> /\ pc[p] = "configure"
      /\ \A c \in Procs, t \in Tiers : (c = cb /\ t = tier) \/ tiers'[c][t] = tiers[c][t]
      /\ \A q \in Procs : Kept(q)
  BY ConfigureSteps
<1>2. PICK l \in {"unschedule", "nextTime", "pick"} : pc' = [pc EXCEPT ![p] = l]
  BY ConfigureSteps
<1>3. /\ pc'[p] \notin Unconfigured /\ pc'[p] # "walk" /\ pc[p] \in Unconfigured
      /\ \A q \in Procs \ {p} : pc'[q] = pc[q]
  BY <1>1, <1>2 DEF Base, TypeOK, Unconfigured, Early
<1>4. \A q \in Procs : /\ frame'[q].cb = frame[q].cb /\ frame'[q].key = frame[q].key
                       /\ frame'[q].todo = frame[q].todo
  BY <1>1 DEF Kept
<1>5. pc'[p] \notin Early
  BY <1>3 DEF Unconfigured
<1>6. ObjectsPlaced'
  BY <1>1, <1>3, <1>4, <1>5 DEF Placed, ObjectsPlaced
<1>7. \A c \in Procs, t \in Tiers : tiers[c][t] # <<p, "tier">>
  BY <1>3 DEF Placed, BucketsPlaced
<1>8. BucketsPlaced'
  <2>1. \A x, c \in Procs, t \in Tiers :
            /\ pc'[x] \in Early => tiers'[c][t] # <<x, "default">>
            /\ pc'[x] \in Unconfigured => tiers'[c][t] # <<x, "tier">>
    BY <1>1, <1>3, <1>5 DEF Placed, BucketsPlaced
  <2>2. \A c, d \in Procs, t, u \in Tiers :
            tiers'[c][t] = tiers'[d][u] /\ tiers'[c][t] # Nil => c = d /\ t = u
    BY <1>1, <1>7 DEF Placed, BucketsPlaced
  <2>3. \A x \in Procs : pc'[x] = "walk" => frame'[x].todo \subseteq BucketsOf(frame[x].cb)'
    <3> SUFFICES ASSUME NEW x \in Procs, pc'[x] = "walk"
                 PROVE  frame'[x].todo \subseteq BucketsOf(frame[x].cb)'
      OBVIOUS
    <3>1. x # p /\ pc[x] = "walk" /\ frame[x].cb # cb
      BY <1>1, <1>3 DEF Walking
    <3>2. frame[x].cb \in Procs
      BY <3>1 DEF Base, TypeOK
    <3>3. \A t \in Tiers : tiers'[frame[x].cb][t] = tiers[frame[x].cb][t]
      BY <1>1, <3>1, <3>2
    <3>4. frame[x].todo \subseteq BucketsOf(frame[x].cb)
      BY <3>1 DEF Placed, BucketsPlaced
    <3>5. QED
      BY <1>4, <3>3, <3>4 DEF BucketsOf, Tiered
  <2>4. QED
    BY <2>1, <2>2, <2>3 DEF BucketsPlaced
<1>9. QED
  BY <1>6, <1>8 DEF Placed

\* Walks move nothing.
LEMMA WalkPlaced ==
    ASSUME Base, Placed, NEW a \in Procs, LockTiers(a) \/ Walk(a)
    PROVE  Placed'
<1>1. /\ UNCHANGED <<clients, tiers>> /\ frame[a].cb \in Procs
      /\ pc[a] \in {"lockTiers", "walk"} /\ pc'[a] = "walk"
      /\ \A q \in Procs \ {a} : pc'[q] = pc[q]
  BY DEF LockTiers, Walk, Goto, Base, TypeOK
<1>2. /\ \A q \in Procs \ {a} : frame'[q] = frame[q]
      /\ frame'[a].cb = frame[a].cb /\ frame'[a].key = frame[a].key
      /\ frame'[a].todo \subseteq BucketsOf(frame[a].cb)
  <2>1. CASE LockTiers(a)
    BY <2>1, LockSteps
  <2>2. CASE Walk(a)
    <3>1. BucketsPlaced /\ frame[a].todo \subseteq BucketsOf(frame[a].cb)
      BY <2>2 DEF Placed, BucketsPlaced, Walk
    <3>2. QED
      BY <2>2, <3>1, WalkSteps
  <2>3. QED
    BY <2>1, <2>2
<1>3. /\ \A q \in Procs : pc'[q] \in Early => pc[q] \in Early
      /\ \A q \in Procs : pc'[q] \in Unconfigured => pc[q] \in Unconfigured
      /\ \A q \in Procs : frame'[q].cb = frame[q].cb /\ frame'[q].key = frame[q].key
  BY <1>1, <1>2 DEF Early, Unconfigured
<1>4. ObjectsPlaced'
  BY <1>1, <1>3 DEF Placed, ObjectsPlaced
<1>5. BucketsPlaced'
  <2>1. \A x \in Procs : pc'[x] = "walk" => frame'[x].todo \subseteq BucketsOf(frame[x].cb)'
    BY <1>1, <1>2 DEF Placed, BucketsPlaced, BucketsOf, Tiered
  <2>2. QED
    BY <1>1, <1>3, <2>1 DEF Placed, BucketsPlaced
<1>6. QED
  BY <1>4, <1>5 DEF Placed

\* A goroutine that begins holds nothing.
LEMMA BeginPlaced ==
    ASSUME Base, Placed, NEW p \in Procs, NEW op \in {"allow", "block", "unblock", "update"},
           NEW k \in Keys, NEW t \in Tiers, NEW f, f \in BOOLEAN, Begin(p, op, k, t, f)
    PROVE  Placed'
<1>1. /\ pc[p] = "start" /\ pc' = [pc EXCEPT ![p] = "lookup"] /\ pc'[p] = "lookup"
      /\ frame'[p].cb = Nil /\ \A q \in Procs \ {p} : Kept(q)
      /\ UNCHANGED <<clients, tiers>>
  BY BeginSteps
<1>2. \A q \in Procs \ {p} : /\ pc'[q] = pc[q] /\ frame'[q].cb = frame[q].cb
                             /\ frame'[q].key = frame[q].key /\ frame'[q].todo = frame[q].todo
  BY <1>1 DEF Kept, Base, TypeOK
<1>3. \A q \in Procs : pc'[q] \in Early => pc[q] \in Early
  BY <1>1, <1>2 DEF Early
<1>4. \A q \in Procs : pc'[q] \in Unconfigured => pc[q] \in Unconfigured
  BY <1>1, <1>2 DEF Early, Unconfigured
<1>5. ObjectsPlaced'
  BY <1>1, <1>2, <1>3, NamesAssumption DEF Placed, ObjectsPlaced
<1>6. BucketsPlaced'
  <2>1. \A x \in Procs : pc'[x] = "walk" => frame'[x].todo \subseteq BucketsOf(frame[x].cb)'
    BY <1>1, <1>2 DEF Placed, BucketsPlaced, BucketsOf, Tiered
  <2>2. QED
    BY <1>1, <1>3, <1>4, <2>1 DEF Placed, BucketsPlaced
<1>7. QED
  BY <1>5, <1>6 DEF Placed

\* Every step leaves objects and buckets in one place.
LEMMA PlacedStep == Base /\ Placed /\ [Next]_vars => Placed'
<1> SUFFICES ASSUME Base, Placed, [Next]_vars PROVE Placed'
  OBVIOUS
<1>1. ASSUME NEW p \in Procs, Act(p) PROVE Placed'
  BY <1>1, ActKinds, EntersPlaced, CreatedPlaced, ConfigurePlaced, WalkPlaced, PlainPlaced
<1>2. ASSUME NEW r \in Requests, Request(r) PROVE Placed'
  <2>1. r \in Procs
    BY DEF Procs
  <2>2. QED
    BY <1>2, <2>1, Beginnings, BeginPlaced
<1>3. ASSUME NEW a \in Admins, AdminCall(a) PROVE Placed'
  <2>1. PICK op \in {"block", "unblock", "update"}, k \in Keys, t \in Tiers,
             f \in {TRUE} \cup NewRefills : Begin(a, op, k, t, f)
    BY <1>3, Beginnings
  <2>2. f \in BOOLEAN /\ a \in Procs
    BY OpsAssumption DEF Procs
  <2>3. QED
    BY <2>1, <2>2, BeginPlaced
<1>4. CASE UNCHANGED <<clients, tiers, pc, frame>>
  BY <1>4 DEF Placed, ObjectsPlaced, BucketsPlaced, BucketsOf, Tiered
<1>5. QED
  BY <1>1, <1>2, <1>3, <1>4, Steps, FiringBase DEF Arrive, Callbacks, vars
-----------------------------------------------------------------------------
(* Blocks.                                                                 *)

\* A bucket belongs to one object.
LEMMA OneOwner ==
    ASSUME Base, BucketsPlaced, NEW c \in Procs, NEW d \in Procs, NEW b \in BucketsOf(c),
           b \in BucketsOf(d)
    PROVE  c = d
BY DEF BucketsPlaced, BucketsOf, Tiered

\* The buckets of an object.
LEMMA BucketsOfTypes ==
    ASSUME Base, NEW c \in Procs
    PROVE  /\ BucketsOf(c) \subseteq BucketIds
           /\ Bucket(c, DefaultTier) # Nil => Bucket(c, DefaultTier) \in BucketsOf(c)
BY TierAssumption DEF BucketsOf, Tiered, Bucket, Base, TypeOK, BucketRefs

\* A key under a block: its client, and the client's default bucket.
LEMMA BarredClient ==
    ASSUME Base, BarredBlocked, NEW k \in barred
    PROVE  /\ k \in Keys /\ clients[k] \in Procs /\ ~Unblocking(k)
           /\ Bucket(clients[k], DefaultTier) \in BucketsOf(clients[k])
           /\ Bucket(clients[k], DefaultTier) \in BucketIds
           /\ buckets[Bucket(clients[k], DefaultTier)].blocked
<1>1. k \in Keys /\ clients[k] # Nil
  BY DEF BarredBlocked, Base, TypeOK
<1>2. clients[k] \in Procs /\ Bucket(clients[k], DefaultTier) # Nil
  BY <1>1 DEF Base, TypeOK, Locals, Objects
<1>3. QED
  BY <1>1, <1>2, BucketsOfTypes DEF BarredBlocked

\* Plain steps: a Block that returns has blocked its client; a request that
\* arrived under a block does not get past IsBlocked.
LEMMA PlainBlocks ==
    ASSUME Base, Placed, Blocks, "evict" \in BlockEnds, NEW p \in Procs, Plain(p)
    PROVE  Blocks'
<1>1. /\ UNCHANGED <<clients, tiers>>
      /\ \A q \in Procs \ {p} : pc'[q] = pc[q] /\ frame'[q] = frame[q]
      /\ (pc'[p] = "done" /\ frame'[p] = NoFrame) \/ Continues(p)
      /\ \A b \in BucketIds : buckets'[b].blocked = buckets[b].blocked
      /\ WalkDone(p) \/ UNCHANGED barred
  BY PlainSteps
<1>2. \A k : Unblocking(k)' => Unblocking(k)
  <2>1. frame'[p].op = "unblock" => frame[p].op = "unblock" /\ frame'[p].key = frame[p].key
    BY <1>1 DEF Continues, NoFrame
  <2>2. QED
    BY <1>1, <2>1 DEF Unblocking, Procs
<1>3. /\ barred \subseteq barred'
      /\ \A k \in barred' \ barred :
            /\ frame[p].op = "block" /\ frame[p].barred /\ k = frame[p].key
            /\ pc[p] = "walk" /\ frame[p].todo = {} /\ clients[k] = frame[p].cb
  BY <1>1 DEF WalkDone
<1>4. BarredBlocked'
  <2> SUFFICES ASSUME NEW k \in barred'
               PROVE  /\ clients[k] # Nil /\ ~Unblocking(k)
                      /\ tiers[clients[k]][DefaultTier] \in BucketIds
                      /\ buckets[tiers[clients[k]][DefaultTier]].blocked
    BY <1>1, <1>2 DEF BarredBlocked, Bucket
  <2>1. CASE k \in barred
    BY <2>1, BarredClient, NamesAssumption DEF Blocks, Bucket
  <2>2. CASE k \notin barred
    <3>1. /\ frame[p].op = "block" /\ frame[p].barred /\ k = frame[p].key
          /\ pc[p] = "walk" /\ frame[p].todo = {} /\ clients[k] = frame[p].cb
      BY <1>3, <2>2
    <3>2. frame[p].cb \in Procs /\ Bucket(frame[p].cb, DefaultTier) # Nil
      BY <3>1 DEF Base, TypeOK
    <3>3. ~Unblocking(k) /\ \A b \in BucketsOf(frame[p].cb) : buckets[b].blocked
      BY <3>1 DEF Blocks, WalksBlock
    <3>4. QED
      BY <3>1, <3>2, <3>3, BucketsOfTypes, NamesAssumption DEF Bucket
  <2>3. QED
    BY <2>1, <2>2
<1>5. WalksBlock'
  <2> SUFFICES ASSUME NEW x \in Procs, frame'[x].op = "block", frame'[x].barred
               PROVE  /\ ~Unblocking(frame[x].key)'
                      /\ pc'[x] = "walk" /\ clients'[frame'[x].key] = frame'[x].cb =>
                            \A b \in BucketsOf(frame[x].cb)' \ frame'[x].todo : buckets'[b].blocked
    BY DEF WalksBlock
  <2>1. frame[x].op = "block" /\ frame[x].barred /\ frame'[x].key = frame[x].key
    BY <1>1 DEF Continues, NoFrame
  <2>2. ~Unblocking(frame[x].key)'
    BY <1>2, <2>1 DEF Blocks, WalksBlock, Unblocking
  <2>3. ASSUME pc'[x] = "walk", clients'[frame'[x].key] = frame'[x].cb
        PROVE  \A b \in BucketsOf(frame[x].cb)' \ frame'[x].todo : buckets'[b].blocked
    <3>1. x # p /\ frame'[x] = frame[x] /\ pc[x] = "walk"
      BY <1>1, <2>3 DEF Continues
    <3>2. BucketsOf(frame[x].cb)' = BucketsOf(frame[x].cb)
      BY <1>1, <3>1 DEF BucketsOf, Tiered
    <3>3. frame[x].cb \in Procs
      BY <3>1 DEF Base, TypeOK
    <3>4. \A b \in BucketsOf(frame[x].cb) \ frame[x].todo : buckets[b].blocked
      BY <1>1, <2>1, <2>3, <3>1 DEF Blocks, WalksBlock
    <3>5. QED
      BY <1>1, <3>1, <3>2, <3>3, <3>4, BucketsOfTypes
  <2>4. QED
    BY <2>2, <2>3
<1>6. BarredRequests'
  <2> SUFFICES ASSUME NEW x \in Procs, frame'[x].op = "allow", frame'[x].barred
               PROVE  /\ x # p /\ frame[x].key \in barred
                      /\ pc[x] \in {"lookup", "isBlocked"}
                      /\ pc[x] = "isBlocked" => frame[x].cb = clients[frame[x].key]
    BY <1>1, <1>3 DEF BarredRequests
  <2>1. frame[x].op = "allow" /\ frame[x].barred
    BY <1>1 DEF Continues, NoFrame
  <2>2. /\ frame[x].key \in barred
        /\ pc[x] \in {"lookup", "isBlocked"}
        /\ pc[x] = "isBlocked" => frame[x].cb = clients[frame[x].key]
    BY <2>1 DEF Blocks, BarredRequests
  <2>3. x # p
    <3> SUFFICES ASSUME x = p PROVE FALSE
      OBVIOUS
    <3>1. Continues(p)
      BY <1>1 DEF NoFrame
    <3>2. CASE pc[p] = "lookup"
      BY <2>2, <3>1, <3>2, BarredClient, NamesAssumption DEF Continues, Blocks
    <3>3. CASE pc[p] = "isBlocked"
      BY <2>2, <3>1, <3>3, BarredClient DEF Continues, Blocks, IsBlocked
    <3>4. QED
      BY <2>2, <3>2, <3>3
  <2>4. QED
    BY <2>2, <2>3
<1>7. QED
  BY <1>4, <1>5, <1>6 DEF Blocks

\* A request that finds its client under a block finds the blocked one.
LEMMA EntersBlocks ==
    ASSUME Base, Blocks, NEW p \in Procs, Enters(p)
    PROVE  Blocks'
<1>1. /\ UNCHANGED <<clients, tiers, buckets, barred>> /\ pc[p] \in {"lookup", "create"}
  BY DEF Enters
<1>2. /\ frame'[p].op = frame[p].op /\ \A q \in Procs \ {p} : frame'[q] = frame[q]
  BY EntersSteps
<1>3. /\ frame'[p].cb = clients[frame[p].key] /\ frame'[p].key = frame[p].key
      /\ frame'[p].barred = frame[p].barred
  <2>1. frame[p] \in Frames
    BY DEF Base, Locals
  <2>2. frame'[p] = [frame[p] EXCEPT !.cb = clients[frame[p].key]]
    BY EntersSteps
  <2>3. QED
    BY <2>1, <2>2 DEF Frames
<1>4. PICK l \in {"isBlocked", "configure", "lockTiers"} :
        pc' = [pc EXCEPT ![p] = l] /\ (l = "isBlocked" <=> frame[p].op = "allow")
  BY EntersSteps
<1>5. pc'[p] = l /\ \A q \in Procs \ {p} : pc'[q] = pc[q]
  BY <1>4 DEF Base, TypeOK
<1>6. \A k : Unblocking(k)' => Unblocking(k)
  BY <1>2, <1>3 DEF Unblocking, Procs
<1>7. BarredBlocked'
  BY <1>1, <1>6 DEF Blocks, BarredBlocked, Bucket
<1>8. WalksBlock'
  <2>1. \A x \in Procs : frame[x].op = "block" /\ frame[x].barred => ~Unblocking(frame[x].key)
    BY DEF Blocks, WalksBlock
  <2>2. \A x \in Procs : frame'[x].op = frame[x].op /\ frame'[x].barred = frame[x].barred
                         /\ frame'[x].key = frame[x].key
    BY <1>2, <1>3
  <2>3. \A x \in Procs : frame'[x].op = "block" /\ frame'[x].barred => ~Unblocking(frame[x].key)'
    BY <1>6, <2>1, <2>2 DEF Unblocking
  <2>4. \A x \in Procs : pc'[x] = "walk" => x # p /\ pc[x] = "walk" /\ frame'[x] = frame[x]
    BY <1>2, <1>4, <1>5
  <2>5. \A x \in Procs : BucketsOf(frame[x].cb)' = BucketsOf(frame'[x].cb)
    BY <1>1 DEF BucketsOf, Tiered
  <2>6. QED
    BY <1>1, <2>3, <2>4, <2>5 DEF Blocks, WalksBlock
<1>9. BarredRequests'
  BY <1>1, <1>2, <1>3, <1>4, <1>5 DEF Blocks, BarredRequests
<1>10. QED
  BY <1>7, <1>8, <1>9 DEF Blocks

\* A creation leaves the other clients alone, and the victim's block is over.
LEMMA CreatedBlocks ==
    ASSUME Base, Placed, Blocks, "evict" \in BlockEnds, NEW p \in Procs, NEW v, Created(p, v)
    PROVE  Blocks'
<1> DEFINE key == frame[p].key
<1>1. /\ clients' = [k \in Keys |-> IF k = key THEN p ELSE IF k = v THEN Nil ELSE clients[k]]
      /\ clients[key] = Nil /\ barred' = barred \ {v} /\ pc[p] = "create"
      /\ buckets' = [buckets EXCEPT ![<<p, "default">>] = Fresh(DefaultTier \in Refilling, frame[p].at)]
  BY DEF Created
<1>2. /\ frame'[p].op = frame[p].op /\ frame'[p].key = frame[p].key /\ key \in Keys
      /\ frame'[p].cb = p
      /\ \A c \in Procs, t \in Tiers : (c = p /\ t = DefaultTier) \/ tiers'[c][t] = tiers[c][t]
      /\ \A q \in Procs \ {p} :
            Kept(q) /\ frame'[q].barred =
                (frame[q].barred /\ ~("evict" \in BlockEnds /\ frame[q].key = v
                                      /\ frame[q].op = "allow"))
      /\ frame'[p].barred =
            (frame[p].barred /\ ~("evict" \in BlockEnds /\ frame[p].key = v
                                  /\ frame[p].op = "allow"))
  BY CreatedSteps
<1>3. PICK l \in {"isBlocked", "configure", "lockTiers"} : pc' = [pc EXCEPT ![p] = l]
  BY CreatedSteps
<1>4. pc'[p] = l /\ \A q \in Procs \ {p} : pc'[q] = pc[q]
  BY <1>3 DEF Base, TypeOK
<1>5. \A x \in Procs : /\ frame'[x].op = frame[x].op /\ frame'[x].key = frame[x].key
                       /\ frame'[x].barred => frame[x].barred
                       /\ frame'[x].barred /\ frame[x].op = "allow" => frame[x].key # v
  BY <1>2 DEF Kept
<1>6. \A k : Unblocking(k)' => Unblocking(k)
  BY <1>5 DEF Unblocking, Procs
<1>7. \A c \in Procs \ {p}, t \in Tiers : tiers'[c][t] = tiers[c][t]
  BY <1>2
<1>8. \A c \in Procs : \A b \in BucketsOf(c) : b \in BucketIds /\ buckets'[b] = buckets[b]
  <2>1. \A c \in Procs : <<p, "default">> \notin BucketsOf(c)
    BY <1>1 DEF Placed, BucketsPlaced, Early, BucketsOf, Tiered
  <2>2. QED
    <3>1. \A b \in BucketIds : b # <<p, "default">> => buckets'[b] = buckets[b]
      BY <1>1 DEF Base, TypeOK
    <3>2. QED
      BY <2>1, <3>1, BucketsOfTypes
<1>9. (\A k \in Keys : clients[k] # p) /\ (\A q \in Procs : frame[q].cb # p)
  BY <1>1 DEF Placed, ObjectsPlaced, Early
<1>10. \A k \in barred : /\ k \in Keys /\ clients[k] \in Procs \ {p} /\ k # key
                         /\ k # v => clients'[k] = clients[k]
  BY <1>1, <1>9, BarredClient, NamesAssumption DEF Blocks
<1>11. BarredBlocked'
  <2> SUFFICES ASSUME NEW k \in barred'
               PROVE  /\ clients'[k] # Nil /\ ~Unblocking(k)'
                      /\ buckets'[tiers'[clients'[k]][DefaultTier]].blocked
    BY DEF BarredBlocked, Bucket
  <2>1. k \in barred /\ clients'[k] = clients[k] /\ clients[k] \in Procs \ {p}
    BY <1>1, <1>10
  <2>2. /\ ~Unblocking(k) /\ tiers[clients[k]][DefaultTier] \in BucketsOf(clients[k])
        /\ buckets[tiers[clients[k]][DefaultTier]].blocked
    BY <2>1, BarredClient DEF Blocks, Bucket
  <2>3. tiers'[clients[k]][DefaultTier] = tiers[clients[k]][DefaultTier]
    BY <1>2, <2>1, TierAssumption
  <2>4. QED
    BY <1>6, <1>8, <2>1, <2>2, <2>3, NamesAssumption
<1>12. WalksBlock'
  <2> SUFFICES ASSUME NEW x \in Procs, frame'[x].op = "block", frame'[x].barred
               PROVE  /\ ~Unblocking(frame[x].key)'
                      /\ pc'[x] = "walk" /\ clients'[frame'[x].key] = frame'[x].cb =>
                            \A b \in BucketsOf(frame[x].cb)' \ frame'[x].todo : buckets'[b].blocked
    BY DEF WalksBlock
  <2>1. frame[x].op = "block" /\ frame[x].barred /\ frame'[x].key = frame[x].key
    BY <1>5
  <2>2. ~Unblocking(frame[x].key)'
    BY <1>6, <2>1 DEF Blocks, WalksBlock, Unblocking
  <2>3. ASSUME pc'[x] = "walk", clients'[frame'[x].key] = frame'[x].cb
        PROVE  \A b \in BucketsOf(frame[x].cb)' \ frame'[x].todo : buckets'[b].blocked
    <3>1. /\ x # p /\ pc[x] = "walk" /\ frame'[x].cb = frame[x].cb
          /\ frame'[x].todo = frame[x].todo
      BY <1>2, <1>3, <1>4, <2>3 DEF Kept
    <3>2. frame[x].cb \in Procs \ {p} /\ frame[x].key \in Keys
      BY <1>9, <3>1 DEF Base, TypeOK, Locals, Local
    <3>3. clients[frame[x].key] = frame[x].cb
      BY <1>1, <2>1, <2>3, <3>1, <3>2, NamesAssumption
    <3>4. BucketsOf(frame[x].cb)' = BucketsOf(frame[x].cb)
      BY <1>7, <3>1, <3>2 DEF BucketsOf, Tiered
    <3>5. \A b \in BucketsOf(frame[x].cb) \ frame[x].todo : buckets[b].blocked
      BY <2>1, <3>1, <3>3 DEF Blocks, WalksBlock
    <3>6. QED
      BY <1>8, <3>1, <3>2, <3>4, <3>5
  <2>4. QED
    BY <2>2, <2>3
<1>13. BarredRequests'
  <2> SUFFICES ASSUME NEW x \in Procs, frame'[x].op = "allow", frame'[x].barred
               PROVE  /\ frame'[x].key \in barred'
                      /\ pc'[x] \in {"lookup", "isBlocked"}
                      /\ pc'[x] = "isBlocked" => frame'[x].cb = clients'[frame'[x].key]
    BY DEF BarredRequests
  <2>1. frame[x].op = "allow" /\ frame[x].barred /\ frame[x].key # v /\ frame'[x].key = frame[x].key
    BY <1>5
  <2>2. /\ frame[x].key \in barred
        /\ pc[x] \in {"lookup", "isBlocked"}
        /\ pc[x] = "isBlocked" => frame[x].cb = clients[frame[x].key]
    BY <2>1 DEF Blocks, BarredRequests
  <2>3. x # p /\ pc'[x] = pc[x] /\ frame'[x].cb = frame[x].cb
    BY <1>1, <1>2, <1>4, <2>2 DEF Kept
  <2>4. QED
    BY <1>1, <1>10, <2>1, <2>2, <2>3
<1>14. QED
  BY <1>11, <1>12, <1>13 DEF Blocks

\* A request's Configure never replaces a default bucket; an update's ends the
\* block of its client.
LEMMA ConfigureBlocks ==
    ASSUME Base, Placed, Blocks, "update" \in BlockEnds, NEW p \in Procs, Configure(p)
    PROVE  Blocks'
<1> DEFINE cb == frame[p].cb
           tier == frame[p].tier
<1>1. /\ pc[p] = "configure" /\ cb \in Procs /\ ~Walking(cb) /\ UNCHANGED clients
      /\ frame[p].op \in {"allow", "update"}
      /\ \A b \in BucketIds : b # <<p, "tier">> => buckets'[b] = buckets[b]
      /\ \A c \in Procs, t \in Tiers : (c = cb /\ t = tier) \/ tiers'[c][t] = tiers[c][t]
      /\ \A q \in Procs : Kept(q)
      /\ \A q \in Procs : frame'[q].barred =
            (frame[q].barred /\ ~(frame[p].op = "update" /\ "update" \in BlockEnds
                                  /\ frame[q].key = frame[p].key /\ frame[q].op = "allow"))
      /\ barred' = {k \in barred : ~(frame[p].op = "update" /\ "update" \in BlockEnds
                                     /\ k = frame[p].key)}
  BY ConfigureSteps
<1>2. PICK l \in {"unschedule", "nextTime", "pick"} : pc' = [pc EXCEPT ![p] = l]
  BY ConfigureSteps
<1>3. pc'[p] = l /\ \A q \in Procs \ {p} : pc'[q] = pc[q]
  BY <1>2 DEF Base, TypeOK
<1>4. \A x \in Procs : /\ frame'[x].op = frame[x].op /\ frame'[x].key = frame[x].key
                       /\ frame'[x].cb = frame[x].cb /\ frame'[x].todo = frame[x].todo
                       /\ frame'[x].barred => frame[x].barred
                       /\ frame'[x].barred /\ frame[x].op = "allow" /\ frame[p].op = "update" =>
                            frame[x].key # frame[p].key
  BY <1>1 DEF Kept
<1>5. \A k : Unblocking(k)' => Unblocking(k)
  BY <1>4 DEF Unblocking, Procs
<1>6. \A c \in Procs : \A b \in BucketsOf(c) : b \in BucketIds /\ buckets'[b] = buckets[b]
  <2>1. \A c \in Procs : <<p, "tier">> \notin BucketsOf(c)
    BY <1>1 DEF Placed, BucketsPlaced, Unconfigured, BucketsOf, Tiered
  <2>2. QED
    BY <1>1, <2>1, BucketsOfTypes
<1>7. BarredBlocked'
  <2> SUFFICES ASSUME NEW k \in barred'
               PROVE  /\ clients'[k] # Nil /\ ~Unblocking(k)'
                      /\ buckets'[tiers'[clients'[k]][DefaultTier]].blocked
    BY DEF BarredBlocked, Bucket
  <2>1. k \in barred /\ ~(frame[p].op = "update" /\ k = frame[p].key)
    BY <1>1
  <2>2. /\ ~Unblocking(k) /\ tiers[clients[k]][DefaultTier] \in BucketsOf(clients[k])
        /\ buckets[tiers[clients[k]][DefaultTier]].blocked
        /\ clients[k] \in Procs /\ k \in Keys
    BY <2>1, BarredClient DEF Blocks, Bucket
  <2>3. tiers'[clients[k]][DefaultTier] = tiers[clients[k]][DefaultTier]
    <3>1. CASE clients[k] = cb
      <4>1. frame[p].key = k
        BY <2>2, <3>1, NamesAssumption DEF Placed, ObjectsPlaced
      <4>2. frame[p].op = "allow" /\ tier # DefaultTier
        BY <1>1, <2>1, <4>1 DEF Base, Locals, Local
      <4>3. QED
        BY <1>1, <2>2, <4>2, TierAssumption
    <3>2. CASE clients[k] # cb
      BY <1>1, <2>2, <3>2, TierAssumption
    <3>3. QED
      BY <3>1, <3>2
  <2>4. QED
    BY <1>1, <1>5, <1>6, <2>2, <2>3, NamesAssumption
<1>8. WalksBlock'
  <2> SUFFICES ASSUME NEW x \in Procs, frame'[x].op = "block", frame'[x].barred
               PROVE  /\ ~Unblocking(frame[x].key)'
                      /\ pc'[x] = "walk" /\ clients'[frame'[x].key] = frame'[x].cb =>
                            \A b \in BucketsOf(frame[x].cb)' \ frame'[x].todo : buckets'[b].blocked
    BY DEF WalksBlock
  <2>1. frame[x].op = "block" /\ frame[x].barred
    BY <1>4
  <2>2. ~Unblocking(frame[x].key)'
    BY <1>4, <1>5, <2>1 DEF Blocks, WalksBlock, Unblocking
  <2>3. ASSUME pc'[x] = "walk", clients'[frame'[x].key] = frame'[x].cb
        PROVE  \A b \in BucketsOf(frame[x].cb)' \ frame'[x].todo : buckets'[b].blocked
    <3>1. x # p /\ pc[x] = "walk" /\ frame[x].cb # cb
      BY <1>1, <1>2, <1>3, <2>3 DEF Walking
    <3>2. frame[x].cb \in Procs
      BY <3>1 DEF Base, TypeOK
    <3>3. BucketsOf(frame[x].cb)' = BucketsOf(frame[x].cb)
      BY <1>1, <1>4, <3>1, <3>2 DEF BucketsOf, Tiered
    <3>4. \A b \in BucketsOf(frame[x].cb) \ frame[x].todo : buckets[b].blocked
      BY <1>1, <1>4, <2>1, <2>3, <3>1 DEF Blocks, WalksBlock
    <3>5. QED
      BY <1>4, <1>6, <3>2, <3>3, <3>4
  <2>4. QED
    BY <2>2, <2>3
<1>9. BarredRequests'
  <2> SUFFICES ASSUME NEW x \in Procs, frame'[x].op = "allow", frame'[x].barred
               PROVE  /\ frame'[x].key \in barred'
                      /\ pc'[x] \in {"lookup", "isBlocked"}
                      /\ pc'[x] = "isBlocked" => frame'[x].cb = clients'[frame'[x].key]
    BY DEF BarredRequests
  <2>1. frame[x].op = "allow" /\ frame[x].barred
    BY <1>4
  <2>2. /\ frame[x].key \in barred
        /\ pc[x] \in {"lookup", "isBlocked"}
        /\ pc[x] = "isBlocked" => frame[x].cb = clients[frame[x].key]
    BY <2>1 DEF Blocks, BarredRequests
  <2>3. x # p /\ pc'[x] = pc[x]
    BY <1>1, <1>3, <2>2
  <2>4. frame[x].key \in barred'
    BY <1>1, <1>4, <2>1, <2>2
  <2>5. QED
    BY <1>1, <1>4, <2>2, <2>3, <2>4
<1>10. QED
  BY <1>7, <1>8, <1>9 DEF Blocks

\* Only an Unblock that overlaps the block unblocks a bucket of its client.
LEMMA WalkBlocks ==
    ASSUME Base, Placed, Blocks, NEW a \in Procs, Walk(a)
    PROVE  Blocks'
<1>1. /\ UNCHANGED <<clients, tiers, pc, barred>> /\ pc[a] = "walk" /\ frame[a].cb \in Procs
      /\ frame[a].op \in {"block", "unblock"}
  BY DEF Walk, Base, TypeOK, Locals, Local
<1>2. BucketsPlaced
  BY DEF Placed
<1>3. PICK b \in frame[a].todo :
        /\ b \in BucketsOf(frame[a].cb) /\ b \in BucketIds
        /\ \A d \in BucketIds : d # b => buckets'[d] = buckets[d]
        /\ buckets'[b].blocked = (frame[a].op = "block")
        /\ \A q \in Procs \ {a} : frame'[q] = frame[q]
        /\ frame'[a].op = frame[a].op /\ frame'[a].key = frame[a].key
        /\ frame'[a].cb = frame[a].cb /\ frame'[a].barred = frame[a].barred
        /\ frame'[a].todo = frame[a].todo \ {b}
  BY <1>2, WalkSteps
<1>4. \A x \in Procs : /\ frame'[x].op = frame[x].op /\ frame'[x].key = frame[x].key
                       /\ frame'[x].cb = frame[x].cb /\ frame'[x].barred = frame[x].barred
                       /\ frame[x].todo \ {b} \subseteq frame'[x].todo
                       /\ x # a => frame'[x].todo = frame[x].todo
  BY <1>3
<1>5. \A k : Unblocking(k)' => Unblocking(k)
  BY <1>4 DEF Unblocking, Procs
<1>6. ASSUME NEW k \in Keys, ~Unblocking(k), clients[k] \in Procs, NEW d \in BucketsOf(clients[k]),
             buckets[d].blocked
      PROVE  buckets'[d].blocked
  <2>1. CASE d # b
    BY <1>3, <1>6, <2>1, BucketsOfTypes
  <2>2. CASE d = b
    <3>1. clients[k] = frame[a].cb
      BY <1>1, <1>2, <1>3, <1>6, <2>2, OneOwner
    <3>2. frame[a].key = k
      BY <1>6, <3>1, NamesAssumption DEF Placed, ObjectsPlaced
    <3>3. frame[a].op # "unblock"
      BY <1>6, <3>2 DEF Unblocking, Base, Locals, Procs
    <3>4. QED
      BY <1>1, <1>3, <2>2, <3>3
  <2>3. QED
    BY <2>1, <2>2
<1>7. BarredBlocked'
  BY <1>1, <1>5, <1>6, BarredClient, NamesAssumption DEF Blocks, BarredBlocked, Bucket
<1>8. WalksBlock'
  <2> SUFFICES ASSUME NEW x \in Procs, frame'[x].op = "block", frame'[x].barred
               PROVE  /\ ~Unblocking(frame[x].key)'
                      /\ pc'[x] = "walk" /\ clients'[frame'[x].key] = frame'[x].cb =>
                            \A d \in BucketsOf(frame[x].cb)' \ frame'[x].todo : buckets'[d].blocked
    BY DEF WalksBlock
  <2>1. frame[x].op = "block" /\ frame[x].barred /\ ~Unblocking(frame[x].key)
    BY <1>4 DEF Blocks, WalksBlock
  <2>2. ~Unblocking(frame[x].key)'
    BY <1>4, <1>5, <2>1 DEF Unblocking
  <2>3. ASSUME pc'[x] = "walk", clients'[frame'[x].key] = frame'[x].cb
        PROVE  \A d \in BucketsOf(frame[x].cb)' \ frame'[x].todo : buckets'[d].blocked
    <3>1. pc[x] = "walk" /\ clients[frame[x].key] = frame[x].cb /\ frame[x].cb \in Procs
          /\ frame[x].key \in Keys
      BY <1>1, <1>4, <2>3 DEF Base, TypeOK, Locals, Local
    <3>2. BucketsOf(frame[x].cb)' = BucketsOf(frame[x].cb)
      BY <1>1, <1>4 DEF BucketsOf, Tiered
    <3>3. \A d \in BucketsOf(frame[x].cb) \ frame[x].todo : buckets[d].blocked
      BY <2>1, <3>1 DEF Blocks, WalksBlock
    <3>4. \A d \in BucketsOf(frame[x].cb) \ frame[x].todo : buckets'[d].blocked
      BY <1>6, <2>1, <3>1, <3>3
    <3>5. x = a => buckets'[b].blocked
      BY <1>3, <2>1
    <3>6. \A d : d \notin frame'[x].todo => d \notin frame[x].todo \/ (x = a /\ d = b)
      BY <1>4
    <3>7. QED
      BY <3>2, <3>4, <3>5, <3>6
  <2>4. QED
    BY <2>2, <2>3
<1>9. BarredRequests'
  BY <1>1, <1>4 DEF Blocks, BarredRequests
<1>10. QED
  BY <1>7, <1>8, <1>9 DEF Blocks

\* A walk that starts has everything before it.
LEMMA LockBlocks ==
    ASSUME Base, Blocks, NEW a \in Procs, LockTiers(a)
    PROVE  Blocks'
<1>1. UNCHANGED <<clients, tiers, buckets, barred>>
  BY DEF LockTiers
<1>2. /\ pc[a] = "lockTiers" /\ pc' = [pc EXCEPT ![a] = "walk"]
      /\ \A q \in Procs \ {a} : frame'[q] = frame[q]
      /\ frame'[a].op = frame[a].op /\ frame'[a].key = frame[a].key
      /\ frame'[a].cb = frame[a].cb /\ frame'[a].barred = frame[a].barred
      /\ frame'[a].todo = BucketsOf(frame[a].cb)
  BY LockSteps
<1>3. pc'[a] = "walk" /\ \A q \in Procs \ {a} : pc'[q] = pc[q]
  BY <1>2 DEF Base, TypeOK
<1>4. \A x \in Procs : /\ frame'[x].op = frame[x].op /\ frame'[x].key = frame[x].key
                       /\ frame'[x].cb = frame[x].cb /\ frame'[x].barred = frame[x].barred
  BY <1>2
<1>5. \A k : Unblocking(k)' => Unblocking(k)
  BY <1>4 DEF Unblocking, Procs
<1>6. BarredBlocked'
  BY <1>1, <1>5 DEF Blocks, BarredBlocked, Bucket
<1>7. WalksBlock'
  <2>1. \A x \in Procs : BucketsOf(frame[x].cb)' = BucketsOf(frame[x].cb)
    BY <1>1, <1>4 DEF BucketsOf, Tiered
  <2>2. \A x \in Procs : frame[x].op = "block" /\ frame[x].barred => ~Unblocking(frame[x].key)'
    BY <1>4, <1>5 DEF Blocks, WalksBlock, Unblocking
  <2>3. \A x \in Procs \ {a} : frame[x].op = "block" /\ frame[x].barred /\ pc'[x] = "walk"
            /\ clients'[frame'[x].key] = frame'[x].cb =>
                \A d \in BucketsOf(frame[x].cb) \ frame'[x].todo : buckets'[d].blocked
    BY <1>1, <1>2, <1>3 DEF Blocks, WalksBlock
  <2>4. \A d \in BucketsOf(frame[a].cb) \ frame'[a].todo : buckets'[d].blocked
    BY <1>2
  <2>5. QED
    BY <1>4, <2>1, <2>2, <2>3, <2>4 DEF WalksBlock
<1>8. BarredRequests'
  BY <1>1, <1>2, <1>3, <1>4 DEF Blocks, BarredRequests
<1>9. QED
  BY <1>6, <1>7, <1>8 DEF Blocks

\* An Unblock that begins ends the block; requests that begin note whether they
\* are under one.
LEMMA BeginBlocks ==
    ASSUME Base, Blocks, NEW p \in Procs, NEW op \in {"allow", "block", "unblock", "update"},
           NEW k \in Keys, NEW t \in Tiers, NEW f, f \in BOOLEAN, Begin(p, op, k, t, f)
    PROVE  Blocks'
<1>1. /\ pc[p] = "start" /\ pc' = [pc EXCEPT ![p] = "lookup"]
      /\ frame'[p].op = op /\ frame'[p].key = k
      /\ frame'[p].barred => \/ op = "allow" /\ k \in barred
                             \/ op = "block" /\ ~Unblocking(k)
      /\ \A q \in Procs \ {p} :
            /\ Kept(q)
            /\ frame'[q].barred => frame[q].barred /\ ~(op = "unblock" /\ frame[q].key = k
                                                    /\ frame[q].op \in {"allow", "block"})
      /\ barred' = {j \in barred : ~(op = "unblock" /\ j = k)}
      /\ UNCHANGED <<clients, tiers, buckets>>
  BY BeginSteps
<1>2. pc'[p] = "lookup" /\ \A q \in Procs \ {p} : pc'[q] = pc[q]
  BY <1>1 DEF Base, TypeOK
<1>3. \A q \in Procs \ {p} :
        /\ frame'[q].op = frame[q].op /\ frame'[q].key = frame[q].key
        /\ frame'[q].cb = frame[q].cb /\ frame'[q].todo = frame[q].todo
  BY <1>1 DEF Kept
<1>4. \A j : Unblocking(j)' => Unblocking(j) \/ (op = "unblock" /\ j = k)
  BY <1>1, <1>3 DEF Unblocking, Procs
<1>5. BarredBlocked'
  BY <1>1, <1>4 DEF Blocks, BarredBlocked, Bucket
<1>6. WalksBlock'
  <2> SUFFICES ASSUME NEW x \in Procs, frame'[x].op = "block", frame'[x].barred
               PROVE  /\ ~Unblocking(frame[x].key)'
                      /\ pc'[x] = "walk" /\ clients'[frame'[x].key] = frame'[x].cb =>
                            \A d \in BucketsOf(frame[x].cb)' \ frame'[x].todo : buckets'[d].blocked
    BY DEF WalksBlock
  <2>1. CASE x = p
    <3>1. op = "block" /\ ~Unblocking(k) /\ frame'[x].key = k
      BY <1>1, <2>1
    <3>2. ~Unblocking(frame[x].key)'
      BY <1>4, <3>1 DEF Unblocking
    <3>3. QED
      BY <1>2, <2>1, <3>2
  <2>2. CASE x # p
    <3>1. frame[x].op = "block" /\ frame[x].barred /\ ~(op = "unblock" /\ frame[x].key = k)
      BY <1>1, <1>3, <2>2
    <3>2. ~Unblocking(frame[x].key)'
      <4>1. ~Unblocking(frame[x].key)
        BY <3>1 DEF Blocks, WalksBlock
      <4>2. frame'[x].key = frame[x].key
        BY <1>3, <2>2
      <4>3. QED
        BY <1>4, <3>1, <4>1, <4>2 DEF Unblocking
    <3>3. BucketsOf(frame[x].cb)' = BucketsOf(frame[x].cb)
      BY <1>1, <1>3, <2>2 DEF BucketsOf, Tiered
    <3>4. QED
      BY <1>1, <1>2, <1>3, <2>2, <3>1, <3>2, <3>3 DEF Blocks, WalksBlock
  <2>3. QED
    BY <2>1, <2>2
<1>7. BarredRequests'
  <2> SUFFICES ASSUME NEW x \in Procs, frame'[x].op = "allow", frame'[x].barred
               PROVE  /\ frame'[x].key \in barred'
                      /\ pc'[x] \in {"lookup", "isBlocked"}
                      /\ pc'[x] = "isBlocked" => frame'[x].cb = clients'[frame'[x].key]
    BY DEF BarredRequests
  <2>1. CASE x = p
    BY <1>1, <1>2, <2>1
  <2>2. CASE x # p
    <3>1. frame[x].op = "allow" /\ frame[x].barred /\ ~(op = "unblock" /\ frame[x].key = k)
      BY <1>1, <1>3, <2>2
    <3>2. /\ frame[x].key \in barred
          /\ pc[x] \in {"lookup", "isBlocked"}
          /\ pc[x] = "isBlocked" => frame[x].cb = clients[frame[x].key]
      BY <3>1 DEF Blocks, BarredRequests
    <3>3. QED
      BY <1>1, <1>2, <1>3, <2>2, <3>1, <3>2
  <2>3. QED
    BY <2>1, <2>2
<1>8. QED
  BY <1>5, <1>6, <1>7 DEF Blocks

\* Every step keeps blocked clients blocked until something ends the block.
LEMMA BlocksStep ==
    ASSUME {"update", "evict"} \subseteq BlockEnds, Base, Placed, Blocks, [Next]_vars
    PROVE  Blocks'
<1>1. ASSUME NEW p \in Procs, Act(p) PROVE Blocks'
  BY <1>1, ActKinds, EntersBlocks, CreatedBlocks, ConfigureBlocks, LockBlocks, WalkBlocks, PlainBlocks
<1>2. ASSUME NEW r \in Requests, Request(r) PROVE Blocks'
  <2>1. r \in Procs
    BY DEF Procs
  <2>2. QED
    BY <1>2, <2>1, Beginnings, BeginBlocks
<1>3. ASSUME NEW a \in Admins, AdminCall(a) PROVE Blocks'
  <2>1. PICK op \in {"block", "unblock", "update"}, k \in Keys, t \in Tiers,
             f \in {TRUE} \cup NewRefills : Begin(a, op, k, t, f)
    BY <1>3, Beginnings
  <2>2. f \in BOOLEAN /\ a \in Procs
    BY OpsAssumption DEF Procs
  <2>3. QED
    BY <2>1, <2>2, BeginBlocks
<1>4. CASE UNCHANGED <<clients, tiers, buckets, pc, frame, barred>>
  BY <1>4 DEF Blocks, BarredBlocked, WalksBlock, BarredRequests, BucketsOf, Tiered, Bucket, Unblocking
<1>5. QED
  BY <1>1, <1>2, <1>3, <1>4, Steps, FiringBase DEF Arrive, Callbacks, vars
-----------------------------------------------------------------------------
(* Coverage, where updates do not turn refill off.                         *)

\* Every step leaves objects that are not created yet without buckets.
LEMMA UnfilledStep == Base /\ Placed /\ Unfilled /\ [Next]_vars => Unfilled'
<1> SUFFICES ASSUME Base, Placed, Unfilled, [Next]_vars PROVE Unfilled'
  OBVIOUS
<1>1. ASSUME NEW p \in Procs, \A q \in Procs \ {p} : pc'[q] = pc[q],
             pc'[p] \in Early => pc[p] \in Early, UNCHANGED tiers
      PROVE  Unfilled'
  BY <1>1 DEF Unfilled
<1>2. ASSUME NEW p \in Procs, Enters(p) PROVE Unfilled'
  <2>1. PICK l \in {"isBlocked", "configure", "lockTiers"} : pc' = [pc EXCEPT ![p] = l]
    BY <1>2, EntersSteps
  <2>2. UNCHANGED tiers
    BY <1>2 DEF Enters
  <2>3. QED
    BY <1>1, <2>1, <2>2 DEF Base, TypeOK, Early
<1>3. ASSUME NEW p \in Procs, NEW v \in Victims, Created(p, v) PROVE Unfilled'
  <2>1. PICK l \in {"isBlocked", "configure", "lockTiers"} : pc' = [pc EXCEPT ![p] = l]
    BY <1>3, CreatedSteps
  <2>2. pc'[p] \notin Early /\ \A q \in Procs \ {p} : pc'[q] = pc[q]
    BY <2>1 DEF Base, TypeOK, Early
  <2>3. \A c \in Procs, t \in Tiers : (c = p /\ t = DefaultTier) \/ tiers'[c][t] = tiers[c][t]
    BY <1>3, CreatedSteps
  <2>4. QED
    BY <2>2, <2>3 DEF Unfilled
<1>4. ASSUME NEW p \in Procs, Configure(p) PROVE Unfilled'
  <2>1. PICK l \in {"unschedule", "nextTime", "pick"} : pc' = [pc EXCEPT ![p] = l]
    BY <1>4, ConfigureSteps
  <2>2. pc'[p] \notin Early /\ \A q \in Procs \ {p} : pc'[q] = pc[q]
    BY <2>1 DEF Base, TypeOK, Early
  <2>3. /\ frame[p].cb \in Procs
        /\ \A c \in Procs, t \in Tiers :
            (c = frame[p].cb /\ t = frame[p].tier) \/ tiers'[c][t] = tiers[c][t]
    BY <1>4, ConfigureSteps
  <2>4. pc[frame[p].cb] \notin Early
    BY <2>3 DEF Placed, ObjectsPlaced
  <2>5. QED
    BY <2>2, <2>3, <2>4 DEF Unfilled
<1>5. ASSUME NEW p \in Procs, LockTiers(p) \/ Walk(p) PROVE Unfilled'
  BY <1>1, <1>5 DEF LockTiers, Walk, Goto, Base, TypeOK, Early
<1>6. ASSUME NEW p \in Procs, Plain(p) PROVE Unfilled'
  <2>1. pc'[p] \in Early => pc[p] \in Early
    BY <1>6, PlainSteps DEF Continues, Early
  <2>2. QED
    BY <1>1, <1>6, <2>1, PlainSteps
<1>7. CASE Arrive
  <2>1. PICK p \in Procs : pc[p] = "start" /\ pc' = [pc EXCEPT ![p] = "lookup"] /\ UNCHANGED tiers
    BY <1>7 DEF Arrive, Request, AdminCall, Begin, Goto, Procs
  <2>2. QED
    BY <1>1, <2>1 DEF Base, TypeOK, Early
<1>8. CASE UNCHANGED <<tiers, pc>>
  BY <1>8 DEF Unfilled
<1>9. QED
  BY <1>2, <1>3, <1>4, <1>5, <1>6, <1>7, <1>8, Steps, ActKinds, FiringBase DEF Callbacks, vars

\* An id stays covered where its entry, the goroutines that schedule and
\* processDue's batch stay as they are.
LEMMA StillCovered ==
    ASSUME NEW i, IdCovered(i), UNCHANGED firing, sched'[i] = sched[i],
           \A q \in Procs : Scheduling(q) =>
                pc'[q] = pc[q] /\ frame'[q].key = frame[q].key /\ frame'[q].tier = frame[q].tier,
           Bucket(firing.cb, i[2]) # Nil => Bucket(firing.cb, i[2])' # Nil
    PROVE  IdCovered(i)'
<1>1. CASE sched[i] # "none"
  BY <1>1 DEF IdCovered
<1>2. ASSUME NEW q \in Procs, Scheduling(q), Id(q) = i PROVE IdCovered(i)'
  BY <1>2 DEF IdCovered, Scheduling, Id
<1>3. CASE InBatch(i)
  BY <1>3 DEF IdCovered, InBatch, Bucket
<1>4. QED
  BY <1>1, <1>2, <1>3 DEF IdCovered

\* No bucket changes whether it refills.
SameRefills == \A b \in BucketIds : buckets'[b].refills = buckets[b].refills

\* Coverage where the buckets stay where they are.
LEMMA StillAllCovered ==
    ASSUME Base, AllCovered, UNCHANGED <<clients, tiers>>, SameRefills,
           \A p \in Procs : frame'[p].op = "update" => frame'[p].refills,
           \A i \in Ids : IdCovered(i) => IdCovered(i)'
    PROVE  AllCovered'
<1>1. ASSUME NEW k \in Keys, clients[k] # Nil, NEW t \in Tiers, tiers[clients[k]][t] # Nil,
             buckets'[tiers[clients[k]][t]].refills
      PROVE  IdCovered(<<k, t>>)'
  <2>1. tiers[clients[k]][t] \in BucketIds
    BY <1>1 DEF Base, TypeOK, Objects, BucketRefs
  <2>2. buckets[tiers[clients[k]][t]].refills
    BY <1>1, <2>1 DEF SameRefills
  <2>3. IdCovered(<<k, t>>)
    BY <1>1, <2>2 DEF AllCovered, Tiered, Bucket
  <2>4. QED
    BY <2>3 DEF Ids
<1>2. QED
  BY <1>1 DEF AllCovered, Tiered, Bucket

\* Plain steps: an Unschedule is followed by a Schedule.
LEMMA PlainCovers ==
    ASSUME Base, AllCovered, NEW p \in Procs, Plain(p)
    PROVE  AllCovered'
<1>1. /\ UNCHANGED <<clients, tiers, firing>>
      /\ \A q \in Procs \ {p} : pc'[q] = pc[q] /\ frame'[q] = frame[q]
      /\ (pc'[p] = "done" /\ frame'[p] = NoFrame) \/ Continues(p)
  BY PlainSteps
<1>2. /\ \A x \in Procs : frame'[x].op = "update" => frame'[x].refills
      /\ SameRefills
  <2>1. \A x \in Procs : frame'[x].op = "update" => frame'[x].refills
    BY <1>1 DEF AllCovered, Continues, NoFrame
  <2>2. SameRefills
    <3>1. CASE Take(p, TRUE) \/ Take(p, FALSE)
      <4>1. buckets' = [buckets EXCEPT ![frame[p].bkt].used = frame[p].at]
        BY <3>1 DEF Take
      <4>2. QED
        BY <4>1 DEF SameRefills, Base, TypeOK
    <3>2. CASE UNCHANGED buckets
      BY <3>2 DEF SameRefills
    <3>3. QED
      BY <3>1, <3>2 DEF Plain, Lookup, CheckBlocked, EnsureTier, Unschedule, NextTime, Schedule,
                        Pick, TakeBlocked, Respond, WalkDone
  <2>3. QED
    BY <2>1, <2>2
<1>3. ASSUME NEW i \in Ids, IdCovered(i) PROVE IdCovered(i)'
  <2>1. Bucket(firing.cb, i[2]) # Nil => Bucket(firing.cb, i[2])' # Nil
    BY <1>1 DEF Bucket
  <2>2. CASE Unschedule(p)
    <3>1. /\ pc'[p] = "nextTime" /\ UNCHANGED frame /\ pc[p] = "unschedule"
          /\ sched' = [sched EXCEPT ![Id(p)] = "none"]
      BY <2>2 DEF Unschedule, Goto, AllCovered, Base, TypeOK, Locals, Local
    <3>2. \A q \in Procs : Scheduling(q) => Scheduling(q)' /\ Id(q)' = Id(q)
      BY <1>1, <3>1 DEF Scheduling, Id
    <3>3. Scheduling(p)
      BY <3>1 DEF Scheduling
    <3>4. CASE i = Id(p)
      BY <3>2, <3>3, <3>4 DEF IdCovered
    <3>5. CASE i # Id(p)
      <4>1. sched'[i] = sched[i]
        BY <3>1, <3>5 DEF Base, TypeOK
      <4>2. InBatch(i) => InBatch(i)'
        BY <1>1 DEF InBatch, Bucket
      <4>3. QED
        BY <1>3, <3>2, <4>1, <4>2 DEF IdCovered
    <3>6. QED
      BY <3>4, <3>5
  <2>3. CASE NextTime(p)
    <3>1. pc[p] = "nextTime" /\ pc'[p] = "schedule" /\ UNCHANGED sched
      BY <2>3 DEF NextTime, Goto, Base, TypeOK
    <3>2. frame'[p].key = frame[p].key /\ frame'[p].tier = frame[p].tier
      BY <1>1, <3>1 DEF Continues
    <3>3. \A q \in Procs : Scheduling(q) => Scheduling(q)' /\ Id(q)' = Id(q)
      BY <1>1, <3>1, <3>2 DEF Scheduling, Id
    <3>4. InBatch(i) => InBatch(i)'
      BY <1>1 DEF InBatch, Bucket
    <3>5. QED
      BY <1>3, <3>1, <3>3, <3>4 DEF IdCovered
  <2>4. CASE Schedule(p)
    <3>1. /\ pc[p] = "schedule" /\ sched' = [sched EXCEPT ![Id(p)] = frame[p].next]
          /\ frame[p].next # "none"
      BY <2>4 DEF Schedule, Base, Locals, Local
    <3>2. CASE i = Id(p)
      BY <3>1, <3>2 DEF IdCovered, Base, TypeOK
    <3>3. CASE i # Id(p)
      <4>1. sched'[i] = sched[i]
        BY <3>1, <3>3 DEF Base, TypeOK
      <4>2. InBatch(i) => InBatch(i)'
        BY <1>1 DEF InBatch, Bucket
      <4>3. \A q \in Procs : Scheduling(q) /\ Id(q) = i => Scheduling(q)' /\ Id(q)' = i
        BY <1>1, <3>3 DEF Scheduling, Id
      <4>4. QED
        BY <1>3, <4>1, <4>2, <4>3 DEF IdCovered
    <3>4. QED
      BY <3>2, <3>3
  <2>5. CASE ~Unschedule(p) /\ ~NextTime(p) /\ ~Schedule(p)
    <3>1. sched' = sched /\ ~Scheduling(p)
      BY <2>5 DEF Plain, Lookup, CheckBlocked, EnsureTier, Pick, TakeBlocked, Take, Respond,
                  WalkDone, Scheduling
    <3>2. QED
      BY <1>1, <1>3, <2>1, <3>1, StillCovered
  <2>6. QED
    BY <2>2, <2>3, <2>4, <2>5
<1>4. QED
  BY <1>1, <1>2, <1>3, StillAllCovered

\* Steps that neither schedule nor create.
LEMMA OtherCovers ==
    ASSUME Base, AllCovered, NEW p \in Procs,
           \A q \in Procs \ {p} : pc'[q] = pc[q] /\ Kept(q),
           ~Scheduling(p), frame'[p].op = "update" => frame'[p].refills,
           UNCHANGED <<clients, tiers, sched, firing>>, SameRefills
    PROVE  AllCovered'
<1>1. \A q \in Procs : Scheduling(q) =>
        pc'[q] = pc[q] /\ frame'[q].key = frame[q].key /\ frame'[q].tier = frame[q].tier
  BY DEF Kept
<1>2. \A q \in Procs : frame'[q].op = "update" => frame'[q].refills
  BY DEF Kept, AllCovered
<1>3. ASSUME NEW i \in Ids, IdCovered(i) PROVE IdCovered(i)'
  <2>1. Bucket(firing.cb, i[2]) # Nil => Bucket(firing.cb, i[2])' # Nil
    BY DEF Bucket
  <2>2. QED
    BY <1>1, <1>3, <2>1, StillCovered
<1>4. QED
  BY <1>2, <1>3, StillAllCovered

\* A goroutine finds its client, or walks over its buckets.
LEMMA OwnCovers ==
    ASSUME Base, BucketsPlaced, AllCovered, NEW p \in Procs, Enters(p) \/ LockTiers(p) \/ Walk(p)
    PROVE  AllCovered'
<1>1. UNCHANGED <<clients, tiers, sched, firing>> /\ ~Scheduling(p)
  BY DEF Enters, LockTiers, Walk, Scheduling
<1>2. \A q \in Procs \ {p} : pc'[q] = pc[q]
  BY DEF Enters, Entered, LockTiers, Walk, Goto, Base, TypeOK
<1>3. \A q \in Procs \ {p} : frame'[q] = frame[q]
  BY EntersSteps, LockSteps, WalkSteps
<1>4. frame'[p].op = frame[p].op /\ frame'[p].refills = frame[p].refills /\ SameRefills
  <2>1. frame[p] \in Frames
    BY DEF Base, Locals
  <2>2. CASE Enters(p)
    <3>1. frame'[p] = [frame[p] EXCEPT !.cb = clients[frame[p].key]]
      BY <2>2, EntersSteps
    <3>2. QED
      BY <2>1, <2>2, <3>1 DEF Frames, Enters, SameRefills
  <2>3. CASE LockTiers(p)
    BY <2>3, LockSteps DEF LockTiers, SameRefills
  <2>4. CASE Walk(p)
    <3>1. PICK b : /\ frame'[p] = [frame[p] EXCEPT !.todo = frame[p].todo \ {b}]
                   /\ buckets'[b].refills = buckets[b].refills
                   /\ \A d \in BucketIds : d # b => buckets'[d] = buckets[d]
      BY <2>4, WalkSteps
    <3>2. QED
      BY <2>1, <3>1 DEF Frames, SameRefills
  <2>5. QED
    BY <2>2, <2>3, <2>4
<1>5. \A q \in Procs \ {p} : Kept(q)
  BY <1>3 DEF Kept
<1>6. frame'[p].op = "update" => frame'[p].refills
  BY <1>4 DEF AllCovered
<1>7. QED
  BY <1>1, <1>2, <1>4, <1>5, <1>6, OtherCovers

\* A creation schedules the default tier, the only one the client has; of the
\* others only the victim loses its entries.
LEMMA CreatedCovers ==
    ASSUME Base, Placed, Unfilled, AllCovered, NEW p \in Procs, NEW v, Created(p, v)
    PROVE  AllCovered'
<1> DEFINE key == frame[p].key
<1>1. /\ clients' = [k \in Keys |-> IF k = key THEN p ELSE IF k = v THEN Nil ELSE clients[k]]
      /\ sched' = [i \in Ids |->
             IF i = <<key, DefaultTier>> /\ DefaultTier \in Refilling THEN "later"
             ELSE IF i[1] = v /\ i[2] \in Tiered(clients[v]) THEN "none"
             ELSE sched[i]]
      /\ pc[p] = "create" /\ UNCHANGED firing
      /\ buckets' = [buckets EXCEPT ![<<p, "default">>] = Fresh(DefaultTier \in Refilling, frame[p].at)]
  BY DEF Created
<1>2. /\ key \in Keys
      /\ tiers'[p][DefaultTier] = <<p, "default">>
      /\ \A c \in Procs, t \in Tiers : (c = p /\ t = DefaultTier) \/ tiers'[c][t] = tiers[c][t]
      /\ \A q \in Procs \ {p} : Kept(q)
      /\ frame'[p].op = frame[p].op
  BY CreatedSteps
<1>3. PICK l \in {"isBlocked", "configure", "lockTiers"} : pc' = [pc EXCEPT ![p] = l]
  BY CreatedSteps
<1>4. pc'[p] = l /\ \A q \in Procs \ {p} : pc'[q] = pc[q]
  BY <1>3 DEF Base, TypeOK
<1>5. \A x \in Procs : frame'[x].op = "update" => frame'[x].refills
  <2>1. \A x \in Procs : Released(frame, IF "evict" \in BlockEnds THEN {v} ELSE {}, {"allow"})[x].refills
                         = frame[x].refills
    BY ReleasedTypes DEF Base, Locals
  <2> DEFINE f == Released(frame, IF "evict" \in BlockEnds THEN {v} ELSE {}, {"allow"})
  <2>2. f \in [Procs -> Frames] /\ frame' = [f EXCEPT ![p].cb = p]
    BY ReleasedTypes DEF Created, Entered, Base, Locals
  <2>3. f[p].refills = frame[p].refills
    BY <2>1
  <2> HIDE DEF f
  <2>4. frame'[p].refills = f[p].refills
    BY <2>2 DEF Frames
  <2>5. QED
    BY <1>2, <2>3, <2>4 DEF Kept, AllCovered
<1>6. \A t \in Tiers : tiers[p][t] = Nil
  BY <1>1 DEF Unfilled, Early
<1>7. \A k \in Keys : clients[k] # p
  BY <1>1 DEF Placed, ObjectsPlaced, Early
<1>8. ASSUME NEW k \in Keys, clients'[k] # Nil, NEW t \in Tiers, tiers'[clients'[k]][t] # Nil,
             buckets'[tiers'[clients'[k]][t]].refills
      PROVE  IdCovered(<<k, t>>)'
  <2>1. CASE k = key
    <3>1. t = DefaultTier
      BY <1>1, <1>2, <1>6, <1>8, <2>1
    <3>2. buckets'[<<p, "default">>].refills = (DefaultTier \in Refilling)
      BY <1>1 DEF Fresh, Base, TypeOK, BucketIds
    <3>3. DefaultTier \in Refilling
      BY <1>1, <1>2, <1>8, <2>1, <3>1, <3>2
    <3>4. sched'[<<k, t>>] # "none"
      BY <1>1, <1>2, <2>1, <3>1, <3>3 DEF Ids
    <3>5. QED
      BY <3>4 DEF IdCovered
  <2>2. CASE k # key
    <3>1. k # v /\ clients'[k] = clients[k] /\ clients[k] # Nil
      BY <1>1, <1>8, <2>2
    <3>2. clients[k] \in Procs /\ clients[k] # p
      BY <1>7, <3>1 DEF Base, TypeOK, Objects
    <3>3. t \in Tiered(clients[k])
      BY <1>2, <1>8, <3>1, <3>2 DEF Tiered
    <3>4. IdCovered(<<k, t>>)
      <4>1. tiers'[clients'[k]][t] = tiers[clients[k]][t]
        BY <1>2, <3>1, <3>2
      <4>2. tiers[clients[k]][t] \in BucketIds /\ tiers[clients[k]][t] # <<p, "default">>
        BY <1>1, <3>2, <3>3 DEF Placed, BucketsPlaced, Early, Tiered, Base, TypeOK, BucketRefs
      <4>3. buckets[tiers[clients[k]][t]].refills
        BY <1>1, <1>8, <4>1, <4>2 DEF Base, TypeOK
      <4>4. QED
        BY <3>1, <3>3, <4>3 DEF AllCovered, Bucket
    <3>5. sched'[<<k, t>>] = sched[<<k, t>>]
      BY <1>1, <2>2, <3>1 DEF Ids
    <3>6. \A q \in Procs : Scheduling(q) =>
            pc'[q] = pc[q] /\ frame'[q].key = frame[q].key /\ frame'[q].tier = frame[q].tier
      BY <1>1, <1>2, <1>4 DEF Kept, Scheduling
    <3>7. QED
      <4>1. CASE sched[<<k, t>>] # "none"
        BY <3>5, <4>1 DEF IdCovered
      <4>2. ASSUME NEW q \in Procs, Scheduling(q), Id(q) = <<k, t>> PROVE IdCovered(<<k, t>>)'
        BY <3>6, <4>2 DEF IdCovered, Scheduling, Id
      <4>3. CASE InBatch(<<k, t>>)
        <5>1. firing.pc = "refill" => firing.cb \in Procs
          BY DEF Base, Locals, Callback
        <5>2. firing.cb \in Procs /\ tiers[firing.cb][t] # Nil => tiers'[firing.cb][t] # Nil
          BY <1>2, <1>6
        <5>3. InBatch(<<k, t>>)'
          BY <1>1, <4>3, <5>1, <5>2 DEF InBatch, Bucket
        <5>4. QED
          BY <5>3 DEF IdCovered
      <4>4. QED
        BY <3>4, <4>1, <4>2, <4>3 DEF IdCovered
  <2>3. QED
    BY <2>1, <2>2
<1>9. QED
  BY <1>5, <1>8 DEF AllCovered, Tiered, Bucket

\* A Configure of a refilling bucket is followed by a Schedule for its tier.
LEMMA ConfigureCovers ==
    ASSUME Base, Placed, AllCovered, NEW p \in Procs, Configure(p)
    PROVE  AllCovered'
<1> DEFINE cb == frame[p].cb
           tier == frame[p].tier
<1>1. /\ pc[p] = "configure" /\ cb \in Procs /\ UNCHANGED <<clients, sched, firing>>
      /\ tiers'[cb][tier] = <<p, "tier">> /\ <<p, "tier">> # Nil
      /\ \A c \in Procs, t \in Tiers : (c = cb /\ t = tier) \/ tiers'[c][t] = tiers[c][t]
      /\ \A q \in Procs : Kept(q)
      /\ buckets'[<<p, "tier">>].refills = frame[p].refills
      /\ \A b \in BucketIds : b # <<p, "tier">> => buckets'[b] = buckets[b]
  BY ConfigureSteps
<1>2. PICK l \in {"unschedule", "nextTime", "pick"} :
        pc' = [pc EXCEPT ![p] = l] /\ (l = "pick" => ~frame[p].refills)
  BY ConfigureSteps
<1>3. pc'[p] = l /\ \A q \in Procs \ {p} : pc'[q] = pc[q]
  BY <1>2 DEF Base, TypeOK
<1>4. \A x \in Procs : frame'[x].op = "update" => frame'[x].refills
  BY <1>1 DEF Kept, AllCovered
<1>5. ASSUME NEW k \in Keys, clients'[k] # Nil, NEW t \in Tiers, tiers'[clients'[k]][t] # Nil,
             buckets'[tiers'[clients'[k]][t]].refills
      PROVE  IdCovered(<<k, t>>)'
  <2>1. clients'[k] = clients[k] /\ clients[k] \in Procs
    BY <1>1, <1>5 DEF Base, TypeOK, Objects
  <2>2. CASE clients[k] = cb /\ t = tier
    <3>1. frame[p].key = k
      BY <1>1, <1>5, <2>2 DEF Placed, ObjectsPlaced
    <3>2. Scheduling(p)' /\ Id(p)' = <<k, t>>
      BY <1>1, <1>2, <1>3, <1>5, <2>2, <3>1 DEF Scheduling, Id, Kept
    <3>3. QED
      BY <3>2 DEF IdCovered
  <2>3. CASE ~(clients[k] = cb /\ t = tier)
    <3>1. t \in Tiered(clients[k])
      BY <1>1, <1>5, <2>1, <2>3 DEF Tiered
    <3>2. IdCovered(<<k, t>>)
      <4>1. tiers'[clients'[k]][t] = tiers[clients[k]][t]
        BY <1>1, <2>1, <2>3
      <4>2. tiers[clients[k]][t] \in BucketIds /\ tiers[clients[k]][t] # <<p, "tier">>
        <5>1. tiers[clients[k]][t] \in BucketIds
          BY <2>1, <3>1 DEF Tiered, Base, TypeOK, BucketRefs
        <5>2. tiers[clients[k]][t] # <<p, "tier">>
          BY <1>1, <2>1 DEF Placed, BucketsPlaced, Unconfigured
        <5>3. QED
          BY <5>1, <5>2
      <4>3. buckets[tiers[clients[k]][t]].refills
        BY <1>1, <1>5, <4>1, <4>2
      <4>4. QED
        BY <1>5, <2>1, <3>1, <4>3 DEF AllCovered, Bucket
    <3>3. \A q \in Procs : Scheduling(q) =>
            pc'[q] = pc[q] /\ frame'[q].key = frame[q].key /\ frame'[q].tier = frame[q].tier
      BY <1>1, <1>3 DEF Kept, Scheduling
    <3>4. CASE sched[<<k, t>>] # "none"
      BY <1>1, <3>4 DEF IdCovered
    <3>5. ASSUME NEW q \in Procs, Scheduling(q), Id(q) = <<k, t>> PROVE IdCovered(<<k, t>>)'
      BY <3>3, <3>5 DEF IdCovered, Scheduling, Id
    <3>6. CASE InBatch(<<k, t>>)
      <4>1. firing.pc = "refill" => firing.cb \in Procs
        BY DEF Base, Locals, Callback
      <4>2. firing.cb \in Procs /\ tiers[firing.cb][t] # Nil => tiers'[firing.cb][t] # Nil
        BY <1>1
      <4>3. InBatch(<<k, t>>)'
        BY <1>1, <3>6, <4>1, <4>2 DEF InBatch, Bucket
      <4>4. QED
        BY <4>3 DEF IdCovered
    <3>7. QED
      BY <3>2, <3>4, <3>5, <3>6 DEF IdCovered
  <2>4. QED
    BY <2>2, <2>3
<1>6. QED
  BY <1>4, <1>5 DEF AllCovered, Tiered, Bucket

\* An operation that begins schedules nothing yet.
LEMMA BeginCovers ==
    ASSUME Base, AllCovered, NEW p \in Procs, NEW op \in {"allow", "block", "unblock", "update"},
           NEW k \in Keys, NEW t \in Tiers, NEW f, f \in BOOLEAN, Begin(p, op, k, t, f),
           op = "update" => f
    PROVE  AllCovered'
<1>1. /\ pc[p] = "start" /\ pc' = [pc EXCEPT ![p] = "lookup"]
      /\ \A q \in Procs \ {p} : Kept(q)
      /\ frame'[p].op = op /\ (f => frame'[p].refills)
      /\ UNCHANGED <<clients, tiers, buckets, sched, firing>>
  BY BeginSteps
<1>2. (frame'[p].op = "update" => frame'[p].refills) /\ SameRefills
  BY <1>1 DEF SameRefills
<1>3. \A q \in Procs \ {p} : pc'[q] = pc[q]
  BY <1>1 DEF Base, TypeOK
<1>4. QED
  BY <1>1, <1>2, <1>3, OtherCovers DEF Scheduling

\* processDue puts every id back, except those of clients that are gone.
LEMMA CallbackCovers ==
    ASSUME Base, AllCovered, Callbacks
    PROVE  AllCovered'
<1>1. UNCHANGED <<clients, tiers, buckets, now, pc, frame, barred>>
  BY FiringBase DEF Callbacks
<1>2. SUFFICES ASSUME NEW k \in Keys, clients[k] # Nil, NEW t \in Tiers, tiers[clients[k]][t] # Nil,
                      buckets[tiers[clients[k]][t]].refills,
                      IdCovered(<<k, t>>), ~\E p \in Procs : Scheduling(p) /\ Id(p) = <<k, t>>
               PROVE  IdCovered(<<k, t>>)'
  <2>1. ASSUME NEW i, \E p \in Procs : Scheduling(p) /\ Id(p) = i PROVE IdCovered(i)'
    BY <1>1, <2>1 DEF IdCovered, Scheduling, Id
  <2>2. \A k \in Keys : \A t \in Tiers :
            clients[k] # Nil /\ tiers[clients[k]][t] # Nil /\ buckets[tiers[clients[k]][t]].refills
                => IdCovered(<<k, t>>)
    BY DEF AllCovered, Tiered, Bucket
  <2>3. QED
    BY <1>1, <1>2, <2>1, <2>2 DEF AllCovered, Tiered, Bucket
<1> DEFINE i == <<k, t>>
<1>3. i \in Ids /\ i[1] = k /\ i[2] = t
  BY DEF Ids
<1>4. sched[i] # "none" \/ InBatch(i)
  BY <1>2 DEF IdCovered
<1> HIDE DEF i
<1>5. SUFFICES sched'[i] # "none" \/ InBatch(i)'
  BY DEF IdCovered, i
<1>6. ASSUME NEW ids \in SUBSET Ids, Fire(ids) PROVE sched'[i] # "none" \/ InBatch(i)'
  <2>1. /\ firing = NotFiring /\ firing' = [firing EXCEPT !.due = ids]
        /\ sched' = [x \in Ids |-> IF x \in ids THEN "none" ELSE sched[x]]
    BY <1>6 DEF Fire
  <2>2. firing'.due = ids /\ firing'.pc = "idle" /\ firing.due = {}
    BY <2>1 DEF NotFiring
  <2>3. QED
    BY <1>3, <1>4, <2>1, <2>2 DEF InBatch
<1>7. ASSUME NEW j \in Ids, OnDueClient(j) PROVE sched'[i] # "none" \/ InBatch(i)'
  <2>1. firing.pc = "idle" /\ UNCHANGED sched
    BY <1>7 DEF OnDueClient
  <2>2. CASE clients[j[1]] = Nil
    <3>1. i # j /\ firing' = [firing EXCEPT !.due = @ \ {j}]
      BY <1>2, <1>3, <1>7, <2>2 DEF OnDueClient
    <3>2. firing'.due = firing.due \ {j} /\ firing'.pc = "idle"
      BY <2>1, <3>1 DEF Base, TypeOK
    <3>3. QED
      BY <1>4, <2>1, <3>1, <3>2 DEF InBatch
  <2>3. CASE clients[j[1]] # Nil
    <3>1. firing' = [firing EXCEPT !.pc = "refill", !.id = j, !.cb = clients[j[1]]]
      BY <1>7, <2>3 DEF OnDueClient
    <3>2. firing'.due = firing.due /\ firing'.id = j /\ firing'.cb = clients[j[1]]
      BY <3>1 DEF Base, TypeOK
    <3>3. j = i => tiers'[firing'.cb][i[2]] # Nil
      BY <1>1, <1>2, <1>3, <3>2
    <3>4. QED
      BY <1>4, <2>1, <3>2, <3>3 DEF InBatch, Bucket
  <2>4. QED
    BY <2>2, <2>3
<1>8. CASE OnDueBucket
  <2>1. firing.pc = "refill" /\ UNCHANGED sched
    BY <1>8 DEF OnDueBucket
  <2>2. CASE Bucket(firing.cb, firing.id[2]) = Nil
    <3>1. firing'.due = firing.due \ {firing.id} /\ firing'.pc = "idle"
      BY <1>8, <2>2 DEF OnDueBucket, CallbackDone, NotFiring
    <3>2. InBatch(i) => i # firing.id
      BY <2>1, <2>2 DEF InBatch
    <3>3. QED
      BY <1>4, <2>1, <3>1, <3>2 DEF InBatch
  <2>3. CASE Bucket(firing.cb, firing.id[2]) # Nil
    <3>1. firing'.due = firing.due /\ firing'.pc = "put"
      BY <1>8, <2>3 DEF OnDueBucket, Base, TypeOK
    <3>2. QED
      BY <1>4, <2>1, <3>1 DEF InBatch
  <2>4. QED
    BY <2>2, <2>3
<1>9. CASE Reschedule
  <2>1. /\ sched' = [sched EXCEPT ![firing.id] = firing.next] /\ firing.next # "none"
        /\ firing'.due = firing.due \ {firing.id} /\ firing'.pc = "idle"
    BY <1>9 DEF Reschedule, CallbackDone, NotFiring, Base, Locals, Callback
  <2>2. CASE i = firing.id
    BY <1>3, <2>1, <2>2 DEF Base, TypeOK
  <2>3. CASE i # firing.id
    <3>1. sched'[i] = sched[i]
      BY <2>1, <2>3 DEF Base, TypeOK
    <3>2. QED
      BY <1>4, <2>1, <2>3, <3>1 DEF InBatch
  <2>4. QED
    BY <2>2, <2>3
<1>10. QED
  BY <1>6, <1>7, <1>8, <1>9 DEF Callbacks, ProcessDue

\* Every step keeps every tier of every registered client covered.
LEMMA CoveredStep ==
    ASSUME NewRefills \subseteq {TRUE}, Base, Placed, Unfilled, AllCovered, [Next]_vars
    PROVE  AllCovered'
<1>1. BucketsPlaced
  BY DEF Placed
<1>2. ASSUME NEW p \in Procs, Act(p) PROVE AllCovered'
  BY <1>1, <1>2, ActKinds, OwnCovers, CreatedCovers, ConfigureCovers, PlainCovers
<1>3. CASE Arrive
  <2>1. PICK p \in Procs, op \in {"allow", "block", "unblock", "update"}, k \in Keys, t \in Tiers,
             f \in BOOLEAN : Begin(p, op, k, t, f) /\ (op = "update" => f)
    <3>1. ASSUME NEW r \in Requests, Request(r)
          PROVE  \E k \in Keys, t \in Tiers, f \in BOOLEAN : Begin(r, "allow", k, t, f)
      BY <3>1, Beginnings
    <3>2. ASSUME NEW a \in Admins, AdminCall(a)
          PROVE  \E op \in {"block", "unblock", "update"}, k \in Keys, t \in Tiers : Begin(a, op, k, t, TRUE)
      BY <3>2, TierAssumption, OpsAssumption DEF AdminCall
    <3>3. QED
      BY <1>3, <3>1, <3>2 DEF Arrive, Procs
  <2>2. QED
    BY <2>1, BeginCovers
<1>4. CASE UNCHANGED vars
  BY <1>4
  DEF vars, AllCovered, IdCovered, Scheduling, Id, InBatch, Bucket, Tiered
<1>5. QED
  BY <1>2, <1>3, <1>4, CallbackCovers, Steps
-----------------------------------------------------------------------------
(* The theorems.                                                           *)

Core == Base /\ Placed /\ Unfilled /\ Capacity

\* What holds at the start.
LEMMA InitCore == Init => Core
<1> SUFFICES ASSUME Init PROVE Core
  OBVIOUS
<1>1. /\ \A p \in Procs : pc[p] = "start" /\ frame[p] = NoFrame
      /\ \A k \in Keys : clients[k] = Nil
      /\ \A c \in Procs, t \in Tiers : tiers[c][t] = Nil
      /\ firing = NotFiring
  BY DEF Init
<1>2. frame \in [Procs -> Frames]
  BY NoFrameType DEF Init
<1>3. TypeOK
  <2>1. buckets \in [BucketIds -> BucketStates]
    BY DEF Init, Fresh, BucketStates
  <2>2. /\ clients \in [Keys -> Objects] /\ tiers \in [Procs -> [Tiers -> BucketRefs]]
        /\ sched \in [Ids -> Entries] /\ now \in Nat /\ barred \in SUBSET Keys
    BY DEF Init, Objects, BucketRefs, Entries
  <2>3. pc \in [Procs -> Labels]
    BY DEF Init, Labels
  <2>4. firing \in [due : SUBSET Ids, pc : {"idle", "refill", "put"}, id : Ids \cup {Nil},
                    cb : Objects, next : Entries]
    BY <1>1 DEF NotFiring, Objects, Entries
  <2>5. QED
    BY <1>1, <2>1, <2>2, <2>3, <2>4 DEF TypeOK, BucketStates, Entries, Labels
<1>4. Locals
  <2>1. NoFrame.op = "none"
    BY DEF NoFrame
  <2>2. \A p \in Procs : Local(p)
    BY <1>1, <2>1 DEF Local
  <2>3. Callback
    BY <1>1 DEF Callback, NotFiring
  <2>4. QED
    BY <1>1, <1>2, <2>1, <2>2, <2>3 DEF Locals, Procs
<1>5. Placed
  <2>1. ObjectsPlaced
    BY <1>1, NamesAssumption DEF ObjectsPlaced, NoFrame
  <2>2. \A p \in Procs : <<p, "default">> # Nil /\ <<p, "tier">> # Nil
    BY NamesAssumption DEF BucketIds
  <2>3. BucketsPlaced
    BY <1>1, <2>2 DEF BucketsPlaced
  <2>4. QED
    BY <2>1, <2>3 DEF Placed
<1>6. Unfilled
  BY <1>1 DEF Unfilled
<1>7. Capacity
  <2>1. Live = {}
    BY <1>1 DEF Live
  <2>2. QED
    BY <2>1, FS_EmptySet, SizeAssumption DEF Capacity
<1>8. QED
  BY <1>3, <1>4, <1>5, <1>6, <1>7 DEF Core, Base

\* The core is an inductive invariant.
LEMMA CoreStep == Core /\ [Next]_vars => Core'
BY BaseStep, PlacedStep, UnfilledStep, CapacityStep DEF Core, Placed

\* The core holds throughout.
LEMMA CoreInvariant == Spec => []Core
BY InitCore, CoreStep, PTL DEF Spec

\* TypeOK: every pointer that the code relies on is there, whatever evictions
\* and replaced buckets crossed the operation that holds it.
THEOREM TypeCorrect == Spec => []TypeOK
<1>1. Core => TypeOK
  BY DEF Core, Base
<1>2. QED
  BY <1>1, CoreInvariant, PTL

\* getOrCreateClient: racing creations never leave more than MaxClients clients.
THEOREM CapacityTheorem == Spec => []Capacity
<1>1. Core => Capacity
  BY DEF Core
<1>2. QED
  BY <1>1, CoreInvariant, PTL

\* Block: where an update and an eviction are taken to end a block, a request
\* that arrived after Block had returned is not granted before its block ends.
THEOREM BlockTheorem ==
    ASSUME {"update", "evict"} \subseteq BlockEnds
    PROVE  Spec => []BlockHolds
<1>1. Init => Blocks
  <2>1. Init => barred = {} /\ \A p \in Procs : frame[p] = NoFrame
    BY DEF Init
  <2>2. QED
    BY <2>1 DEF Blocks, BarredBlocked, WalksBlock, BarredRequests, NoFrame
<1>2. Core /\ Blocks /\ [Next]_vars => Blocks'
  BY BlocksStep DEF Core
<1>3. Core /\ Blocks => BlockHolds
  <2> SUFFICES ASSUME Core, Blocks, NEW r \in Requests, pc[r] = "granted" PROVE ~frame[r].barred
    BY DEF BlockHolds
  <2>1. r \in Procs /\ frame[r].op = "allow"
    BY DEF Core, Base, Locals, Local, Procs
  <2>2. QED
    BY <2>1 DEF Blocks, BarredRequests
<1>4. QED
  BY <1>1, <1>2, <1>3, CoreInvariant, PTL DEF Spec

\* Creation, ensureTier, update, eviction and OnDue together: where updates do
\* not turn refill off, every refilling bucket that a registered client can
\* reach has a schedule entry whenever no operation is in progress.
THEOREM CoveredTheorem ==
    ASSUME NewRefills \subseteq {TRUE}
    PROVE  Spec => []Covered
<1>1. Init => AllCovered
  BY DEF Init, AllCovered, NoFrame
<1>2. Core /\ AllCovered /\ [Next]_vars => AllCovered'
  BY CoveredStep DEF Core
<1>3. AllCovered => Covered
  <2> SUFFICES ASSUME AllCovered, Idle, NEW k \in Live, NEW t \in Tiered(clients[k]),
                      buckets[Bucket(clients[k], t)].refills
               PROVE  sched[<<k, t>>] # "none"
    BY DEF Covered
  <2>1. IdCovered(<<k, t>>)
    BY DEF AllCovered, Live
  <2>2. firing.due = {} /\ \A p \in Procs : ~Scheduling(p)
    BY DEF Idle, NotFiring, Scheduling
  <2>3. QED
    BY <2>1, <2>2 DEF IdCovered, InBatch
<1>4. QED
  BY <1>1, <1>2, <1>3, CoreInvariant, PTL DEF Spec
=============================================================================
