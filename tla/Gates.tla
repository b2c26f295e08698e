------------------------------- MODULE Gates -------------------------------
(***************************************************************************)
(* The gates a request passes before its client's bucket (store.Allow):    *)
(* the global bucket behind an atomic pointer, which PUT global/config     *)
(* replaces or removes, and the bucket of its source IP, in a map with a   *)
(* capacity; and the schedule entries the store keeps for both.            *)
(*                                                                         *)
(* A request or an admin call is a goroutine that performs one operation.  *)
(* No lock spans the store of the global pointer and the scheduler calls   *)
(* that follow it, nor a request's lookup of a bucket and its use.  The    *)
(* IP map's critical sections contain their scheduler calls; these concern *)
(* different ids and OnDue's lookup waits for the lock, so each section is *)
(* one step.  Verdicts are arbitrary (module Bucket; ClientRegistry for    *)
(* the last gate); a bucket is named after the goroutine that created it.  *)
(***************************************************************************)
EXTENDS Integers, FiniteSets, FiniteSetsExt

CONSTANTS
    IPs,            \* source addresses
    Requests,       \* goroutines, one for each client request
    Admins,         \* goroutines, one for each PUT global/config
    Refills,        \* admins may set a bucket that refills (TRUE) or not (FALSE)
    GlobalEnabled,  \* the startup configuration has a global limit
    Main,           \* the main goroutine, which creates its bucket
    IPBucketCap,    \* ipBucketCap
    MaxTime,        \* bound on the clock, for TLC: from then on arrivals read the
                    \* same time and a scan may find any of them the oldest
    Nil

ASSUME CapAssumption == IPBucketCap \in Nat \ {0} /\ MaxTime \in Nat
ASSUME ChoiceAssumption == Refills \subseteq BOOLEAN /\ GlobalEnabled \in BOOLEAN

Procs == Requests \cup Admins
BucketIds == Procs \cup {Main}
GlobalId == "__global__"
Ids == IPs \cup {GlobalId}

ASSUME NamesAssumption ==
    /\ IsFiniteSet(IPs) /\ GlobalId \notin IPs /\ Nil \notin Ids \cup BucketIds
    /\ Requests \cap Admins = {} /\ Main \notin Procs

VARIABLES
    globalBucket,   \* the current global bucket, or Nil
    ipBuckets,      \* ip -> bucket, or Nil
    refills,        \* bucket -> RefillInterval > 0
    used,           \* bucket -> lastAccessTime
    sched,          \* id -> "none", or the kind of its time: "zero" or "later"
    firing,         \* processDue: ids popped and not yet called back; the
                    \* callback's pc, id and next time
    now,            \* the clock, which advances with arrivals
    pc, frame,      \* locals: ip, at, bkt
    overlapped      \* history: some admin calls have overlapped

vars == <<globalBucket, ipBuckets, refills, used, sched, firing, now, pc, frame,
          overlapped>>

NoFrame == [ip |-> Nil, at |-> 0, bkt |-> Nil]
NotFiring == [due |-> {}, pc |-> "idle", id |-> Nil, next |-> "none"]
-----------------------------------------------------------------------------
Goto(p, l) == pc' = [pc EXCEPT ![p] = l]
Finish(p) == Goto(p, "done") /\ frame' = [frame EXCEPT ![p] = NoFrame]

BugNextRefillTime(b) == IF refills[b] THEN "zero" ELSE "later"   \* test the wrong way round
NextRefillTime(b) == IF refills[b] THEN "later" ELSE "zero"

\* main: SetGlobalConfig, if the configuration says so, and SetIPLimit.
Init ==
    /\ globalBucket = IF GlobalEnabled THEN Main ELSE Nil
    /\ ipBuckets = [i \in IPs |-> Nil]
    /\ refills = [b \in BucketIds |-> TRUE]
    /\ used = [b \in BucketIds |-> 0]
    /\ sched = [i \in Ids |-> IF i = GlobalId /\ GlobalEnabled THEN "later" ELSE "none"]
    /\ firing = NotFiring
    /\ now = 0
    /\ pc = [p \in Procs |-> "start"]
    /\ frame = [p \in Procs |-> NoFrame]
    /\ overlapped = FALSE

Advance == now' = IF now < MaxTime THEN now + 1 ELSE now

\* handleRequest, and Allow up to its load of the global pointer.  ip is Nil
\* when the source address is empty.
Request(r, ip) ==
    /\ pc[r] = "start"
    /\ Advance
    /\ frame' = [frame EXCEPT ![r] = [ip |-> ip, at |-> now', bkt |-> globalBucket]]
    /\ Goto(r, IF globalBucket # Nil THEN "global" ELSE "ip")
    /\ UNCHANGED <<globalBucket, ipBuckets, refills, used, sched, firing, overlapped>>

\* The bucket's Allow at a gate; a refusal ends the request.
Pass(r, gate, ok, next) ==
    /\ pc[r] = gate
    /\ used' = [used EXCEPT ![frame[r].bkt] = frame[r].at]
    /\ IF ok
       THEN Goto(r, next) /\ frame' = [frame EXCEPT ![r].bkt = Nil]
       ELSE Finish(r)
    /\ UNCHANGED <<globalBucket, ipBuckets, refills, sched, firing, now, overlapped>>

GlobalGate(r, ok) == Pass(r, "global", ok, "ip")

\* getOrCreateIPBucket's read-locked fast path.
BugIPLookup(r) ==                   \* uses the bucket without testing ok
    /\ pc[r] = "ip"
    /\ LET ip == frame[r].ip IN
       /\ Goto(r, IF ip = Nil THEN "client" ELSE "ipAllow")
       /\ frame' = [frame EXCEPT ![r].bkt = IF ip = Nil THEN Nil ELSE ipBuckets[ip]]
    /\ UNCHANGED <<globalBucket, ipBuckets, refills, used, sched, firing, now, overlapped>>
IPLookup(r) ==
    /\ pc[r] = "ip"
    /\ LET ip == frame[r].ip
           b == IF ip = Nil THEN Nil ELSE ipBuckets[ip]
       IN /\ Goto(r, IF ip = Nil THEN "client" ELSE IF b = Nil THEN "create" ELSE "ipAllow")
          /\ frame' = [frame EXCEPT ![r].bkt = b]
    /\ UNCHANGED <<globalBucket, ipBuckets, refills, used, sched, firing, now, overlapped>>

\* evictOldestIPLocked: the least recently used, if the map is full.  The
\* scan reads one bucket after the other while requests may touch them, so it
\* may see any of these times of a bucket.
Seen(b) ==
    {used[b]} \cup {frame[r].at : r \in {q \in Requests : pc[q] = "ipAllow" /\ frame[q].bkt = b}}

Scan(live) ==
    {i \in live : \A j \in live : Min(Seen(ipBuckets[i])) <= Max(Seen(ipBuckets[j]))}

BugOldest ==                        \* evicts only beyond the capacity
    LET live == {i \in IPs : ipBuckets[i] # Nil}
    IN IF Cardinality(live) > IPBucketCap THEN Scan(live) ELSE {Nil}
Oldest ==
    LET live == {i \in IPs : ipBuckets[i] # Nil}
    IN IF Cardinality(live) >= IPBucketCap THEN Scan(live) ELSE {Nil}

\* getOrCreateIPBucket under the write lock: look again, evict at capacity,
\* create and schedule.  The IP limit is given with an interval.
IPCreate(r) ==
    /\ pc[r] = "create"
    /\ LET ip == frame[r].ip IN
       IF ipBuckets[ip] # Nil
       THEN /\ frame' = [frame EXCEPT ![r].bkt = ipBuckets[ip]]
            /\ UNCHANGED <<ipBuckets, refills, used, sched>>
       ELSE \E old \in Oldest :
            /\ ipBuckets' = [i \in IPs |-> IF i = ip THEN r
                                           ELSE IF i = old THEN Nil ELSE ipBuckets[i]]
            /\ refills' = [refills EXCEPT ![r] = TRUE]
            /\ used' = [used EXCEPT ![r] = frame[r].at]
            /\ sched' = [i \in Ids |-> IF i = ip THEN "later"
                                       ELSE IF i = old THEN "none" ELSE sched[i]]
            /\ frame' = [frame EXCEPT ![r].bkt = r]
    /\ Goto(r, "ipAllow")
    /\ UNCHANGED <<globalBucket, firing, now, overlapped>>

IPGate(r, ok) == Pass(r, "ipAllow", ok, "client")

\* The client's own bucket decides, and handleRequest sends the response.
ClientGate(r) ==
    /\ pc[r] = "client"
    /\ Finish(r)
    /\ UNCHANGED <<globalBucket, ipBuckets, refills, used, sched, firing, now, overlapped>>

\* handleGlobalConfig begins.
Begin(a) ==
    /\ pc[a] = "start"
    /\ overlapped' = (overlapped \/ \E b \in Admins : pc[b] \notin {"start", "done"})

\* SetGlobalConfig: the new bucket, full, behind the pointer.
SetGlobalConfig(a, f) ==
    /\ Begin(a)
    /\ Advance
    /\ refills' = [refills EXCEPT ![a] = f]
    /\ used' = [used EXCEPT ![a] = now']
    /\ globalBucket' = a
    /\ frame' = [frame EXCEPT ![a].bkt = a]
    /\ Goto(a, "remove")
    /\ UNCHANGED <<ipBuckets, sched, firing>>

\* DisableGlobal.
DisableGlobal(a) ==
    /\ Begin(a)
    /\ globalBucket' = Nil
    /\ Goto(a, "remove")
    /\ UNCHANGED <<ipBuckets, refills, used, sched, firing, now, frame>>

\* Both remove the schedule entry; SetGlobalConfig makes a new one if its
\* bucket refills.
BugRemoveGlobal(a) ==               \* schedules only if there was an entry to move
    /\ pc[a] = "remove"
    /\ sched' = [sched EXCEPT ![GlobalId] = "none"]
    /\ IF frame[a].bkt # Nil /\ refills[a] /\ sched[GlobalId] # "none"
       THEN Goto(a, "schedule") /\ UNCHANGED frame ELSE Finish(a)
    /\ UNCHANGED <<globalBucket, ipBuckets, refills, used, firing, now, overlapped>>
RemoveGlobal(a) ==
    /\ pc[a] = "remove"
    /\ sched' = [sched EXCEPT ![GlobalId] = "none"]
    /\ IF frame[a].bkt # Nil /\ refills[a]
       THEN Goto(a, "schedule") /\ UNCHANGED frame ELSE Finish(a)
    /\ UNCHANGED <<globalBucket, ipBuckets, refills, used, firing, now, overlapped>>

ScheduleGlobal(a) ==
    /\ pc[a] = "schedule"
    /\ sched' = [sched EXCEPT ![GlobalId] = NextRefillTime(frame[a].bkt)]
    /\ Finish(a)
    /\ UNCHANGED <<globalBucket, ipBuckets, refills, used, firing, now, overlapped>>

\* processDue takes the entries that are due out of the schedule, those at the
\* zero Time among them, and then calls back for one after the other.
Fire(ids) ==
    /\ firing = NotFiring /\ ids # {}
    /\ \A i \in ids : sched[i] # "none"
    /\ {i \in Ids : sched[i] = "zero"} \subseteq ids
    /\ sched' = [i \in Ids |-> IF i \in ids THEN "none" ELSE sched[i]]
    /\ firing' = [firing EXCEPT !.due = ids]
    /\ UNCHANGED <<globalBucket, ipBuckets, refills, used, now, pc, frame, overlapped>>

\* The bucket an id stands for, or Nil.
BucketOf(i) == IF i = GlobalId THEN globalBucket ELSE ipBuckets[i]

\* OnDue for the global bucket or an IP's: refill it and answer its next
\* time, or drop the entry if the bucket is gone.
BugOnDue(i) ==                      \* keeps the entry of a missing bucket
    /\ firing.pc = "idle" /\ i \in firing.due
    /\ LET b == BucketOf(i) IN
       firing' = [firing EXCEPT !.pc = "put", !.id = i,
                                !.next = IF b = Nil THEN "later" ELSE NextRefillTime(b)]
    /\ UNCHANGED <<globalBucket, ipBuckets, refills, used, sched, now, pc, frame, overlapped>>
OnDue(i) ==
    /\ firing.pc = "idle" /\ i \in firing.due
    /\ LET b == BucketOf(i) IN
       firing' = IF b = Nil THEN [firing EXCEPT !.due = @ \ {i}]
                 ELSE [firing EXCEPT !.pc = "put", !.id = i, !.next = NextRefillTime(b)]
    /\ UNCHANGED <<globalBucket, ipBuckets, refills, used, sched, now, pc, frame, overlapped>>

Reschedule ==
    /\ firing.pc = "put"
    /\ sched' = [sched EXCEPT ![firing.id] = firing.next]
    /\ firing' = [NotFiring EXCEPT !.due = firing.due \ {firing.id}]
    /\ UNCHANGED <<globalBucket, ipBuckets, refills, used, now, pc, frame, overlapped>>

ProcessDue == (\E i \in Ids : OnDue(i)) \/ Reschedule

Serve(r) ==
    \/ \E ok \in BOOLEAN : GlobalGate(r, ok) \/ IPGate(r, ok)
    \/ IPLookup(r) \/ IPCreate(r)
    \/ ClientGate(r)

Next ==
    \/ \E r \in Requests : Serve(r) \/ \E ip \in IPs \cup {Nil} : Request(r, ip)
    \/ \E a \in Admins :
        \/ \E f \in Refills : SetGlobalConfig(a, f)
        \/ DisableGlobal(a)
        \/ RemoveGlobal(a) \/ ScheduleGlobal(a)
    \/ \E ids \in SUBSET Ids : Fire(ids)
    \/ ProcessDue

Spec == Init /\ [][Next]_vars

\* Goroutines that have begun go on, and every entry comes due in time: it is
\* then in the next batch.
FairSpec ==
    /\ Spec
    /\ \A r \in Requests : WF_vars(Serve(r))
    /\ \A a \in Admins : WF_vars(RemoveGlobal(a) \/ ScheduleGlobal(a))
    /\ \A i \in Ids : SF_vars(\E ids \in SUBSET Ids : i \in ids /\ Fire(ids))
    /\ WF_vars(ProcessDue)
-----------------------------------------------------------------------------
Entries == {"none", "zero", "later"}

TypeOK ==
    /\ globalBucket \in Admins \cup {Main, Nil}
    /\ ipBuckets \in [IPs -> Requests \cup {Nil}]
    /\ refills \in [BucketIds -> BOOLEAN]
    /\ used \in [BucketIds -> Nat]
    /\ sched \in [Ids -> Entries]
    /\ firing \in [due : SUBSET Ids, pc : {"idle", "put"}, id : Ids \cup {Nil}, next : Entries]
    /\ now \in Nat
    /\ overlapped \in BOOLEAN
    /\ pc \in [Procs -> {"start", "global", "ip", "create", "ipAllow", "client",
                         "remove", "schedule", "done"}]
    /\ frame \in [Procs -> [ip : IPs \cup {Nil}, at : Nat, bkt : BucketIds \cup {Nil}]]
    \* No nil bucket is called.
    /\ \A r \in Requests : pc[r] \in {"global", "ipAllow"} => frame[r].bkt # Nil

Idle == (\A p \in Procs : pc[p] \in {"start", "done"}) /\ firing = NotFiring

\* getOrCreateIPBucket: racing first requests of different addresses never
\* leave more than ipBucketCap buckets.
IPCapacity == Cardinality({i \in IPs : ipBuckets[i] # Nil}) <= IPBucketCap

\* SetGlobalConfig, DisableGlobal, IP creation and eviction, and OnDue: when
\* no operation is in progress, every current bucket that refills has a
\* schedule entry, whatever callbacks crossed them, as long as admin calls
\* have not overlapped.
GatesCovered ==
    Idle /\ ~overlapped => \A i \in Ids :
        BucketOf(i) # Nil /\ refills[BucketOf(i)] => sched[i] # "none"

Orphan(i) == sched[i] # "none" /\ BucketOf(i) = Nil

\* OnDue: the entry of a disabled global bucket or an evicted address does not
\* come back to the heap forever; once the operations are over there is none,
\* whatever callbacks put back what they removed.
OrphansDropped == \A i \in Ids : <>[]~Orphan(i)

\* OnDue answers (zero Time, true) for a bucket that does not refill, and an entry
\* at the zero Time is due again as soon as it is put back: Run then spins.  A
\* callback that crosses SetGlobalConfig can begin this, and it goes on only as
\* long as the global bucket is one that does not refill: once the limit is
\* removed or refills again, Run returns to sleeping until the next due time.
SpinNeedsRefillOff ==
    []<>(sched[GlobalId] = "zero") => <>[](globalBucket # Nil /\ ~refills[globalBucket])
=============================================================================
