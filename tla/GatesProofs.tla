---------------------------- MODULE GatesProofs -----------------------------
(***************************************************************************)
(* TypeOK, IPCapacity and GatesCovered of Gates, for any addresses,        *)
(* requests and admin calls.  GatesCovered speaks of quiet moments; in     *)
(* between, a bucket's entry may be in the hands of processDue or about to *)
(* be made by the admin call that stored the pointer, and the invariant    *)
(* says by whom.                                                           *)
(***************************************************************************)
EXTENDS Gates, FiniteSetTheorems, TLAPS

Active(a) == pc[a] \in {"remove", "schedule"}

\* What the goroutines' labels say of their locals.
Locals ==
    /\ \A r \in Requests :
        /\ pc[r] \in {"start", "global", "ip", "create", "ipAllow", "client", "done"}
        /\ pc[r] = "create" => frame[r].ip # Nil
    /\ \A a \in Admins :
        /\ pc[a] \in {"start", "remove", "schedule", "done"}
        /\ pc[a] = "start" => frame[a].bkt = Nil
    /\ firing.pc = "put" => firing.id \in firing.due /\ firing.next # "none"

\* An id has its entry in the heap or in processDue's batch.
Held(i) == sched[i] # "none" \/ i \in firing.due

IPCovered == \A i \in IPs : ipBuckets[i] # Nil => Held(i)

\* An admin call that overlaps no other is the only one between the pointer and
\* the schedule, and it knows which bucket is current.
GlobalCovered ==
    ~overlapped =>
        /\ \A a, b \in Admins : Active(a) /\ Active(b) => a = b
        /\ \A a \in Admins :
            /\ pc[a] = "remove" => frame[a].bkt = globalBucket /\ globalBucket \in {a, Nil}
            /\ pc[a] = "schedule" => frame[a].bkt = a /\ globalBucket = a
        /\ (\A a \in Admins : ~Active(a)) /\ globalBucket # Nil /\ refills[globalBucket]
                => Held(GlobalId)

Base == TypeOK /\ Locals
IInv == Base /\ IPCapacity /\ IPCovered /\ GlobalCovered
-----------------------------------------------------------------------------
(* Types and locals.                                                       *)

\* A request's arrival and its calls of the buckets' Allow.
LEMMA RequestBase ==
    ASSUME Base, NEW r \in Requests,
           \/ \E ip \in IPs \cup {Nil} : Request(r, ip)
           \/ \E ok \in BOOLEAN : GlobalGate(r, ok) \/ IPGate(r, ok)
           \/ IPLookup(r)
           \/ ClientGate(r)
    PROVE  Base'
<1> USE DEF Base, TypeOK, Locals, Procs, BucketIds, Goto, Finish, NoFrame
<1>1. ASSUME NEW ip \in IPs \cup {Nil}, Request(r, ip) PROVE Base'
  <2>1. now' \in Nat
    BY <1>1, CapAssumption DEF Request, Advance
  <2>2. QED
    BY <1>1, <2>1, NamesAssumption DEF Request
<1>2. ASSUME NEW gate \in {"global", "ipAllow"}, NEW ok, NEW next \in {"ip", "client"},
             Pass(r, gate, ok, next)
      PROVE  Base'
  BY <1>2, NamesAssumption DEF Pass
<1>3. CASE IPLookup(r)
  BY <1>3, NamesAssumption DEF IPLookup
<1>4. CASE ClientGate(r)
  BY <1>4, NamesAssumption DEF ClientGate
<1>5. QED
  BY <1>1, <1>2, <1>3, <1>4 DEF GlobalGate, IPGate

\* getOrCreateIPBucket under the write lock.
LEMMA CreateBase ==
    ASSUME Base, NEW r \in Requests, IPCreate(r)
    PROVE  Base'
<1> USE DEF Base, TypeOK, Locals, Procs, BucketIds, Goto
<1>1. CASE ipBuckets[frame[r].ip] # Nil
  BY <1>1, NamesAssumption DEF IPCreate
<1>2. CASE ipBuckets[frame[r].ip] = Nil
  <2>1. PICK old \in Oldest :
            /\ ipBuckets' = [i \in IPs |-> IF i = frame[r].ip THEN r
                                           ELSE IF i = old THEN Nil ELSE ipBuckets[i]]
            /\ refills' = [refills EXCEPT ![r] = TRUE]
            /\ used' = [used EXCEPT ![r] = frame[r].at]
            /\ sched' = [i \in Ids |-> IF i = frame[r].ip THEN "later"
                                       ELSE IF i = old THEN "none" ELSE sched[i]]
            /\ frame' = [frame EXCEPT ![r].bkt = r]
            /\ pc[r] = "create" /\ pc' = [pc EXCEPT ![r] = "ipAllow"]
            /\ UNCHANGED <<globalBucket, firing, now, overlapped>>
    BY <1>2 DEF IPCreate
  <2>2. ipBuckets' \in [IPs -> Requests \cup {Nil}]
    BY <2>1
  <2>3. sched' \in [Ids -> Entries]
    BY <2>1 DEF Entries
  <2>4. refills' \in [BucketIds -> BOOLEAN] /\ used' \in [BucketIds -> Nat]
    BY <2>1
  <2>5. frame' \in [Procs -> [ip : IPs \cup {Nil}, at : Nat, bkt : BucketIds \cup {Nil}]]
    BY <2>1
  <2>6. QED
    BY <2>1, <2>2, <2>3, <2>4, <2>5, NamesAssumption
<1>3. QED
  BY <1>1, <1>2

\* The admin calls.
LEMMA AdminBase ==
    ASSUME Base, NEW a \in Admins,
           \/ \E f \in Refills : SetGlobalConfig(a, f)
           \/ DisableGlobal(a) \/ RemoveGlobal(a) \/ ScheduleGlobal(a)
    PROVE  Base'
<1> USE NamesAssumption DEF Base, TypeOK, Locals, Procs, BucketIds, Goto, Finish, NoFrame
<1>1. ASSUME Begin(a) PROVE overlapped' \in BOOLEAN
  BY <1>1, Zenon DEF Begin
<1>2. ASSUME NEW f \in Refills, SetGlobalConfig(a, f) PROVE Base'
  <2>1. now' \in Nat
    BY <1>2, CapAssumption DEF SetGlobalConfig, Advance
  <2>2. f \in BOOLEAN
    BY ChoiceAssumption
  <2>3. QED
    BY <1>1, <1>2, <2>1, <2>2 DEF SetGlobalConfig
<1>3. CASE DisableGlobal(a)
  BY <1>1, <1>3 DEF DisableGlobal
<1>4. CASE RemoveGlobal(a)
  <2>1. sched' \in [Ids -> Entries]
    BY <1>4 DEF RemoveGlobal, Entries
  <2>2. CASE frame[a].bkt # Nil /\ refills[a]
    BY <1>4, <2>1, <2>2 DEF RemoveGlobal
  <2>3. CASE ~(frame[a].bkt # Nil /\ refills[a])
    BY <1>4, <2>1, <2>3 DEF RemoveGlobal
  <2>4. QED
    BY <2>2, <2>3
<1>5. CASE ScheduleGlobal(a)
  BY <1>5 DEF ScheduleGlobal, NextRefillTime, Entries
<1>6. QED
  BY <1>2, <1>3, <1>4, <1>5

\* The scheduler's callbacks.
LEMMA ProcessBase ==
    ASSUME Base, (\E ids \in SUBSET Ids : Fire(ids)) \/ ProcessDue
    PROVE  Base'
<1> USE NamesAssumption DEF Base, TypeOK, Locals, NotFiring, Entries
<1>1. ASSUME NEW ids \in SUBSET Ids, Fire(ids) PROVE Base'
  BY <1>1 DEF Fire
<1>2. ASSUME NEW i \in Ids, OnDue(i) PROVE Base'
  BY <1>2 DEF OnDue, NextRefillTime
<1>3. CASE Reschedule
  BY <1>3 DEF Reschedule
<1>4. QED
  BY <1>1, <1>2, <1>3 DEF ProcessDue

\* Every step keeps the types and what the labels say.
LEMMA BaseStep == Base /\ [Next]_vars => Base'
<1>1. Base /\ UNCHANGED vars => Base'
  BY DEF Base, TypeOK, Locals, vars
<1>2. QED
  BY <1>1, RequestBase, CreateBase, AdminBase, ProcessBase DEF Next, Serve
-----------------------------------------------------------------------------
(* The map of addresses.                                                   *)

Live == {i \in IPs : ipBuckets[i] # Nil}

\* A creation evicts one bucket of a full map, and adds one.
LEMMA CreateCapacity ==
    ASSUME Base, IPCapacity, NEW r \in Requests, IPCreate(r), ipBuckets[frame[r].ip] = Nil
    PROVE  IPCapacity'
<1> DEFINE ip == frame[r].ip
<1>1. PICK old \in Oldest :
        ipBuckets' = [i \in IPs |-> IF i = ip THEN r ELSE IF i = old THEN Nil ELSE ipBuckets[i]]
  BY DEF IPCreate
<1>2. ip \in IPs /\ r # Nil
  BY NamesAssumption DEF IPCreate, Base, TypeOK, Locals, Procs, BucketIds
<1>3. IsFiniteSet(Live) /\ Cardinality(Live) \in Nat /\ ip \notin Live
  BY FS_Subset, FS_CardinalityType, NamesAssumption DEF Live
<1>4. Live' = (Live \ {old}) \cup {ip}
  BY <1>1, <1>2 DEF Live
<1>5. IPBucketCap \in Nat \ {0} /\ Cardinality(Live) <= IPBucketCap
  BY CapAssumption DEF IPCapacity, Live
<1>6. CASE Cardinality(Live) >= IPBucketCap
  <2>1. old \in Live
    BY <1>1, <1>6 DEF Oldest, Scan, Live
  <2>2. IsFiniteSet(Live \ {old}) /\ Cardinality(Live \ {old}) = Cardinality(Live) - 1
    BY <1>3, <2>1, FS_RemoveElement
  <2>3. Cardinality((Live \ {old}) \cup {ip}) = Cardinality(Live \ {old}) + 1
    BY <1>3, <2>2, FS_AddElement
  <2>4. Cardinality(Live') <= IPBucketCap
    BY <1>3, <1>4, <1>5, <2>2, <2>3
  <2>5. QED
    BY <2>4 DEF IPCapacity, Live
<1>7. CASE Cardinality(Live) < IPBucketCap
  <2>1. old = Nil
    BY <1>1, <1>3, <1>5, <1>7 DEF Oldest, Live
  <2>2. Live' = Live \cup {ip}
    BY <1>4, <2>1, NamesAssumption DEF Live, Ids
  <2>3. Cardinality(Live') = Cardinality(Live) + 1
    BY <1>3, <2>2, FS_AddElement
  <2>4. Cardinality(Live') <= IPBucketCap
    BY <1>3, <1>5, <1>7, <2>3
  <2>5. QED
    BY <2>4 DEF IPCapacity, Live
<1>8. QED
  BY <1>3, <1>5, <1>6, <1>7

\* Only getOrCreateIPBucket writes the map.
LEMMA MapStep ==
    ASSUME [Next]_vars
    PROVE  \/ UNCHANGED ipBuckets
           \/ \E r \in Requests : IPCreate(r) /\ ipBuckets[frame[r].ip] = Nil
BY DEF Next, Serve, Request, GlobalGate, IPGate, Pass, IPLookup, IPCreate, ClientGate,
    SetGlobalConfig, DisableGlobal, RemoveGlobal, ScheduleGlobal, Fire, ProcessDue, OnDue,
    Reschedule, vars

\* The map stays within its capacity.
LEMMA CapacityStep == Base /\ IPCapacity /\ [Next]_vars => IPCapacity'
<1>1. IPCapacity /\ UNCHANGED ipBuckets => IPCapacity'
  BY DEF IPCapacity
<1>2. QED
  BY <1>1, MapStep, CreateCapacity
-----------------------------------------------------------------------------
(* Coverage.  A step keeps an id in the heap or in the batch, except where *)
(* its bucket goes away or an admin call is about to schedule it.          *)

\* processDue takes entries and puts them back, or drops those without a bucket.
LEMMA ProcessHolds ==
    ASSUME Base, (\E ids \in SUBSET Ids : Fire(ids)) \/ ProcessDue
    PROVE  \A i \in Ids : Held(i) => Held(i)' \/ BucketOf(i) = Nil
<1> USE DEF Base, TypeOK, Locals, Held
<1>1. ASSUME NEW ids \in SUBSET Ids, Fire(ids) PROVE \A i \in Ids : Held(i) => Held(i)'
  BY <1>1 DEF Fire, NotFiring
<1>2. ASSUME NEW j \in Ids, OnDue(j)
      PROVE  \A i \in Ids : Held(i) => Held(i)' \/ BucketOf(i) = Nil
  BY <1>2 DEF OnDue
<1>3. ASSUME Reschedule PROVE \A i \in Ids : Held(i) => Held(i)'
  <2>1. /\ sched' = [sched EXCEPT ![firing.id] = firing.next]
        /\ firing'.due = firing.due \ {firing.id}
        /\ firing.next # "none"
    BY <1>3 DEF Reschedule, NotFiring
  <2>2. QED
    BY <2>1
<1>4. QED
  BY <1>1, <1>2, <1>3 DEF ProcessDue

\* Every step keeps the buckets of addresses covered.
LEMMA IPCoveredStep == Base /\ IPCovered /\ [Next]_vars => IPCovered'
<1> SUFFICES ASSUME Base, IPCovered, [Next]_vars PROVE IPCovered'
  OBVIOUS
<1>1. ASSUME UNCHANGED <<ipBuckets, firing>>, \A i \in IPs : sched'[i] = sched[i]
      PROVE  IPCovered'
  BY <1>1 DEF IPCovered, Held
<1>2. ASSUME NEW r \in Requests, Serve(r) \/ \E ip \in IPs \cup {Nil} : Request(r, ip)
      PROVE  IPCovered'
  <2>1. CASE IPCreate(r) /\ ipBuckets[frame[r].ip] = Nil
    <3>1. PICK old :
            /\ ipBuckets' = [i \in IPs |-> IF i = frame[r].ip THEN r
                                           ELSE IF i = old THEN Nil ELSE ipBuckets[i]]
            /\ sched' = [i \in Ids |-> IF i = frame[r].ip THEN "later"
                                       ELSE IF i = old THEN "none" ELSE sched[i]]
            /\ UNCHANGED firing
      BY <2>1 DEF IPCreate
    <3>2. QED
      BY <3>1 DEF IPCovered, Held, Ids
  <2>2. CASE ~(IPCreate(r) /\ ipBuckets[frame[r].ip] = Nil)
    BY <1>1, <1>2, <2>2
    DEF Serve, Request, GlobalGate, IPGate, Pass, IPLookup, IPCreate, ClientGate
  <2>3. QED
    BY <2>1, <2>2
<1>3. ASSUME NEW a \in Admins,
             \/ \E f \in Refills : SetGlobalConfig(a, f)
             \/ DisableGlobal(a) \/ RemoveGlobal(a) \/ ScheduleGlobal(a)
      PROVE  IPCovered'
  <2>1. UNCHANGED <<ipBuckets, firing>>
    BY <1>3 DEF SetGlobalConfig, DisableGlobal, RemoveGlobal, ScheduleGlobal
  <2>2. \A i \in IPs : sched'[i] = sched[i]
    BY <1>3, NamesAssumption
    DEF SetGlobalConfig, DisableGlobal, RemoveGlobal, ScheduleGlobal, Base, TypeOK, Ids
  <2>3. QED
    BY <1>1, <2>1, <2>2
<1>4. CASE (\E ids \in SUBSET Ids : Fire(ids)) \/ ProcessDue
  <2>1. UNCHANGED ipBuckets
    BY <1>4 DEF Fire, ProcessDue, OnDue, Reschedule
  <2>2. QED
    BY <1>4, <2>1, ProcessHolds, NamesAssumption DEF IPCovered, BucketOf, Ids
<1>5. CASE UNCHANGED vars
  BY <1>1, <1>5 DEF vars
<1>6. QED
  BY <1>2, <1>3, <1>4, <1>5 DEF Next

\* SetGlobalConfig and DisableGlobal make the caller the one that schedules, or
\* note the overlap.
LEMMA BeginCovers ==
    ASSUME Base, GlobalCovered, NEW a \in Admins,
           (\E f \in Refills : SetGlobalConfig(a, f)) \/ DisableGlobal(a)
    PROVE  GlobalCovered'
<1>1. /\ Begin(a) /\ pc' = [pc EXCEPT ![a] = "remove"]
      /\ frame'[a].bkt = globalBucket' /\ globalBucket' \in {a, Nil}
  <2>1. pc[a] = "start" /\ frame[a].bkt = Nil
    BY DEF SetGlobalConfig, DisableGlobal, Begin, Base, Locals
  <2>2. QED
    BY <2>1 DEF SetGlobalConfig, DisableGlobal, Goto, Base, TypeOK, Procs
<1>2. SUFFICES ASSUME ~overlapped' PROVE GlobalCovered'
  BY DEF GlobalCovered
<1>3. \A b \in Admins : ~Active(b)
  BY <1>1, <1>2 DEF Begin, Active
<1>4. \A b \in Admins : Active(b)' <=> b = a
  BY <1>1, <1>3 DEF Active, Base, TypeOK, Procs
<1>5. pc'[a] = "remove"
  BY <1>1 DEF Base, TypeOK, Procs
<1>6. QED
  BY <1>1, <1>4, <1>5 DEF GlobalCovered, Active

\* The admin call ends with the current bucket scheduled, if it refills.
LEMMA AdminCovers ==
    ASSUME Base, GlobalCovered, NEW a \in Admins, RemoveGlobal(a) \/ ScheduleGlobal(a)
    PROVE  GlobalCovered'
<1> USE DEF Base, TypeOK, Procs
<1>1. SUFFICES ASSUME ~overlapped' PROVE GlobalCovered'
  BY DEF GlobalCovered
<1>2. /\ ~overlapped /\ Active(a)
      /\ UNCHANGED <<globalBucket, refills, firing>>
      /\ \A b \in Admins : Active(b) => b = a
  BY <1>1 DEF RemoveGlobal, ScheduleGlobal, GlobalCovered, Active
<1>3. CASE RemoveGlobal(a) /\ frame[a].bkt # Nil /\ refills[a]
  <2>1. pc' = [pc EXCEPT ![a] = "schedule"] /\ frame' = frame /\ pc[a] = "remove"
    BY <1>3 DEF RemoveGlobal, Goto
  <2>2. frame[a].bkt = a /\ globalBucket = a
    BY <1>2, <1>3, <2>1 DEF GlobalCovered
  <2>3. \A b \in Admins : Active(b)' <=> b = a
    BY <1>2, <2>1 DEF Active
  <2>4. QED
    BY <1>2, <2>1, <2>2, <2>3 DEF GlobalCovered, Active
<1>4. CASE RemoveGlobal(a) /\ ~(frame[a].bkt # Nil /\ refills[a])
  <2>1. pc' = [pc EXCEPT ![a] = "done"] /\ pc[a] = "remove"
    BY <1>4 DEF RemoveGlobal, Finish, Goto
  <2>2. globalBucket = Nil \/ (globalBucket = a /\ ~refills[a])
    BY <1>2, <1>4, <2>1 DEF GlobalCovered
  <2>3. \A b \in Admins : ~Active(b)'
    BY <1>2, <2>1 DEF Active
  <2>4. QED
    BY <1>2, <2>2, <2>3 DEF GlobalCovered, Active
<1>5. CASE ScheduleGlobal(a)
  <2>1. /\ pc' = [pc EXCEPT ![a] = "done"]
        /\ sched' = [sched EXCEPT ![GlobalId] = NextRefillTime(frame[a].bkt)]
    BY <1>5 DEF ScheduleGlobal, Finish, Goto
  <2>2. \A b \in Admins : ~Active(b)'
    BY <1>2, <2>1 DEF Active
  <2>3. Held(GlobalId)'
    BY <2>1 DEF Held, NextRefillTime, Ids
  <2>4. QED
    BY <2>2, <2>3 DEF GlobalCovered, Active
<1>6. QED
  BY <1>3, <1>4, <1>5

\* Requests and callbacks leave the admin calls and the global pointer alone.
LEMMA OthersCover ==
    ASSUME Base, GlobalCovered, UNCHANGED <<globalBucket, overlapped>>,
           \A a \in Admins : pc'[a] = pc[a] /\ frame'[a] = frame[a],
           globalBucket # Nil => refills'[globalBucket] = refills[globalBucket],
           Held(GlobalId) => Held(GlobalId)' \/ globalBucket = Nil
    PROVE  GlobalCovered'
BY DEF GlobalCovered, Active

\* Every step keeps the global bucket covered.
LEMMA GlobalStep == Base /\ GlobalCovered /\ [Next]_vars => GlobalCovered'
<1> SUFFICES ASSUME Base, GlobalCovered, [Next]_vars PROVE GlobalCovered'
  OBVIOUS
<1>1. ASSUME NEW r \in Requests, Serve(r) \/ \E ip \in IPs \cup {Nil} : Request(r, ip)
      PROVE  GlobalCovered'
  <2>1. UNCHANGED <<globalBucket, overlapped, firing>>
    BY <1>1
    DEF Serve, Request, GlobalGate, IPGate, Pass, IPLookup, IPCreate, ClientGate
  <2>2. \A a \in Admins : pc'[a] = pc[a] /\ frame'[a] = frame[a]
    BY <1>1, NamesAssumption
    DEF Serve, Request, GlobalGate, IPGate, Pass, IPLookup, IPCreate, ClientGate, Goto, Finish,
        Base, TypeOK, Procs
  <2>3. refills' = [refills EXCEPT ![r] = TRUE] \/ refills' = refills
    BY <1>1
    DEF Serve, Request, GlobalGate, IPGate, Pass, IPLookup, IPCreate, ClientGate
  <2>4. sched'[GlobalId] = sched[GlobalId] \/ sched'[GlobalId] = "later"
    <3>1. CASE IPCreate(r) /\ ipBuckets[frame[r].ip] = Nil
      <4>1. PICK old \in Oldest :
              sched' = [i \in Ids |-> IF i = frame[r].ip THEN "later"
                                      ELSE IF i = old THEN "none" ELSE sched[i]]
        BY <3>1 DEF IPCreate
      <4>2. old # GlobalId
        BY <4>1, NamesAssumption DEF Oldest, Scan, Ids
      <4>3. QED
        BY <4>1, <4>2 DEF Ids
    <3>2. CASE ~(IPCreate(r) /\ ipBuckets[frame[r].ip] = Nil)
      BY <1>1, <3>2
      DEF Serve, Request, GlobalGate, IPGate, Pass, IPLookup, IPCreate, ClientGate
    <3>3. QED
      BY <3>1, <3>2
  <2>5. Held(GlobalId) => Held(GlobalId)'
    BY <2>1, <2>4 DEF Held
  <2>6. globalBucket # Nil => refills'[globalBucket] = refills[globalBucket]
    <3>1. globalBucket # Nil => globalBucket \in BucketIds /\ globalBucket # r
      BY NamesAssumption DEF Base, TypeOK, Procs, BucketIds
    <3>2. \A b \in BucketIds : b # r => refills'[b] = refills[b]
      BY <2>3 DEF Base, TypeOK
    <3>3. QED
      BY <3>1, <3>2
  <2>7. QED
    BY <2>1, <2>2, <2>5, <2>6, OthersCover
<1>2. CASE (\E ids \in SUBSET Ids : Fire(ids)) \/ ProcessDue
  <2>1. UNCHANGED <<globalBucket, refills, pc, frame, overlapped>>
    BY <1>2 DEF Fire, ProcessDue, OnDue, Reschedule
  <2>2. Held(GlobalId) => Held(GlobalId)' \/ globalBucket = Nil
    BY <1>2, ProcessHolds DEF BucketOf, Ids
  <2>3. QED
    BY <2>1, <2>2, OthersCover
<1>3. CASE UNCHANGED vars
  BY <1>3, OthersCover DEF vars, Held
<1>4. QED
  BY <1>1, <1>2, <1>3, BeginCovers, AdminCovers DEF Next
-----------------------------------------------------------------------------
\* Requests, admin calls and callbacks keep the invariant.
LEMMA Invariance == Spec => []IInv
<1>1. Init => IInv
  <2> SUFFICES ASSUME Init PROVE IInv
    OBVIOUS
  <2>1. globalBucket \in Admins \cup {Main, Nil} /\ overlapped \in BOOLEAN
    BY DEF Init
  <2>2. Base
    BY <2>1, NamesAssumption
    DEF Init, Base, TypeOK, Locals, NoFrame, NotFiring, Entries, BucketIds, Procs
  <2>3. IPCapacity
    <3>1. {i \in IPs : ipBuckets[i] # Nil} = {}
      BY DEF Init
    <3>2. QED
      BY <3>1, FS_EmptySet, CapAssumption DEF IPCapacity
  <2>4. IPCovered /\ GlobalCovered
    BY DEF Init, IPCovered, GlobalCovered, Active, Held, Procs, Ids
  <2>5. QED
    BY <2>2, <2>3, <2>4 DEF IInv
<1>2. IInv /\ [Next]_vars => IInv'
  BY BaseStep, CapacityStep, IPCoveredStep, GlobalStep DEF IInv
<1>3. QED
  BY <1>1, <1>2, PTL DEF Spec

\* store.Allow's gates, SetGlobalConfig, OnDue: the state keeps its types and no
\* nil bucket is called, for any addresses and goroutines.
THEOREM TypeCorrect == Spec => []TypeOK
<1>1. IInv => TypeOK
  BY DEF IInv, Base
<1>2. QED
  BY <1>1, Invariance, PTL

\* getOrCreateIPBucket: there are never more than ipBucketCap buckets of addresses,
\* for any capacity and any number of racing requests.
THEOREM IPCapacityTheorem == Spec => []IPCapacity
<1>1. IInv => IPCapacity
  BY DEF IInv
<1>2. QED
  BY <1>1, Invariance, PTL

\* SetGlobalConfig, DisableGlobal, getOrCreateIPBucket, OnDue: at quiet moments
\* every current bucket that refills is scheduled, for any addresses, requests and
\* admin calls that have not overlapped.
THEOREM CoveredTheorem == Spec => []GatesCovered
<1>1. IInv => GatesCovered
  <2> SUFFICES ASSUME IInv, Idle, ~overlapped, NEW i \in Ids,
                      BucketOf(i) # Nil, refills[BucketOf(i)]
               PROVE  sched[i] # "none"
    BY DEF GatesCovered
  <2>1. firing.due = {}
    BY DEF Idle, NotFiring
  <2>2. \A a \in Admins : ~Active(a)
    BY DEF Idle, Active, Procs
  <2>3. Held(i)
    BY <2>2 DEF IInv, IPCovered, GlobalCovered, BucketOf, Ids
  <2>4. QED
    BY <2>1, <2>3 DEF Held
<1>2. QED
  BY <1>1, Invariance, PTL
=============================================================================
