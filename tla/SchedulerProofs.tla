-------------------------- MODULE SchedulerProofs ---------------------------
(***************************************************************************)
(* TypeOK and NoOversleep of Scheduler, for any ids, clients and bounds,   *)
(* and below what its heap does, in RefillHeap.                            *)
(*                                                                         *)
(* NoOversleep is about the select only; what makes it inductive is that   *)
(* it already holds between nextWait and the timer's Reset, where clients  *)
(* move entries under a wait that has been computed and not yet started.   *)
(***************************************************************************)
EXTENDS RefillHeap, WellFoundedInduction, TLAPS

\* The wait is no longer than entry i needed when nextWait looked.
Fits(i) == wait <= (IF next[i] > lookedAt THEN next[i] - lookedAt ELSE 0)

\* The inductive form of NoOversleep.
WaitFits == pc \in {"reset", "select"} /\ ~Signalling => \A i \in entries : Fits(i)

IInv == TypeOK /\ WaitFits

\* Min is one of the earliest times.
LEMMA MinOfTimes ==
    ASSUME NEW S \in SUBSET Nat, S # {}
    PROVE  Min(S) \in S /\ \A t \in S : Min(S) <= t
<1> DEFINE less == {p \in Nat \X Nat : p[1] < p[2]}
<1>1. IsWellFoundedOn(less, Nat)
  <2>1. IsWellFoundedOn(OpToRel(<, Nat), Nat)
    BY NatLessThanWellFounded
  <2>2. QED
    BY <2>1 DEF OpToRel
<1>2. PICK x \in S : \A y \in S : ~(<<y, x>> \in less)
  BY <1>1, WFMin
<1>3. ASSUME NEW y \in S PROVE x <= y
  <2>1. <<y, x>> \in Nat \X Nat /\ <<y, x>> \notin less
    BY <1>2
  <2>2. ~(<<y, x>>[1] < <<y, x>>[2])
    BY <2>1
  <2>3. QED
    BY <2>2
<1>4. QED
  BY <1>3 DEF Min

\* What nextWait computes fits every entry of the heap.
LEMMA NextWaitFits ==
    ASSUME TypeOK, NextWait
    PROVE  wait' \in Nat /\ \A i \in entries : Fits(i)'
<1>1. /\ wait' = IF entries = {} THEN Hour ELSE WaitFor(Min({next[i] : i \in entries}))
      /\ lookedAt' = now /\ UNCHANGED <<entries, next>>
  BY DEF NextWait, heap
<1>2. CASE entries = {}
  BY <1>1, <1>2, HourAssumption
<1>3. CASE entries # {}
  <2> DEFINE times == {next[i] : i \in entries}
  <2>1. times \in SUBSET Nat /\ times # {}
    BY <1>3 DEF TypeOK
  <2>2. Min(times) \in Nat /\ \A i \in entries : Min(times) <= next[i]
    <3> HIDE DEF times
    <3>1. Min(times) \in times /\ \A t \in times : Min(times) <= t
      BY <2>1, MinOfTimes
    <3>2. QED
      BY <2>1, <3>1 DEF times
  <2>3. \A i \in entries : next[i] \in Nat
    BY DEF TypeOK
  <2>4. wait' = WaitFor(Min(times)) /\ now \in Nat
    BY <1>1, <1>3 DEF TypeOK
  <2> HIDE DEF times
  <2>5. QED
    BY <1>1, <2>2, <2>3, <2>4 DEF WaitFor, Fits
<1>4. QED
  BY <1>2, <1>3

\* Every step keeps the types.
LEMMA TypeStep == TypeOK /\ [Next]_vars => TypeOK'
<1> SUFFICES ASSUME TypeOK, [Next]_vars PROVE TypeOK'
  OBVIOUS
<1> USE DEF TypeOK, heap, timer, batch
<1>1. CASE NextWait
  BY <1>1, NextWaitFits DEF NextWait
<1>2. CASE ResetTimer
  BY <1>2 DEF ResetTimer
<1>3. CASE SelectWakeup \/ SelectTimer \/ SelectDone
  <2>1. CASE SelectWakeup
    BY <2>1 DEF SelectWakeup, Loop
  <2>2. CASE SelectTimer
    BY <2>2 DEF SelectTimer
  <2>3. CASE SelectDone
    BY <2>3 DEF SelectDone
  <2>4. QED
    BY <1>3, <2>1, <2>2, <2>3
<1>4. CASE Pop
  BY <1>4 DEF Pop
<1>5. ASSUME NEW ok \in BOOLEAN, NEW t \in Nat, OnDue(ok, t) PROVE TypeOK'
  BY <1>5 DEF OnDue
<1>6. CASE Reschedule
  BY <1>6 DEF Reschedule, Insert, NoAnswer
<1>7. CASE RunSignal
  BY <1>7 DEF RunSignal
<1>8. CASE BatchDone
  BY <1>8 DEF BatchDone, Loop
<1>9. ASSUME NEW c \in Clients, NEW id \in Ids, NEW t \in Times, Schedule(c, id, t)
      PROVE  TypeOK'
  BY <1>9, TimeAssumption DEF Schedule, Insert, Times
<1>10. ASSUME NEW c \in Clients, NEW id \in Ids, Remove(c, id) PROVE TypeOK'
  BY <1>10 DEF Remove
<1>11. ASSUME NEW c \in Clients, ClientSignal(c) PROVE TypeOK'
  BY <1>11 DEF ClientSignal
<1>12. CASE Cancel
  BY <1>12 DEF Cancel
<1>13. CASE Tick
  BY <1>13 DEF Tick
<1>14. CASE UNCHANGED vars
  BY <1>14 DEF vars
<1>15. Times \subseteq Nat
  BY TimeAssumption DEF Times
<1> HIDE DEF TypeOK, heap, timer, batch
<1>16. CASE Run
  BY <1>1, <1>2, <1>3, <1>4, <1>5, <1>6, <1>7, <1>8, <1>15, <1>16 DEF Run
<1>17. QED
  BY <1>9, <1>10, <1>11, <1>12, <1>13, <1>14, <1>16 DEF Next

\* Every change of the heap while Run is on its way to sleep comes from a client
\* that is going to signal, or only removes entries.
LEMMA WaitStep == IInv /\ [Next]_vars => WaitFits'
<1> SUFFICES ASSUME TypeOK, WaitFits, [Next]_vars PROVE WaitFits'
  BY DEF IInv
<1>1. CASE NextWait
  BY <1>1, NextWaitFits DEF NextWait, WaitFits, heap
<1>2. CASE ResetTimer
  BY <1>2 DEF ResetTimer, WaitFits, Fits, Signalling, heap
<1>3. CASE Run /\ ~NextWait /\ ~ResetTimer
  <2>1. pc' \notin {"reset", "select"}
    BY <1>3 DEF Run, SelectWakeup, SelectTimer, SelectDone, Pop, OnDue, Reschedule,
        RunSignal, BatchDone, Loop
  <2>2. QED
    BY <2>1 DEF WaitFits
<1>4. ASSUME NEW c \in Clients, NEW id \in Ids, NEW t \in Times, Schedule(c, id, t)
      PROVE  WaitFits'
  <2>1. clientPC'[c] = "signal"
    BY <1>4 DEF Schedule, TypeOK
  <2>2. QED
    BY <2>1 DEF WaitFits, Signalling
<1>5. ASSUME NEW c \in Clients, NEW id \in Ids, Remove(c, id) PROVE WaitFits'
  <2>1. /\ entries' = entries \ {id}
        /\ \A i \in entries' : next'[i] = next[i]
        /\ UNCHANGED <<wakeup, clientPC, pc, wait, lookedAt>>
    BY <1>5 DEF Remove, timer, TypeOK
  <2>2. QED
    BY <2>1 DEF WaitFits, Fits, Signalling
<1>6. ASSUME NEW c \in Clients, ClientSignal(c) PROVE WaitFits'
  BY <1>6 DEF ClientSignal, WaitFits, Signalling
<1>7. CASE Cancel \/ Tick \/ UNCHANGED vars
  <2>1. UNCHANGED <<entries, next, wakeup, clientPC, pc, wait, lookedAt>>
    BY <1>7 DEF Cancel, Tick, vars, heap, timer
  <2>2. QED
    BY <2>1 DEF WaitFits, Fits, Signalling
<1>8. QED
  BY <1>1, <1>2, <1>3, <1>4, <1>5, <1>6, <1>7 DEF Next

\* The invariant holds throughout.
LEMMA Invariance == Spec => []IInv
<1>1. Init => IInv
  <2>1. ASSUME Init PROVE TypeOK
    <3>1. wakeup \in BOOLEAN /\ ctxDone \in BOOLEAN
      BY <2>1, Zenon DEF Init
    <3>2. answer \in [ids : SUBSET Ids, time : Nat]
      BY <2>1 DEF Init, NoAnswer
    <3>3. next \in [Ids -> Nat] /\ popped \in [Ids -> Nat]
      BY <2>1 DEF Init
    <3>4. clientPC \in [Clients -> {"idle", "signal"}]
      BY <2>1 DEF Init
    <3>5. QED
      BY <2>1, <3>1, <3>2, <3>3, <3>4 DEF Init, TypeOK
  <2>2. Init => WaitFits
    BY DEF Init, WaitFits
  <2>3. QED
    BY <2>1, <2>2 DEF IInv
<1>2. IInv /\ [Next]_vars => IInv'
  BY TypeStep, WaitStep DEF IInv
<1>3. QED
  BY <1>1, <1>2, PTL DEF Spec

\* Scheduler.Run, Schedule, Remove: the scheduler's state keeps its types, so
\* that no wait is negative, for any ids and clients.
THEOREM TypeCorrect == Spec => []TypeOK
<1>1. IInv => TypeOK
  BY DEF IInv
<1>2. QED
  BY <1>1, Invariance, PTL
-----------------------------------------------------------------------------
(***************************************************************************)
(* IndexAgrees and HeapMatches of RefillHeap, for any number of entries    *)
(* and any times.  While container/heap sifts, the heap is out of order    *)
(* around one slot only, and that slot's parent is no later than its       *)
(* children: the lemmas say how a swap hands this on to the next slot.     *)
(***************************************************************************)
Child(a, b) == b = 2 * a \/ b = 2 * a + 1

\* v: the time in each slot; n: how many slots; x: a slot.
InOrder(v, n) == \A a, b \in 1 .. n : Child(a, b) => v[a] <= v[b]
AllBut(v, n, x) == \A a, b \in 1 .. n : Child(a, b) /\ a # x /\ b # x => v[a] <= v[b]
Across(v, n, x) == \A a, b \in 1 .. n : Child(a, x) /\ Child(x, b) => v[a] <= v[b]
Above(v, n, x) == \A a \in 1 .. n : Child(a, x) => v[a] <= v[x]
Below(v, n, x) == \A b \in 1 .. n : Child(x, b) => v[x] <= v[b]

\* Slots other than x are as they were in an ordered heap.
LEMMA Disturbed ==
    ASSUME NEW n \in Nat, NEW x \in 1 .. n, NEW v, NEW w,
           \A k \in 1 .. n : v[k] \in Nat /\ w[k] \in Nat,
           InOrder(v, n), \A k \in 1 .. n : k # x => w[k] = v[k]
    PROVE  AllBut(w, n, x) /\ Across(w, n, x)
<1>1. AllBut(w, n, x)
  BY DEF InOrder, AllBut
<1>2. Across(w, n, x)
  <2>1. ASSUME NEW a \in 1 .. n, NEW b \in 1 .. n, Child(a, x), Child(x, b)
        PROVE  w[a] <= w[b]
    <3>1. a # x /\ b # x
      BY <2>1 DEF Child
    <3>2. v[a] <= v[x] /\ v[x] <= v[b]
      BY <2>1 DEF InOrder
    <3>3. w[a] = v[a] /\ w[b] = v[b] /\ v[a] \in Nat /\ v[b] \in Nat /\ v[x] \in Nat
      BY <3>1
    <3>4. QED
      BY <3>2, <3>3
  <2>2. QED
    BY <2>1 DEF Across
<1>3. QED
  BY <1>1, <1>2

\* A turn of down that swaps slot i with j, the earlier of its children.
LEMMA DownMoves ==
    ASSUME NEW n \in Nat, NEW i \in 1 .. n, NEW j \in 1 .. n, NEW v, NEW w,
           \A k \in 1 .. n : v[k] \in Nat,
           AllBut(v, n, i), Across(v, n, i), Child(i, j), v[j] < v[i],
           \A b \in 1 .. n : Child(i, b) => v[j] <= v[b],
           w[i] = v[j], w[j] = v[i], \A k \in 1 .. n : k # i /\ k # j => w[k] = v[k]
    PROVE  AllBut(w, n, j) /\ Across(w, n, j) /\ Above(w, n, j)
<1>0. i # j
  BY DEF Child
<1>1. ASSUME NEW a \in 1 .. n, NEW b \in 1 .. n, Child(a, b), a # j, b # j
      PROVE  w[a] <= w[b]
  <2>1. a # b
    BY <1>1 DEF Child
  <2>2. CASE a = i
    BY <1>1, <2>1, <2>2
  <2>3. CASE b = i
    <3>1. v[a] <= v[j]
      BY <1>1, <2>3 DEF Across
    <3>2. QED
      BY <1>1, <2>1, <2>3, <3>1
  <2>4. CASE a # i /\ b # i
    BY <1>1, <2>4 DEF AllBut
  <2>5. QED
    BY <2>2, <2>3, <2>4
<1>2. ASSUME NEW a \in 1 .. n, NEW b \in 1 .. n, Child(a, j), Child(j, b)
      PROVE  w[a] <= w[b]
  <2>1. a = i /\ b # i /\ b # j
    BY <1>2 DEF Child
  <2>2. v[j] <= v[b]
    BY <1>0, <1>2, <2>1 DEF AllBut
  <2>3. QED
    BY <2>1, <2>2
<1>3. ASSUME NEW a \in 1 .. n, Child(a, j) PROVE w[a] <= w[j]
  <2>1. a = i
    BY <1>3 DEF Child
  <2>2. v[i] \in Nat /\ v[j] \in Nat
    OBVIOUS
  <2>3. QED
    BY <2>1, <2>2
<1>4. QED
  BY <1>1, <1>2, <1>3 DEF AllBut, Across, Above

\* A turn of up that swaps slot j with its parent i.
LEMMA UpMoves ==
    ASSUME NEW n \in Nat, NEW i \in 1 .. n, NEW j \in 1 .. n, NEW v, NEW w,
           \A k \in 1 .. n : v[k] \in Nat,
           AllBut(v, n, j), Across(v, n, j), Below(v, n, j), Child(i, j), v[j] < v[i],
           w[i] = v[j], w[j] = v[i], \A k \in 1 .. n : k # i /\ k # j => w[k] = v[k]
    PROVE  AllBut(w, n, i) /\ Across(w, n, i) /\ Below(w, n, i)
<1>0. i # j
  BY DEF Child
<1>1. ASSUME NEW a \in 1 .. n, NEW b \in 1 .. n, Child(a, b), a # i, b # i
      PROVE  w[a] <= w[b]
  <2>1. b # j
    BY <1>1 DEF Child
  <2>2. CASE a = j
    BY <1>1, <2>1, <2>2 DEF Across
  <2>3. CASE a # j
    BY <1>1, <2>1, <2>3 DEF AllBut
  <2>4. QED
    BY <2>2, <2>3
<1>2. \A b \in 1 .. n : Child(i, b) => v[i] <= w[b]
  <2>1. ASSUME NEW b \in 1 .. n, Child(i, b) PROVE v[i] <= w[b]
    <3>1. b # i /\ v[i] \in Nat
      BY <2>1 DEF Child
    <3>2. CASE b = j
      BY <3>1, <3>2
    <3>3. CASE b # j
      BY <1>0, <2>1, <3>1, <3>3 DEF AllBut
    <3>4. QED
      BY <3>2, <3>3
  <2>2. QED
    BY <2>1
<1>3. ASSUME NEW a \in 1 .. n, NEW b \in 1 .. n, Child(a, i), Child(i, b)
      PROVE  w[a] <= w[b]
  <2>1. a # i /\ a # j /\ b # i
    BY <1>3 DEF Child
  <2>2. v[a] <= v[i] /\ w[a] = v[a]
    BY <1>0, <1>3, <2>1 DEF AllBut
  <2>3. v[i] <= w[b] /\ v[i] \in Nat /\ v[a] \in Nat /\ w[b] \in Nat
    BY <1>2, <1>3, <2>1
  <2>4. QED
    BY <2>2, <2>3
<1>4. ASSUME NEW b \in 1 .. n, Child(i, b) PROVE w[i] <= w[b]
  <2>1. b # i
    BY <1>4 DEF Child
  <2>2. v[i] <= w[b] /\ v[i] \in Nat /\ v[j] \in Nat /\ w[b] \in Nat
    BY <1>2, <1>4, <2>1
  <2>3. QED
    BY <2>2
<1>5. QED
  BY <1>1, <1>3, <1>4 DEF AllBut, Across, Below

\* The loop ends where the slot is in order with its parent and its children.
LEMMA Settled ==
    ASSUME NEW n, NEW x, NEW v, AllBut(v, n, x), Above(v, n, x), Below(v, n, x)
    PROVE  InOrder(v, n)
BY DEF AllBut, Above, Below, InOrder

\* The root of an ordered heap is no later than any slot: of the slots that are
\* earlier, the first would have a parent that is earlier too.
LEMMA RootIsEarliest ==
    ASSUME NEW n \in Nat, NEW v, \A k \in 1 .. n : v[k] \in Nat, InOrder(v, n)
    PROVE  \A k \in 1 .. n : v[1] <= v[k]
<1> DEFINE early == {k \in 1 .. n : v[k] < v[1]}
<1>1. SUFFICES ASSUME early # {} PROVE FALSE
  <2>1. ASSUME NEW k \in 1 .. n, early = {} PROVE v[1] <= v[k]
    <3>1. k \notin early /\ v[k] \in Nat /\ v[1] \in Nat
      BY <2>1
    <3>2. QED
      BY <3>1
  <2>2. QED
    BY <2>1, <1>1
<1>2. early \in SUBSET Nat
  OBVIOUS
<1>3. PICK k \in early : \A e \in early : k <= e
  <2> HIDE DEF early
  <2>1. QED
    BY <1>1, <1>2, MinOfTimes
<1>4. k \in 1 .. n /\ v[k] < v[1] /\ k # 1
  <2>1. k \in 1 .. n /\ v[k] < v[1] /\ v[1] \in Nat
    BY <1>3
  <2>2. QED
    BY <2>1
<1>5. PICK p \in 1 .. n : p < k /\ Child(p, k)
  <2>1. k \div 2 \in 1 .. n /\ k \div 2 < k /\ Child(k \div 2, k)
    BY <1>4 DEF Child
  <2>2. QED
    BY <2>1
<1>6. v[p] <= v[k]
  BY <1>4, <1>5 DEF InOrder
<1>7. v[p] < v[1]
  <2>1. v[p] \in Nat /\ v[k] \in Nat /\ v[1] \in Nat
    BY <1>4
  <2>2. QED
    BY <1>4, <1>6, <2>1
<1>8. p \in early
  BY <1>7
<1>9. QED
  BY <1>3, <1>5, <1>8, <1>4

\* The time of the entry in each slot.
Key == [k \in DOMAIN h |-> nextRefillTime[h[k]]]

\* The map, with the entry that Schedule will put there.
InHeap == scheduled \cup sift.added

\* IndexAgrees, and what the map lacks while container/heap is at work.
Indexed ==
    /\ \A i \in DOMAIN h : heapIndex[h[i]] = i
    /\ InHeap = {h[i] : i \in DOMAIN h}
    /\ \A id \in Ids \ InHeap : heapIndex[id] = 0

HeapTypes ==
    /\ h \in Seq(Ids)
    /\ nextRefillTime \in [Ids -> Nat]
    /\ heapIndex \in [Ids -> Nat]
    /\ sift.at \in Nat /\ sift.from \in Nat /\ sift.n \in Nat
    /\ sift = [run |-> sift.run, at |-> sift.at, from |-> sift.from, n |-> sift.n,
               ids |-> sift.ids, added |-> sift.added]
    /\ sift.run \in {"idle", "down", "up", "pop"}

\* What the loop works on: all slots, or all but the last, which holds the entry
\* that is being taken out.
Slots ==
    /\ sift.ids = {} => sift.n = Len(h)
    /\ sift.ids # {} => /\ Len(h) > 0 /\ sift.n = Len(h) - 1
                        /\ sift.ids = {h[Len(h)]} /\ sift.added = {}

\* Only slot x = sift.at may be out of order.
OneOut == sift.at \in 1 .. sift.n /\ AllBut(Key, sift.n, sift.at) /\ Across(Key, sift.n, sift.at)

SiftInv ==
    /\ sift.run = "idle" => sift = Idle /\ InOrder(Key, Len(h))
    /\ sift.run # "idle" => Slots
    /\ sift.run = "pop" => sift.ids # {} /\ InOrder(Key, sift.n)
    /\ sift.run = "down" => OneOut /\ (sift.at > sift.from => Above(Key, sift.n, sift.at))
    /\ sift.run = "up" => OneOut /\ Below(Key, sift.n, sift.at)

HeapInv == HeapTypes /\ Indexed /\ SiftInv

\* Every slot has an entry with a time.
LEMMA SlotFacts ==
    ASSUME HeapTypes
    PROVE  /\ Len(h) \in Nat /\ DOMAIN h = 1 .. Len(h)
           /\ \A k \in 1 .. Len(h) : h[k] \in Ids /\ Key[k] = nextRefillTime[h[k]] /\ Key[k] \in Nat
BY DEF HeapTypes, Key

\* The part the loop works on.
LEMMA LoopFacts ==
    ASSUME HeapTypes, Slots
    PROVE  /\ sift.n \in Nat /\ Len(h) \in Nat /\ sift.n <= Len(h)
           /\ sift.ids # {} => Len(h) > 0 /\ sift.n = Len(h) - 1
           /\ \A k \in 1 .. sift.n : Key[k] = nextRefillTime[h[k]] /\ Key[k] \in Nat
<1>1. sift.n \in Nat /\ Len(h) \in Nat
  BY DEF HeapTypes
<1>2. sift.ids # {} => Len(h) > 0 /\ sift.n = Len(h) - 1
  BY DEF Slots
<1>3. sift.n <= Len(h)
  BY <1>1, <1>2 DEF Slots
<1>4. \A k \in 1 .. Len(h) : Key[k] = nextRefillTime[h[k]] /\ Key[k] \in Nat
  BY SlotFacts
<1>5. QED
  BY <1>1, <1>2, <1>3, <1>4

\* Swap exchanges two slots and keeps the indices right.
LEMMA SwapFacts ==
    ASSUME HeapTypes, Indexed, NEW i \in 1 .. Len(h), NEW j \in 1 .. Len(h), i # j,
           Swap(i, j), UNCHANGED <<nextRefillTime, InHeap>>
    PROVE  /\ h' \in Seq(Ids) /\ Len(h') = Len(h) /\ heapIndex' \in [Ids -> Nat]
           /\ h'[i] = h[j] /\ h'[j] = h[i]
           /\ \A k \in 1 .. Len(h) : k # i /\ k # j => h'[k] = h[k]
           /\ Key'[i] = Key[j] /\ Key'[j] = Key[i]
           /\ \A k \in 1 .. Len(h) : k # i /\ k # j => Key'[k] = Key[k]
           /\ Indexed'
<1>0. /\ Len(h) \in Nat /\ DOMAIN h = 1 .. Len(h)
      /\ \A k \in 1 .. Len(h) : h[k] \in Ids /\ Key[k] = nextRefillTime[h[k]]
  BY SlotFacts
<1>1. h' \in Seq(Ids) /\ Len(h') = Len(h) /\ DOMAIN h' = 1 .. Len(h)
  BY <1>0 DEF Swap, HeapTypes
<1>2. /\ h'[i] = h[j] /\ h'[j] = h[i]
      /\ \A k \in 1 .. Len(h) : k # i /\ k # j => h'[k] = h[k]
  BY <1>0 DEF Swap
<1>3. \A k \in 1 .. Len(h) : Key'[k] = nextRefillTime[h'[k]]
  BY <1>1 DEF Key
<1>4. /\ Key'[i] = Key[j] /\ Key'[j] = Key[i]
      /\ \A k \in 1 .. Len(h) : k # i /\ k # j => Key'[k] = Key[k]
  BY <1>0, <1>2, <1>3
<1>5. heapIndex' \in [Ids -> Nat]
  <2>1. heapIndex \in [Ids -> Nat] /\ i \in Nat /\ j \in Nat
    BY <1>0 DEF HeapTypes
  <2>2. heapIndex' = [heapIndex EXCEPT ![h[j]] = i, ![h[i]] = j]
    BY DEF Swap
  <2>3. QED
    BY <2>1, <2>2
<1>6. \A k \in 1 .. Len(h) : heapIndex[h[k]] = k
  BY <1>0 DEF Indexed
<1>7. h[i] # h[j]
  BY <1>6
<1>8. /\ heapIndex'[h[j]] = i /\ heapIndex'[h[i]] = j
      /\ \A id \in Ids : id # h[i] /\ id # h[j] => heapIndex'[id] = heapIndex[id]
  BY <1>0, <1>7 DEF Swap, HeapTypes
<1>9. \A k \in DOMAIN h' : heapIndex'[h'[k]] = k
  <2>1. ASSUME NEW k \in 1 .. Len(h), k # i, k # j PROVE heapIndex'[h'[k]] = k
    BY <1>0, <1>2, <1>6, <1>8, <2>1
  <2>2. QED
    BY <1>1, <1>2, <1>8, <2>1
<1>10. {h'[k] : k \in DOMAIN h'} = {h[k] : k \in DOMAIN h}
  <2>1. ASSUME NEW k \in 1 .. Len(h)
        PROVE  h[k] \in {h'[l] : l \in DOMAIN h'} /\ h'[k] \in {h[l] : l \in DOMAIN h}
    <3>1. PICK l \in 1 .. Len(h) : h'[l] = h[k]
      BY <1>2
    <3>2. PICK m \in 1 .. Len(h) : h[m] = h'[k]
      BY <1>2
    <3>3. QED
      BY <1>0, <1>1, <3>1, <3>2
  <2>2. QED
    BY <1>0, <1>1, <2>1
<1>11. \A id \in Ids \ InHeap : heapIndex'[id] = 0
  BY <1>0, <1>8 DEF Indexed
<1>12. Indexed'
  BY <1>9, <1>10, <1>11 DEF Indexed
<1>13. QED
  BY <1>1, <1>2, <1>4, <1>5, <1>12

\* The invariant, when the loop has ended.
LEMMA SettleStep ==
    ASSUME HeapInv, Settle, sift.run \in {"down", "up"}, Slots, InOrder(Key, sift.n),
           UNCHANGED <<h, heapIndex, nextRefillTime>>
    PROVE  HeapInv'
<1>a. InHeap' = InHeap
  BY DEF Settle, Slots, InHeap, Idle, HeapInv, HeapTypes
<1>0. Indexed' /\ Key' = Key
  BY <1>a DEF HeapInv, Indexed, Key
<1>1. CASE sift.ids = {}
  <2>1. sift' = Idle /\ sift.n = Len(h)
    BY <1>1 DEF Settle, Slots
  <2>2. HeapTypes'
    BY <2>1 DEF HeapInv, HeapTypes, Idle
  <2>3. InOrder(Key', Len(h'))
    BY <1>0, <2>1
  <2>4. SiftInv'
    BY <2>1, <2>3 DEF SiftInv, Idle
  <2>5. QED
    BY <1>0, <2>2, <2>4 DEF HeapInv
<1>2. CASE sift.ids # {}
  <2>1. /\ sift' = [sift EXCEPT !.run = "pop"]
        /\ sift = [run |-> sift.run, at |-> sift.at, from |-> sift.from, n |-> sift.n,
                   ids |-> sift.ids, added |-> sift.added]
    BY <1>2 DEF Settle, HeapInv, HeapTypes
  <2>2. sift' = [run |-> "pop", at |-> sift.at, from |-> sift.from, n |-> sift.n,
                 ids |-> sift.ids, added |-> sift.added]
    BY <2>1
  <2>3. HeapTypes'
    BY <2>2 DEF HeapInv, HeapTypes
  <2>4. InOrder(Key', sift'.n) /\ Slots'
    BY <1>0, <2>2 DEF Slots
  <2>5. SiftInv'
    BY <1>2, <2>2, <2>4 DEF SiftInv
  <2>6. QED
    BY <1>0, <2>3, <2>5 DEF HeapInv
<1>3. QED
  BY <1>1, <1>2

\* A turn that swaps two slots of the part the loop works on.
LEMMA TurnFacts ==
    ASSUME HeapTypes, Indexed, Slots, NEW run \in {"down", "up"},
           NEW i \in 1 .. sift.n, NEW j \in 1 .. sift.n, i # j, NEW at \in 1 .. sift.n,
           Swap(i, j), UNCHANGED <<nextRefillTime, scheduled>>,
           sift.run = run, sift' = [sift EXCEPT !.at = at]
    PROVE  /\ HeapTypes' /\ Indexed' /\ Slots'
           /\ Key'[i] = Key[j] /\ Key'[j] = Key[i]
           /\ \A k \in 1 .. sift.n : k # i /\ k # j => Key'[k] = Key[k]
           /\ sift' = [run |-> run, at |-> at, from |-> sift.from, n |-> sift.n,
                       ids |-> sift.ids, added |-> sift.added]
<1>1. /\ sift.n \in Nat /\ Len(h) \in Nat /\ sift.n <= Len(h) /\ at \in Nat
      /\ sift.ids # {} => sift.n = Len(h) - 1
      /\ sift = [run |-> sift.run, at |-> sift.at, from |-> sift.from, n |-> sift.n,
                 ids |-> sift.ids, added |-> sift.added]
  <2>1. /\ sift.n \in Nat /\ Len(h) \in Nat /\ sift.n <= Len(h)
        /\ sift.ids # {} => sift.n = Len(h) - 1
    BY LoopFacts
  <2>2. sift = [run |-> sift.run, at |-> sift.at, from |-> sift.from, n |-> sift.n,
                ids |-> sift.ids, added |-> sift.added]
    BY DEF HeapTypes
  <2>3. at \in Nat
    BY <2>1
  <2>4. QED
    BY <2>1, <2>2, <2>3
<1>2. sift' = [run |-> run, at |-> at, from |-> sift.from, n |-> sift.n,
               ids |-> sift.ids, added |-> sift.added]
  BY <1>1
<1>3. i \in 1 .. Len(h) /\ j \in 1 .. Len(h)
  BY <1>1
<1>a. InHeap' = InHeap
  BY <1>2 DEF InHeap
<1>4. /\ h' \in Seq(Ids) /\ Len(h') = Len(h) /\ heapIndex' \in [Ids -> Nat]
      /\ \A k \in 1 .. Len(h) : k # i /\ k # j => h'[k] = h[k]
      /\ Key'[i] = Key[j] /\ Key'[j] = Key[i]
      /\ \A k \in 1 .. Len(h) : k # i /\ k # j => Key'[k] = Key[k]
      /\ Indexed'
  BY <1>3, <1>a, SwapFacts
<1>5. HeapTypes'
  <2>1. sift'.at \in Nat /\ sift'.from \in Nat /\ sift'.n \in Nat
    BY <1>1, <1>2 DEF HeapTypes
  <2>2. /\ sift' = [run |-> sift'.run, at |-> sift'.at, from |-> sift'.from, n |-> sift'.n,
                    ids |-> sift'.ids, added |-> sift'.added]
        /\ sift'.run \in {"idle", "down", "up", "pop"}
    BY <1>2
  <2>3. nextRefillTime' \in [Ids -> Nat]
    BY DEF HeapTypes
  <2>4. QED
    BY <1>4, <2>1, <2>2, <2>3 DEF HeapTypes
<1>6. Slots'
  <2>1. sift'.n = sift.n /\ sift'.ids = sift.ids /\ sift'.added = sift.added
    BY <1>2
  <2>2. ASSUME sift.ids # {} PROVE h'[Len(h)] = h[Len(h)] /\ Len(h) > 0
    <3>1. Len(h) \in 1 .. Len(h) /\ Len(h) # i /\ Len(h) # j
      BY <1>1, <2>2, LoopFacts
    <3>2. QED
      BY <1>4, <3>1
  <2>3. QED
    BY <1>4, <2>1, <2>2 DEF Slots
<1>7. \A k \in 1 .. sift.n : k # i /\ k # j => Key'[k] = Key[k]
  BY <1>1, <1>4
<1>8. QED
  BY <1>2, <1>4, <1>5, <1>6, <1>7

\* What down chooses is the earlier child.
LEMMA EarlierChild ==
    ASSUME NEW n \in Nat, NEW i \in 1 .. n, NEW j, NEW v, \A k \in 1 .. n : v[k] \in Nat,
           2 * i <= n, j = IF 2 * i + 1 <= n /\ v[2 * i + 1] < v[2 * i] THEN 2 * i + 1 ELSE 2 * i
    PROVE  j \in 1 .. n /\ Child(i, j) /\ j # i /\ \A b \in 1 .. n : Child(i, b) => v[j] <= v[b]
<1>1. j \in 1 .. n /\ Child(i, j) /\ j # i
  BY DEF Child
<1>2. ASSUME NEW b \in 1 .. n, Child(i, b) PROVE v[j] <= v[b]
  <2>1. 2 * i \in 1 .. n /\ v[2 * i] \in Nat /\ v[b] \in Nat
    OBVIOUS
  <2>2. CASE b = 2 * i
    BY <2>1, <2>2
  <2>3. CASE b = 2 * i + 1
    BY <2>1, <2>3
  <2>4. QED
    BY <1>2, <2>2, <2>3 DEF Child
<1>3. QED
  BY <1>1, <1>2

\* A turn of down.
LEMMA DownStep == ASSUME HeapInv, Down PROVE HeapInv'
<1> DEFINE i == sift.at
           j == IF 2 * i + 1 <= sift.n /\ Less(2 * i + 1, 2 * i) THEN 2 * i + 1 ELSE 2 * i
<1>0. /\ HeapTypes /\ Indexed /\ Slots /\ OneOut
      /\ sift.at > sift.from => Above(Key, sift.n, sift.at)
      /\ sift.run = "down" /\ UNCHANGED nextRefillTime
  BY DEF HeapInv, SiftInv, Down
<1>1. /\ sift.n \in Nat /\ i \in 1 .. sift.n
      /\ \A k \in 1 .. sift.n : Key[k] = nextRefillTime[h[k]] /\ Key[k] \in Nat
  BY <1>0, LoopFacts DEF OneOut
<1>2. \A a, b \in 1 .. sift.n : Less(a, b) <=> Key[a] < Key[b]
  BY <1>1 DEF Less
<1>3. ASSUME 2 * i <= sift.n
      PROVE  /\ j \in 1 .. sift.n /\ Child(i, j) /\ j # i
             /\ \A b \in 1 .. sift.n : Child(i, b) => Key[j] <= Key[b]
  <2>1. 2 * i + 1 <= sift.n => (Less(2 * i + 1, 2 * i) <=> Key[2 * i + 1] < Key[2 * i])
    BY <1>1, <1>2, <1>3
  <2>2. j = IF 2 * i + 1 <= sift.n /\ Key[2 * i + 1] < Key[2 * i] THEN 2 * i + 1 ELSE 2 * i
    BY <2>1
  <2> HIDE DEF i, j
  <2>3. QED
    BY <1>1, <1>3, <2>2, EarlierChild
<1>4. \/ /\ 2 * i <= sift.n /\ Less(j, i) /\ Swap(i, j) /\ sift' = [sift EXCEPT !.at = j]
         /\ UNCHANGED scheduled
      \/ ~(2 * i <= sift.n /\ Less(j, i)) /\ i > sift.from /\ Settle /\ UNCHANGED <<h, heapIndex>>
      \/ /\ ~(2 * i <= sift.n /\ Less(j, i)) /\ sift' = [sift EXCEPT !.run = "up"]
         /\ UNCHANGED <<h, heapIndex>> /\ UNCHANGED scheduled
  BY Zenon DEF Down
<1>5. i = sift.at
  OBVIOUS
<1> HIDE DEF i, j
<1>6. CASE /\ 2 * i <= sift.n /\ Less(j, i) /\ Swap(i, j) /\ sift' = [sift EXCEPT !.at = j]
           /\ UNCHANGED scheduled
  <2>1. j \in 1 .. sift.n /\ Child(i, j) /\ j # i /\ Key[j] < Key[i]
    BY <1>1, <1>2, <1>3, <1>6
  <2>2. /\ HeapTypes' /\ Indexed' /\ Slots'
        /\ Key'[i] = Key[j] /\ Key'[j] = Key[i]
        /\ \A k \in 1 .. sift.n : k # i /\ k # j => Key'[k] = Key[k]
        /\ sift' = [run |-> "down", at |-> j, from |-> sift.from, n |-> sift.n,
                    ids |-> sift.ids, added |-> sift.added]
    BY <1>0, <1>1, <1>6, <2>1, TurnFacts
  <2>3. AllBut(Key', sift.n, j) /\ Across(Key', sift.n, j) /\ Above(Key', sift.n, j)
    <3>1. AllBut(Key, sift.n, i) /\ Across(Key, sift.n, i)
      BY <1>0, <1>5 DEF OneOut
    <3>2. QED
      BY <1>1, <1>3, <1>6, <2>1, <2>2, <3>1, DownMoves
  <2>4. OneOut' /\ Above(Key', sift'.n, sift'.at)
    BY <2>1, <2>2, <2>3 DEF OneOut
  <2>5. SiftInv'
    BY <2>2, <2>4 DEF SiftInv
  <2>6. QED
    BY <2>2, <2>5 DEF HeapInv
<1>7. ASSUME ~(2 * i <= sift.n /\ Less(j, i)) PROVE Below(Key, sift.n, sift.at)
  <2>1. ASSUME NEW b \in 1 .. sift.n, Child(i, b) PROVE Key[i] <= Key[b]
    <3>1. 2 * i <= sift.n
      BY <1>1, <2>1 DEF Child
    <3>2. j \in 1 .. sift.n /\ Key[j] <= Key[b] /\ ~(Key[j] < Key[i])
      BY <1>1, <1>2, <1>3, <1>7, <2>1, <3>1
    <3>3. Key[i] \in Nat /\ Key[j] \in Nat /\ Key[b] \in Nat
      BY <1>1, <3>2
    <3>4. QED
      BY <3>2, <3>3
  <2>2. QED
    BY <1>5, <2>1 DEF Below
<1>8. CASE ~(2 * i <= sift.n /\ Less(j, i)) /\ i > sift.from /\ Settle /\ UNCHANGED <<h, heapIndex>>
  <2>1. InOrder(Key, sift.n)
    BY <1>0, <1>5, <1>7, <1>8, Settled DEF OneOut
  <2>2. QED
    BY <1>0, <1>8, <2>1, SettleStep
<1>9. CASE /\ ~(2 * i <= sift.n /\ Less(j, i)) /\ sift' = [sift EXCEPT !.run = "up"]
           /\ UNCHANGED <<h, heapIndex>> /\ UNCHANGED scheduled
  <2>1. sift' = [run |-> "up", at |-> sift.at, from |-> sift.from, n |-> sift.n,
                 ids |-> sift.ids, added |-> sift.added]
    BY <1>0, <1>9 DEF HeapTypes
  <2>2. HeapTypes'
    BY <1>0, <1>9, <2>1 DEF HeapTypes
  <2>a. InHeap' = InHeap
    BY <1>9, <2>1 DEF InHeap
  <2>3. Key' = Key /\ Indexed'
    BY <1>0, <1>9, <2>a DEF Key, Indexed
  <2>4. Slots' /\ OneOut' /\ Below(Key', sift'.n, sift'.at)
    BY <1>0, <1>7, <1>9, <2>1, <2>3 DEF Slots, OneOut
  <2>5. SiftInv'
    BY <2>1, <2>4 DEF SiftInv
  <2>6. QED
    BY <2>2, <2>3, <2>5 DEF HeapInv
<1>10. QED
  BY <1>4, <1>6, <1>8, <1>9

\* A turn of up.
LEMMA UpStep == ASSUME HeapInv, Up PROVE HeapInv'
<1> DEFINE j == sift.at
           i == j \div 2
<1>0. /\ HeapTypes /\ Indexed /\ Slots /\ OneOut /\ Below(Key, sift.n, sift.at)
      /\ sift.run = "up" /\ UNCHANGED nextRefillTime
  BY DEF HeapInv, SiftInv, Up
<1>1. /\ sift.n \in Nat /\ j \in 1 .. sift.n
      /\ \A k \in 1 .. sift.n : Key[k] = nextRefillTime[h[k]] /\ Key[k] \in Nat
  BY <1>0, LoopFacts DEF OneOut
<1>2. \A a, b \in 1 .. sift.n : Less(a, b) <=> Key[a] < Key[b]
  BY <1>1 DEF Less
<1>3. /\ j > 1 => i \in 1 .. sift.n /\ Child(i, j) /\ i # j
      /\ \A a \in 1 .. sift.n : Child(a, j) => j > 1 /\ a = i
  BY <1>1 DEF Child
<1>4. \/ j > 1 /\ Less(j, i) /\ Swap(i, j) /\ sift' = [sift EXCEPT !.at = i] /\ UNCHANGED scheduled
      \/ ~(j > 1 /\ Less(j, i)) /\ Settle /\ UNCHANGED <<h, heapIndex>>
  BY Zenon DEF Up
<1>5. j = sift.at
  OBVIOUS
<1> HIDE DEF i, j
<1>6. CASE j > 1 /\ Less(j, i) /\ Swap(i, j) /\ sift' = [sift EXCEPT !.at = i] /\ UNCHANGED scheduled
  <2>1. i \in 1 .. sift.n /\ Child(i, j) /\ i # j /\ Key[j] < Key[i]
    BY <1>1, <1>2, <1>3, <1>6
  <2>2. /\ HeapTypes' /\ Indexed' /\ Slots'
        /\ Key'[i] = Key[j] /\ Key'[j] = Key[i]
        /\ \A k \in 1 .. sift.n : k # i /\ k # j => Key'[k] = Key[k]
        /\ sift' = [run |-> "up", at |-> i, from |-> sift.from, n |-> sift.n,
                    ids |-> sift.ids, added |-> sift.added]
    BY <1>0, <1>1, <1>6, <2>1, TurnFacts
  <2>3. AllBut(Key', sift.n, i) /\ Across(Key', sift.n, i) /\ Below(Key', sift.n, i)
    <3>1. AllBut(Key, sift.n, j) /\ Across(Key, sift.n, j) /\ Below(Key, sift.n, j)
      BY <1>0, <1>5 DEF OneOut
    <3>2. QED
      BY <1>1, <2>1, <2>2, <3>1, UpMoves
  <2>4. OneOut' /\ Below(Key', sift'.n, sift'.at)
    BY <2>1, <2>2, <2>3 DEF OneOut
  <2>5. SiftInv'
    BY <2>2, <2>4 DEF SiftInv
  <2>6. QED
    BY <2>2, <2>5 DEF HeapInv
<1>7. CASE ~(j > 1 /\ Less(j, i)) /\ Settle /\ UNCHANGED <<h, heapIndex>>
  <2>1. ASSUME NEW a \in 1 .. sift.n, Child(a, j) PROVE Key[a] <= Key[j]
    <3>1. a = i /\ ~(Key[j] < Key[a])
      BY <1>1, <1>2, <1>3, <1>7, <2>1
    <3>2. Key[a] \in Nat /\ Key[j] \in Nat
      BY <1>1
    <3>3. QED
      BY <3>1, <3>2
  <2>2. Above(Key, sift.n, sift.at)
    BY <1>5, <2>1 DEF Above
  <2>3. InOrder(Key, sift.n)
    BY <1>0, <2>2, Settled DEF OneOut
  <2>4. QED
    BY <1>0, <1>7, <2>3, SettleStep
<1>8. QED
  BY <1>4, <1>6, <1>7

\* heap.Fix: one entry has another time.
LEMMA FixStep ==
    ASSUME HeapInv, NEW id \in Ids, NEW t \in Nat, Fix(id, t)
    PROVE  HeapInv'
<1> DEFINE x == heapIndex[id]
<1>0. /\ HeapTypes /\ Indexed /\ SiftInv /\ sift = Idle /\ id \in scheduled /\ t \in Nat
      /\ UNCHANGED <<h, heapIndex, scheduled>>
      /\ nextRefillTime' = [nextRefillTime EXCEPT ![id] = t]
      /\ sift' = [run |-> "down", at |-> x, from |-> x, n |-> Len(h), ids |-> {}, added |-> {}]
  BY DEF HeapInv, Fix, Sift
<1>a. InHeap' = InHeap /\ InHeap = scheduled
  BY <1>0 DEF InHeap, Idle
<1>1. InOrder(Key, Len(h))
  BY <1>0 DEF SiftInv, Idle
<1>2. /\ Len(h) \in Nat /\ DOMAIN h = 1 .. Len(h)
      /\ \A k \in 1 .. Len(h) : h[k] \in Ids /\ Key[k] = nextRefillTime[h[k]] /\ Key[k] \in Nat
  BY <1>0, SlotFacts
<1>3. x \in 1 .. Len(h) /\ h[x] = id
  BY <1>0, <1>a, <1>2 DEF Indexed
<1>4. HeapTypes'
  <2>1. nextRefillTime' \in [Ids -> Nat]
    BY <1>0 DEF HeapTypes
  <2>2. x \in Nat
    BY <1>2, <1>3
  <2> HIDE DEF x
  <2>3. /\ sift' = [run |-> sift'.run, at |-> sift'.at, from |-> sift'.from, n |-> sift'.n,
                    ids |-> sift'.ids, added |-> sift'.added]
        /\ sift'.run \in {"idle", "down", "up", "pop"}
    BY <1>0
  <2>4. sift'.at \in Nat /\ sift'.from \in Nat /\ sift'.n \in Nat
    BY <1>0, <1>2, <2>2
  <2>5. QED
    BY <1>0, <2>1, <2>3, <2>4 DEF HeapTypes
<1>5. \A k \in 1 .. Len(h) : Key'[k] = nextRefillTime'[h[k]] /\ Key'[k] \in Nat
  BY <1>0, <1>2, <1>4 DEF Key, HeapTypes
<1>6. \A k \in 1 .. Len(h) : k # x => Key'[k] = Key[k]
  <2>1. ASSUME NEW k \in 1 .. Len(h), k # x PROVE Key'[k] = Key[k]
    <3>1. h[k] # id
      BY <1>0, <1>2, <2>1 DEF Indexed
    <3>2. QED
      BY <1>0, <1>2, <1>5, <3>1 DEF HeapTypes
  <2>2. QED
    BY <2>1
<1>7. Indexed'
  BY <1>0, <1>a DEF Indexed
<1> HIDE DEF x
<1>8. AllBut(Key', Len(h), x) /\ Across(Key', Len(h), x)
  BY <1>1, <1>2, <1>3, <1>5, <1>6, Disturbed
<1>9. sift'.n = Len(h) /\ sift'.at = x /\ sift'.from = x /\ sift'.ids = {} /\ sift'.run = "down"
  BY <1>0
<1>10. Slots' /\ OneOut'
  BY <1>0, <1>3, <1>8, <1>9 DEF Slots, OneOut
<1>11. ~(sift'.at > sift'.from)
  BY <1>2, <1>3, <1>9
<1>12. SiftInv'
  BY <1>9, <1>10, <1>11 DEF SiftInv
<1>13. QED
  BY <1>4, <1>7, <1>12 DEF HeapInv

\* heap.Push: a new last slot.
LEMMA PushStep ==
    ASSUME HeapInv, NEW id \in Ids, NEW t \in Nat, Push(id, t)
    PROVE  HeapInv'
<1>0. PICK m : m = Len(h) + 1
  OBVIOUS
<1>1. /\ HeapTypes /\ Indexed /\ SiftInv /\ sift = Idle /\ id \notin scheduled /\ t \in Nat
      /\ h' = Append(h, id) /\ scheduled' = scheduled
      /\ nextRefillTime' = [nextRefillTime EXCEPT ![id] = t]
      /\ heapIndex' = [heapIndex EXCEPT ![id] = m]
      /\ sift' = [run |-> "up", at |-> m, from |-> m, n |-> m, ids |-> {}, added |-> {id}]
  BY <1>0 DEF HeapInv, Push, Sift
<1>a. InHeap = scheduled /\ InHeap' = InHeap \cup {id} /\ id \notin InHeap
  BY <1>1 DEF InHeap, Idle
<1>2. InOrder(Key, Len(h))
  BY <1>1 DEF SiftInv, Idle
<1>3. /\ Len(h) \in Nat /\ DOMAIN h = 1 .. Len(h)
      /\ \A k \in 1 .. Len(h) : h[k] \in Ids /\ Key[k] = nextRefillTime[h[k]] /\ Key[k] \in Nat
  BY <1>1, SlotFacts
<1>4. m \in Nat /\ m \in 1 .. m /\ \A k \in 1 .. m : k # m => k \in 1 .. Len(h)
  BY <1>0, <1>3
<1>5. /\ h' \in Seq(Ids) /\ Len(h') = m /\ DOMAIN h' = 1 .. m /\ h'[m] = id
      /\ \A k \in 1 .. Len(h) : h'[k] = h[k]
  BY <1>0, <1>1, <1>3 DEF HeapTypes
<1>6. /\ nextRefillTime' \in [Ids -> Nat] /\ heapIndex' \in [Ids -> Nat]
      /\ heapIndex'[id] = m
      /\ \A e \in Ids : e # id => heapIndex'[e] = heapIndex[e] /\ nextRefillTime'[e] = nextRefillTime[e]
  BY <1>1, <1>4 DEF HeapTypes
<1>7. HeapTypes'
  <2>1. /\ sift' = [run |-> sift'.run, at |-> sift'.at, from |-> sift'.from, n |-> sift'.n,
                    ids |-> sift'.ids, added |-> sift'.added]
        /\ sift'.run \in {"idle", "down", "up", "pop"}
        /\ sift'.at \in Nat /\ sift'.from \in Nat /\ sift'.n \in Nat
    BY <1>1, <1>4
  <2>2. QED
    BY <1>5, <1>6, <2>1 DEF HeapTypes
<1>8. \A k \in 1 .. Len(h) : h[k] # id
  BY <1>1, <1>a, <1>3 DEF Indexed
<1>9. Indexed'
  <2>1. \A k \in DOMAIN h' : heapIndex'[h'[k]] = k
    <3>1. ASSUME NEW k \in 1 .. Len(h) PROVE heapIndex'[h'[k]] = k
      BY <1>1, <1>3, <1>5, <1>6, <1>8 DEF Indexed
    <3>2. QED
      BY <1>4, <1>5, <1>6, <3>1
  <2>2. InHeap' = {h'[k] : k \in DOMAIN h'}
    <3>1. InHeap = {h[k] : k \in 1 .. Len(h)}
      BY <1>1, <1>3 DEF Indexed
    <3>2. 1 .. m = (1 .. Len(h)) \cup {m}
      BY <1>0, <1>3
    <3>3. {h'[k] : k \in 1 .. m} = {h[k] : k \in 1 .. Len(h)} \cup {id}
      BY <1>5, <3>2
    <3>4. QED
      BY <1>a, <1>5, <3>1, <3>3
  <2>3. \A e \in Ids \ InHeap' : heapIndex'[e] = 0
    BY <1>1, <1>a, <1>6 DEF Indexed
  <2>4. QED
    BY <2>1, <2>2, <2>3 DEF Indexed
<1>10. \A k \in 1 .. Len(h) : Key'[k] = Key[k]
  <2>1. \A k \in 1 .. m : Key'[k] = nextRefillTime'[h'[k]]
    BY <1>5 DEF Key
  <2>2. ASSUME NEW k \in 1 .. Len(h) PROVE Key'[k] = Key[k]
    <3>1. k \in 1 .. m
      BY <1>0, <1>3
    <3>2. h[k] \in Ids /\ h[k] # id /\ h'[k] = h[k] /\ Key[k] = nextRefillTime[h[k]]
      BY <1>3, <1>5, <1>8
    <3>3. nextRefillTime'[h[k]] = nextRefillTime[h[k]]
      BY <1>6, <3>2
    <3>4. QED
      BY <2>1, <3>1, <3>2, <3>3
  <2>3. QED
    BY <2>2
<1>11. AllBut(Key', m, m)
  <2>1. ASSUME NEW a \in 1 .. m, NEW b \in 1 .. m, Child(a, b), a # m, b # m
        PROVE  Key'[a] <= Key'[b]
    <3>1. a \in 1 .. Len(h) /\ b \in 1 .. Len(h)
      BY <1>4, <2>1
    <3>2. QED
      BY <1>2, <1>10, <2>1, <3>1 DEF InOrder
  <2>2. QED
    BY <2>1 DEF AllBut
<1>12. Across(Key', m, m) /\ Below(Key', m, m)
  <2>1. \A b \in 1 .. m : ~ Child(m, b)
    BY <1>4 DEF Child
  <2>2. QED
    BY <2>1 DEF Across, Below
<1>13. sift'.n = m /\ sift'.at = m /\ sift'.ids = {} /\ sift'.run = "up"
  BY <1>1
<1>14. Slots' /\ OneOut' /\ Below(Key', sift'.n, sift'.at)
  BY <1>4, <1>5, <1>11, <1>12, <1>13 DEF Slots, OneOut
<1>15. SiftInv'
  BY <1>13, <1>14 DEF SiftInv
<1>16. QED
  BY <1>7, <1>9, <1>15 DEF HeapInv

\* heap.Remove of slot i, up to its loop.
LEMMA TakeOutStep ==
    ASSUME HeapInv, NEW i \in 1 .. Len(h), TakeOut(i, {h[i]})
    PROVE  HeapInv'
<1>0. PICK m : m = Len(h)
  OBVIOUS
<1>1. /\ HeapTypes /\ Indexed /\ SiftInv /\ sift = Idle /\ UNCHANGED <<nextRefillTime, scheduled>>
  BY DEF HeapInv, TakeOut
<1>a. InHeap' = InHeap
  BY <1>1 DEF TakeOut, InHeap, Idle, Sift
<1>2. InOrder(Key, m)
  BY <1>0, <1>1 DEF SiftInv, Idle
<1>3. /\ m \in Nat /\ m > 0 /\ i \in 1 .. m /\ m \in 1 .. m /\ m - 1 \in Nat
      /\ \A k \in 1 .. m : Key[k] \in Nat
  BY <1>0, <1>1, SlotFacts
<1>4. InOrder(Key, m - 1)
  BY <1>2, <1>3 DEF InOrder
<1>5. CASE i = m
  <2>1. /\ sift' = [run |-> "pop", at |-> i, from |-> i, n |-> m - 1, ids |-> {h[i]}, added |-> {}]
        /\ UNCHANGED <<h, heapIndex>>
    BY <1>0, <1>5 DEF TakeOut, Sift
  <2>2. HeapTypes'
    <3>1. /\ sift' = [run |-> sift'.run, at |-> sift'.at, from |-> sift'.from, n |-> sift'.n,
                      ids |-> sift'.ids, added |-> sift'.added]
          /\ sift'.run \in {"idle", "down", "up", "pop"}
          /\ sift'.at \in Nat /\ sift'.from \in Nat /\ sift'.n \in Nat
      BY <1>3, <2>1
    <3>2. QED
      BY <1>1, <2>1, <3>1 DEF HeapTypes
  <2>3. Indexed' /\ Key' = Key
    BY <1>1, <1>a, <2>1 DEF Indexed, Key
  <2>4. sift'.run = "pop" /\ sift'.n = m - 1 /\ sift'.ids = {h[i]} /\ sift'.added = {}
    BY <2>1
  <2>5. Slots' /\ InOrder(Key', sift'.n)
    BY <1>0, <1>3, <1>4, <1>5, <2>1, <2>3, <2>4 DEF Slots
  <2>6. SiftInv'
    BY <2>4, <2>5 DEF SiftInv
  <2>7. QED
    BY <2>2, <2>3, <2>6 DEF HeapInv
<1>6. CASE i # m
  <2>1. /\ sift' = [run |-> "down", at |-> i, from |-> i, n |-> m - 1, ids |-> {h[i]}, added |-> {}]
        /\ Swap(i, m)
    BY <1>0, <1>6 DEF TakeOut, Sift
  <2>2. /\ h' \in Seq(Ids) /\ Len(h') = m /\ heapIndex' \in [Ids -> Nat]
        /\ h'[m] = h[i] /\ Key'[i] = Key[m]
        /\ \A k \in 1 .. m : k # i /\ k # m => Key'[k] = Key[k]
        /\ Indexed'
    BY <1>0, <1>1, <1>a, <1>3, <1>6, <2>1, SwapFacts
  <2>3. HeapTypes'
    <3>1. /\ sift' = [run |-> sift'.run, at |-> sift'.at, from |-> sift'.from, n |-> sift'.n,
                      ids |-> sift'.ids, added |-> sift'.added]
          /\ sift'.run \in {"idle", "down", "up", "pop"}
          /\ sift'.at \in Nat /\ sift'.from \in Nat /\ sift'.n \in Nat
      BY <1>3, <2>1
    <3>2. nextRefillTime' \in [Ids -> Nat]
      BY <1>1 DEF HeapTypes
    <3>3. QED
      BY <2>2, <3>1, <3>2 DEF HeapTypes
  <2>4. /\ sift'.run = "down" /\ sift'.n = m - 1 /\ sift'.at = i /\ sift'.from = i
        /\ sift'.ids = {h[i]} /\ sift'.added = {}
    BY <2>1
  <2>5. i \in 1 .. m - 1 /\ \A k \in 1 .. m - 1 : k \in 1 .. m /\ k # m
    BY <1>3, <1>6
  <2>6. \A k \in 1 .. m - 1 : Key[k] \in Nat /\ Key'[k] \in Nat
    BY <1>3, <2>2, <2>5
  <2>7. \A k \in 1 .. m - 1 : k # i => Key'[k] = Key[k]
    BY <2>2, <2>5
  <2>8. AllBut(Key', m - 1, i) /\ Across(Key', m - 1, i)
    BY <1>3, <1>4, <2>5, <2>6, <2>7, Disturbed
  <2>9. Slots' /\ OneOut' /\ ~(sift'.at > sift'.from)
    <3>1. Slots'
      BY <1>3, <2>2, <2>4 DEF Slots
    <3>2. OneOut'
      BY <2>4, <2>5, <2>8 DEF OneOut
    <3>3. QED
      BY <1>3, <2>4, <3>1, <3>2
  <2>10. SiftInv'
    BY <2>4, <2>9 DEF SiftInv
  <2>11. QED
    BY <2>2, <2>3, <2>10 DEF HeapInv
<1>7. QED
  BY <1>5, <1>6

\* h.Pop: the last slot goes, and its entry leaves the map.
LEMMA PopLastStep == ASSUME HeapInv, PopLast PROVE HeapInv'
<1>0. PICK m : m = Len(h)
  OBVIOUS
<1>1. /\ HeapTypes /\ Indexed /\ Slots /\ sift.ids # {} /\ InOrder(Key, sift.n)
      /\ h' = SubSeq(h, 1, m - 1) /\ sift' = Idle
      /\ nextRefillTime' = [nextRefillTime EXCEPT ![h[m]] = 0]
      /\ heapIndex' = [heapIndex EXCEPT ![h[m]] = 0]
      /\ scheduled' = scheduled \ sift.ids
  BY <1>0 DEF HeapInv, SiftInv, PopLast
<1>2. m > 0 /\ sift.n = m - 1 /\ sift.ids = {h[m]} /\ sift.added = {}
  BY <1>0, <1>1 DEF Slots
<1>a. InHeap' = InHeap \ sift.ids
  BY <1>1, <1>2 DEF InHeap, Idle
<1>3. /\ m \in Nat /\ DOMAIN h = 1 .. m
      /\ \A k \in 1 .. m : h[k] \in Ids /\ Key[k] = nextRefillTime[h[k]]
  BY <1>0, <1>1, SlotFacts
<1>4. m - 1 \in Nat /\ m \in 1 .. m /\ 1 .. m = (1 .. m - 1) \cup {m} /\ m \notin 1 .. m - 1
  BY <1>2, <1>3
<1>5. /\ h' \in Seq(Ids) /\ Len(h') = m - 1 /\ DOMAIN h' = 1 .. m - 1
      /\ \A k \in 1 .. m - 1 : h'[k] = h[k]
  BY <1>0, <1>1, <1>2, <1>3 DEF HeapTypes
<1>6. /\ heapIndex' \in [Ids -> Nat] /\ heapIndex'[h[m]] = 0
      /\ \A e \in Ids : e # h[m] => heapIndex'[e] = heapIndex[e]
  BY <1>1, <1>3, <1>4 DEF HeapTypes
<1>7. \A k \in 1 .. m - 1 : h[k] # h[m] /\ heapIndex[h[k]] = k
  <2>1. \A k \in 1 .. m : heapIndex[h[k]] = k
    BY <1>1, <1>3 DEF Indexed
  <2>2. QED
    BY <1>4, <2>1
<1>8. HeapTypes'
  <2>1. /\ sift' = [run |-> sift'.run, at |-> sift'.at, from |-> sift'.from, n |-> sift'.n,
                    ids |-> sift'.ids, added |-> sift'.added]
        /\ sift'.run \in {"idle", "down", "up", "pop"}
        /\ sift'.at \in Nat /\ sift'.from \in Nat /\ sift'.n \in Nat
    BY <1>1 DEF Idle
  <2>2. nextRefillTime' \in [Ids -> Nat]
    BY <1>1, <1>3, <1>4 DEF HeapTypes
  <2>3. QED
    BY <1>5, <1>6, <2>1, <2>2 DEF HeapTypes
<1>9. Indexed'
  <2>1. \A k \in DOMAIN h' : heapIndex'[h'[k]] = k
    BY <1>3, <1>4, <1>5, <1>6, <1>7
  <2>2. InHeap' = {h'[k] : k \in DOMAIN h'}
    <3>1. InHeap = {h[k] : k \in 1 .. m}
      BY <1>1, <1>3 DEF Indexed
    <3>2. {h'[k] : k \in 1 .. m - 1} = {h[k] : k \in 1 .. m} \ {h[m]}
      BY <1>4, <1>5, <1>7
    <3>3. QED
      BY <1>a, <1>2, <1>5, <3>1, <3>2
  <2>3. \A e \in Ids \ InHeap' : heapIndex'[e] = 0
    BY <1>1, <1>a, <1>2, <1>6 DEF Indexed
  <2>4. QED
    BY <2>1, <2>2, <2>3 DEF Indexed
<1>10. InOrder(Key', m - 1)
  <2>1. ASSUME NEW k \in 1 .. m - 1 PROVE Key'[k] = Key[k]
    <3>1. Key'[k] = nextRefillTime'[h[k]] /\ Key[k] = nextRefillTime[h[k]] /\ h[k] \in Ids
      BY <1>3, <1>4, <1>5 DEF Key
    <3>2. h[k] # h[m] /\ h[m] \in Ids
      BY <1>3, <1>4, <1>7
    <3>3. QED
      BY <1>1, <3>1, <3>2 DEF HeapTypes
  <2>2. QED
    BY <1>1, <1>2, <2>1 DEF InOrder
<1>11. SiftInv'
  BY <1>1, <1>5, <1>10 DEF SiftInv, Idle
<1>12. QED
  BY <1>8, <1>9, <1>11 DEF HeapInv

\* The root is an earliest entry when nothing is being moved.
LEMMA Earliest ==
    ASSUME HeapInv, sift = Idle
    PROVE  \A i \in InHeap : Len(h) > 0 /\ nextRefillTime[h[1]] <= nextRefillTime[i]
<1>1. InOrder(Key, Len(h))
  BY DEF HeapInv, SiftInv, Idle
<1>2. /\ Len(h) \in Nat /\ DOMAIN h = 1 .. Len(h)
      /\ \A k \in 1 .. Len(h) : Key[k] = nextRefillTime[h[k]] /\ Key[k] \in Nat
  BY SlotFacts DEF HeapInv
<1>3. \A k \in 1 .. Len(h) : Key[1] <= Key[k]
  BY <1>1, <1>2, RootIsEarliest
<1>4. ASSUME NEW i \in InHeap PROVE Len(h) > 0 /\ nextRefillTime[h[1]] <= nextRefillTime[i]
  <2>1. PICK k \in 1 .. Len(h) : i = h[k]
    BY <1>2 DEF HeapInv, Indexed
  <2>2. Len(h) > 0 /\ 1 \in 1 .. Len(h)
    BY <1>2, <2>1
  <2>3. QED
    BY <1>2, <1>3, <2>1, <2>2
<1>5. QED
  BY <1>4

\* How the heap relates to the map of Scheduler, which runs ahead of it: an entry
\* that is being taken out has left the map, and processDue's loop has yet to pop
\* what is due, and nothing else.
Matches ==
    /\ \A i \in entries : nextRefillTime[i] = next[i]
    /\ ~popping => InHeap \ sift.ids = entries
    /\ popping => /\ entries \subseteq InHeap \ sift.ids
                  /\ \A i \in (InHeap \ sift.ids) \ entries : nextRefillTime[i] <= dueAt
                  /\ \A i \in entries : next[i] > dueAt

\* A step of container/heap's loops changes neither the times nor the map.
LEMMA SiftMatches ==
    ASSUME HeapInv, Matches, Down \/ Up, UNCHANGED <<vars, popping>>
    PROVE  Matches'
<1>1. UNCHANGED nextRefillTime /\ sift.run # "idle"
  BY DEF Down, Up
<1>2. UNCHANGED <<entries, next, dueAt, popping>>
  BY DEF vars, heap, batch
<1>3. sift = [run |-> sift.run, at |-> sift.at, from |-> sift.from, n |-> sift.n,
              ids |-> sift.ids, added |-> sift.added]
  BY DEF HeapInv, HeapTypes
<1>4. sift'.ids = sift.ids /\ InHeap' = InHeap
  <2>1. CASE Settle
    <3>1. Slots
      BY <1>1 DEF HeapInv, SiftInv
    <3>2. QED
      BY <1>3, <2>1, <3>1 DEF Settle, Idle, InHeap, Slots
  <2> DEFINE i == sift.at
             j == IF 2 * i + 1 <= sift.n /\ Less(2 * i + 1, 2 * i) THEN 2 * i + 1 ELSE 2 * i
  <2>2. CASE Down
    <3>1. \/ sift' = [sift EXCEPT !.at = j] /\ UNCHANGED scheduled
          \/ Settle
          \/ sift' = [sift EXCEPT !.run = "up"] /\ UNCHANGED scheduled
      BY <2>2, Zenon DEF Down
    <3> HIDE DEF j
    <3>2. QED
      BY <1>3, <2>1, <3>1 DEF InHeap
  <2>3. CASE Up
    <3>1. (sift' = [sift EXCEPT !.at = i \div 2] /\ UNCHANGED scheduled) \/ Settle
      BY <2>3, Zenon DEF Up
    <3>2. QED
      BY <1>3, <2>1, <3>1 DEF InHeap
  <2>4. QED
    BY <2>2, <2>3
<1>5. QED
  BY <1>1, <1>2, <1>4 DEF Matches

\* h.Pop and the deletion from the map.
LEMMA PopMatches ==
    ASSUME HeapInv, Matches, PopLast, UNCHANGED <<vars, popping>>
    PROVE  Matches'
<1>1. UNCHANGED <<entries, next, dueAt, popping>>
  BY DEF vars, heap, batch
<1>2. sift.ids = {h[Len(h)]} /\ sift'.ids = {} /\ InHeap' = InHeap \ sift.ids
  BY DEF HeapInv, SiftInv, Slots, PopLast, Idle, InHeap
<1>3. \A i \in Ids : i # h[Len(h)] => nextRefillTime'[i] = nextRefillTime[i]
  BY DEF PopLast, HeapInv, HeapTypes
<1>4. entries \subseteq InHeap \ sift.ids /\ InHeap \subseteq Ids
  <2>1. \A k \in DOMAIN h : h[k] \in Ids
    BY SlotFacts DEF HeapInv
  <2>2. QED
    BY <2>1 DEF Matches, HeapInv, Indexed
<1>5. \A i \in InHeap \ sift.ids : nextRefillTime'[i] = nextRefillTime[i]
  BY <1>2, <1>3, <1>4
<1>6. InHeap' \ sift'.ids = InHeap \ sift.ids
  BY <1>2
<1>7. QED
  BY <1>1, <1>4, <1>5, <1>6 DEF Matches

\* The heap takes an id out that has left the map already.
LEMMA TakeOutMatches ==
    ASSUME HeapInv, NEW i, NEW id, TakeOut(i, {id})
    PROVE  sift.ids = {} /\ sift'.ids = {id} /\ UNCHANGED <<nextRefillTime, InHeap>>
BY DEF TakeOut, Sift, Idle, InHeap

\* Schedule's critical section, in the map and in the heap.
LEMMA InsertMatches ==
    ASSUME TypeOK, HeapInv, Matches, Free, NEW id \in Ids, NEW t \in Nat,
           Insert(id, t), InsertInHeap(id, t)
    PROVE  HeapInv' /\ Matches'
<1>1. HeapInv'
  BY FixStep, PushStep DEF InsertInHeap
<1>2. /\ nextRefillTime' = [nextRefillTime EXCEPT ![id] = t] /\ next' = [next EXCEPT ![id] = t]
      /\ InHeap' = InHeap \cup {id} /\ entries' = entries \cup {id}
      /\ sift.ids = {} /\ sift'.ids = {} /\ ~popping /\ ~popping'
  BY DEF Free, InsertInHeap, Fix, Push, Insert, Sift, Idle, InHeap
<1>3. \A e \in Ids : nextRefillTime[e] = next[e] => nextRefillTime'[e] = next'[e]
  BY <1>2 DEF TypeOK, HeapInv, HeapTypes
<1>4. nextRefillTime'[id] = next'[id]
  BY <1>2 DEF TypeOK, HeapInv, HeapTypes
<1>5. \A e \in entries' : nextRefillTime'[e] = next'[e]
  BY <1>2, <1>3, <1>4 DEF Matches, TypeOK
<1>6. QED
  BY <1>1, <1>2, <1>5 DEF Matches

\* Steps that leave the heap and the map alone.
LEMMA ElsewhereMatches ==
    ASSUME HeapInv, Matches, UNCHANGED <<heapVars, popping, entries, next>>,
           popping => dueAt' = dueAt
    PROVE  HeapInv' /\ Matches'
<1>1. UNCHANGED <<h, nextRefillTime, heapIndex, scheduled, sift>>
  BY DEF heapVars
<1>2. Key' = Key
  BY <1>1 DEF Key
<1>3. HeapTypes' /\ Indexed' /\ SiftInv'
  BY <1>1, <1>2 DEF HeapInv, HeapTypes, Indexed, SiftInv, Slots, OneOut, InHeap
<1>4. Matches'
  BY <1>1 DEF Matches, InHeap
<1>5. QED
  BY <1>3, <1>4 DEF HeapInv

\* Remove of an entry by the index that is in it.
LEMMA RemoveMatches ==
    ASSUME TypeOK, HeapInv, Matches, Free, NEW c \in Clients, NEW id \in Ids, HeapRemove(c, id)
    PROVE  HeapInv' /\ Matches'
<1>1. /\ entries' = entries \ {id} /\ next' = [next EXCEPT ![id] = 0]
      /\ sift.ids = {} /\ ~popping /\ ~popping' /\ InHeap = entries /\ InHeap = scheduled
  BY DEF HeapRemove, Remove, Free, Idle, Matches, InHeap
<1>2. CASE id \in scheduled /\ TakeOut(heapIndex[id], {id})
  <2>1. PICK i \in 1 .. Len(h) : h[i] = id /\ heapIndex[id] = i
    BY <1>2, SlotFacts DEF HeapInv, Indexed, InHeap
  <2>2. HeapInv'
    BY <1>2, <2>1, TakeOutStep
  <2>3. sift'.ids = {id} /\ UNCHANGED <<nextRefillTime, InHeap>>
    BY <1>2, TakeOutMatches
  <2>4. \A e \in entries' : nextRefillTime'[e] = next'[e]
    BY <1>1, <2>3 DEF Matches, TypeOK
  <2>5. QED
    BY <1>1, <2>2, <2>3, <2>4 DEF Matches
<1>3. CASE id \notin scheduled /\ UNCHANGED heapVars
  <2>1. entries' = entries /\ \A e \in entries : next'[e] = next[e]
    BY <1>1, <1>3 DEF TypeOK
  <2>2. UNCHANGED <<h, nextRefillTime, heapIndex, scheduled, sift>>
    BY <1>3 DEF heapVars
  <2>3. Key' = Key
    BY <2>2 DEF Key
  <2>4. HeapTypes' /\ Indexed' /\ SiftInv'
    BY <2>2, <2>3 DEF HeapInv, HeapTypes, Indexed, SiftInv, Slots, OneOut, InHeap
  <2>5. Matches'
    BY <1>1, <2>1, <2>2 DEF Matches, InHeap
  <2>6. QED
    BY <2>4, <2>5 DEF HeapInv
<1>4. QED
  BY <1>2, <1>3 DEF HeapRemove

\* processDue: in the map everything that is due goes at once.
LEMMA BeginMatches ==
    ASSUME TypeOK, HeapInv, Matches, Free, BeginPopping
    PROVE  HeapInv' /\ Matches'
<1>1. UNCHANGED <<h, nextRefillTime, heapIndex, scheduled, sift>> /\ UNCHANGED dueAt
  BY DEF BeginPopping, Pop, heapVars, timer
<1>2. HeapInv'
  <2>1. Key' = Key
    BY <1>1 DEF Key
  <2>2. HeapTypes' /\ Indexed' /\ SiftInv'
    BY <1>1, <2>1 DEF HeapInv, HeapTypes, Indexed, SiftInv, Slots, OneOut, InHeap
  <2>3. QED
    BY <2>2 DEF HeapInv
<1>3. sift.ids = {} /\ InHeap = entries /\ popping'
  BY DEF Free, Idle, Matches, BeginPopping
<1>4. /\ entries' = {i \in entries : ~(next[i] <= dueAt)}
      /\ \A i \in entries' : next'[i] = next[i]
  BY DEF BeginPopping, Pop, TypeOK
<1>5. \A i \in entries : next[i] \in Nat /\ dueAt \in Nat
  BY DEF TypeOK
<1>6. /\ \A i \in entries' : nextRefillTime'[i] = next'[i] /\ next'[i] > dueAt'
      /\ entries' \subseteq InHeap' \ sift'.ids
      /\ \A i \in (InHeap' \ sift'.ids) \ entries' : nextRefillTime'[i] <= dueAt'
  BY <1>1, <1>3, <1>4, <1>5 DEF Matches, InHeap
<1>7. QED
  BY <1>2, <1>3, <1>6 DEF Matches

\* processDue's loop: the root it pops is not in the map any more, and when the
\* root is not due nothing else in the heap is.
LEMMA WorkMatches ==
    ASSUME TypeOK, HeapInv, Matches, HeapWork
    PROVE  HeapInv' /\ Matches'
<1>1. CASE PopDue
  <2>1. popping /\ RootIsDue /\ TakeOut(1, {h[1]}) /\ UNCHANGED <<entries, next, dueAt, popping>>
    BY <1>1 DEF PopDue, vars, heap, batch
  <2>2. 1 \in 1 .. Len(h) /\ h[1] \in InHeap /\ nextRefillTime[h[1]] <= dueAt
    BY <2>1, SlotFacts DEF HeapInv, Indexed, RootIsDue
  <2>3. HeapInv'
    BY <2>1, <2>2, TakeOutStep
  <2>4. sift.ids = {} /\ sift'.ids = {h[1]} /\ UNCHANGED <<nextRefillTime, InHeap>>
    BY <2>1, TakeOutMatches
  <2>5. h[1] \notin entries
    <3>1. SUFFICES ASSUME h[1] \in entries PROVE FALSE
      OBVIOUS
    <3>2. next[h[1]] > dueAt /\ next[h[1]] <= dueAt /\ next[h[1]] \in Nat /\ dueAt \in Nat
      BY <2>1, <2>2, <3>1 DEF Matches, TypeOK
    <3>3. QED
      BY <3>2
  <2>6. QED
    BY <2>1, <2>3, <2>4, <2>5 DEF Matches
<1>2. CASE EndPopping
  <2>1. /\ popping /\ sift = Idle /\ ~RootIsDue /\ ~popping'
        /\ UNCHANGED <<entries, next, dueAt>> /\ UNCHANGED heapVars
    BY <1>2 DEF EndPopping, vars, heap, batch
  <2>2. UNCHANGED <<h, nextRefillTime, heapIndex, scheduled, sift>>
    BY <2>1 DEF heapVars
  <2>3. HeapInv'
    <3>1. Key' = Key
      BY <2>2 DEF Key
    <3>2. HeapTypes' /\ Indexed' /\ SiftInv'
      BY <2>2, <3>1 DEF HeapInv, HeapTypes, Indexed, SiftInv, Slots, OneOut, InHeap
    <3>3. QED
      BY <3>2 DEF HeapInv
  <2>4. ASSUME NEW i \in InHeap PROVE i \in entries
    <3>1. Len(h) > 0 /\ nextRefillTime[h[1]] <= nextRefillTime[i]
      BY <2>1, Earliest
    <3>2. ~(nextRefillTime[h[1]] <= dueAt)
      BY <2>1, <3>1 DEF RootIsDue
    <3>3. nextRefillTime[h[1]] \in Nat /\ nextRefillTime[i] \in Nat /\ dueAt \in Nat
      <4>1. 1 \in 1 .. Len(h) /\ \A k \in DOMAIN h : h[k] \in Ids
        BY <3>1, SlotFacts DEF HeapInv
      <4>2. h[1] \in Ids /\ i \in Ids
        BY <4>1, SlotFacts DEF HeapInv, Indexed
      <4>3. QED
        BY <4>2 DEF HeapInv, HeapTypes, TypeOK
    <3>4. ~(nextRefillTime[i] <= dueAt)
      BY <3>1, <3>2, <3>3
    <3>5. QED
      BY <2>1, <3>4 DEF Matches, Idle
  <2>5. InHeap' \ sift'.ids = entries'
    BY <2>1, <2>2, <2>4 DEF Matches, Idle, InHeap
  <2>6. QED
    BY <2>1, <2>2, <2>3, <2>5 DEF Matches
<1>3. CASE (Down \/ Up \/ PopLast) /\ UNCHANGED <<vars, popping>>
  BY <1>3, DownStep, UpStep, PopLastStep, SiftMatches, PopMatches
<1>4. QED
  BY <1>1, <1>2, <1>3 DEF HeapWork

\* Every step of the heap's scheduler is a step of Scheduler or leaves it alone.
LEMMA Simulates == SchedulerSpec => Spec
<1>1. ASSUME [SchedulerNext]_schedulerVars PROVE [Next]_vars
  <2>1. CASE HeapRun
    <3>1. Reschedule \/ Pop \/ RunStep
      BY <2>1 DEF HeapRun, HeapReschedule, BeginPopping
    <3>2. Run
      BY <3>1 DEF RunStep, Run
    <3>3. QED
      BY <3>2 DEF Next
  <2>2. CASE HeapWork
    BY <2>2 DEF HeapWork, PopDue, EndPopping
  <2>3. ASSUME NEW c \in Clients, HeapSignal(c) PROVE [Next]_vars
    BY <2>3 DEF HeapSignal, Next
  <2>4. ASSUME NEW c \in Clients, NEW id \in Ids, HeapCall(c, id) PROVE [Next]_vars
    BY <2>4 DEF HeapCall, HeapRemove, HeapSchedule, Next
  <2>5. CASE (Cancel \/ Tick) /\ UNCHANGED <<heapVars, popping>>
    BY <2>5 DEF Next
  <2>6. CASE UNCHANGED schedulerVars
    BY <2>6 DEF schedulerVars
  <2>7. QED
    BY <1>1, <2>1, <2>2, <2>3, <2>4, <2>5, <2>6 DEF SchedulerNext
<1>2. QED
  BY <1>1, PTL DEF SchedulerSpec, SchedulerInit, Spec

\* processDue reschedules one entry at a time.
OneAnswer == \A i, j \in answer.ids : i = j

LEMMA OneAnswerInvariance == Spec => []OneAnswer
<1>1. Init => OneAnswer
  BY DEF Init, NoAnswer, OneAnswer
<1>2. OneAnswer /\ [Next]_vars => OneAnswer'
  <2> SUFFICES ASSUME OneAnswer, [Next]_vars PROVE OneAnswer'
    OBVIOUS
  <2>1. ASSUME NEW ok, NEW t, OnDue(ok, t) PROVE OneAnswer'
    BY <2>1 DEF OnDue, OneAnswer
  <2>2. CASE Reschedule
    BY <2>2 DEF Reschedule, NoAnswer, OneAnswer
  <2>3. CASE UNCHANGED answer
    BY <2>3 DEF OneAnswer
  <2>4. CASE Run
    <3>1. \/ UNCHANGED answer \/ Reschedule \/ OnDue(FALSE, 0) \/ \E t \in Times : OnDue(TRUE, t)
      BY <2>4 DEF Run, NextWait, ResetTimer, SelectWakeup, SelectTimer, SelectDone, Pop,
          RunSignal, BatchDone, batch
    <3>2. QED
      BY <2>1, <2>2, <2>3, <3>1
  <2>5. CASE ~ Run
    <3>1. UNCHANGED answer
      BY <2>5 DEF Next, Schedule, Remove, ClientSignal, Cancel, Tick, vars, batch
    <3>2. QED
      BY <2>3, <3>1
  <2>6. QED
    BY <2>4, <2>5
<1>3. QED
  BY <1>1, <1>2, PTL DEF Spec

\* The heap's invariant holds throughout.
LEMMA HeapInvariance == SchedulerSpec => [](HeapInv /\ Matches)
<1>1. Init /\ HeapInit => HeapInv /\ Matches
  <2> SUFFICES ASSUME Init, HeapInit PROVE HeapInv /\ Matches
    OBVIOUS
  <2>1. h = << >> /\ Len(h) = 0 /\ DOMAIN h = {} /\ sift = Idle /\ InHeap = {} /\ entries = {} /\ ~popping
    BY DEF HeapInit, Init, InHeap, Idle
  <2>2. HeapTypes
    BY DEF HeapInit, HeapTypes, Idle
  <2>3. Indexed
    BY <2>1 DEF HeapInit, Indexed
  <2>4. SiftInv
    BY <2>1 DEF SiftInv, Idle, InOrder
  <2>5. Matches
    BY <2>1 DEF Matches, Idle
  <2>6. QED
    BY <2>2, <2>3, <2>4, <2>5 DEF HeapInv
<1>2. TypeOK /\ OneAnswer /\ HeapInv /\ Matches /\ [SchedulerNext]_schedulerVars => HeapInv' /\ Matches'
  <2> SUFFICES ASSUME TypeOK, OneAnswer, HeapInv, Matches, [SchedulerNext]_schedulerVars
               PROVE  HeapInv' /\ Matches'
    OBVIOUS
  <2>1. CASE HeapRun
    <3>1. CASE HeapReschedule
      <4>1. PICK id \in answer.ids : InsertInHeap(id, answer.time)
        BY <3>1 DEF HeapReschedule
      <4>2. id \in Ids /\ answer.time \in Nat
        BY DEF TypeOK
      <4>3. Insert(id, answer.time)
        BY <3>1, <4>1 DEF HeapReschedule, Reschedule, OneAnswer
      <4>4. QED
        BY <2>1, <4>1, <4>2, <4>3, InsertMatches DEF HeapRun
    <3>2. CASE BeginPopping
      BY <2>1, <3>2, BeginMatches DEF HeapRun
    <3>3. CASE RunStep /\ UNCHANGED <<heapVars, popping>>
      <4>1. UNCHANGED <<entries, next>>
        BY <3>3 DEF RunStep, NextWait, ResetTimer, SelectWakeup, SelectTimer, SelectDone,
            OnDue, RunSignal, BatchDone, heap
      <4>2. ~popping
        BY <2>1 DEF HeapRun, Free
      <4>3. QED
        BY <3>3, <4>1, <4>2, ElsewhereMatches
    <3>4. QED
      BY <2>1, <3>1, <3>2, <3>3 DEF HeapRun
  <2>2. CASE HeapWork
    BY <2>2, WorkMatches
  <2>3. ASSUME NEW c \in Clients, HeapSignal(c) PROVE HeapInv' /\ Matches'
    BY <2>3, ElsewhereMatches DEF HeapSignal, ClientSignal, heap, batch
  <2>4. ASSUME NEW c \in Clients, NEW id \in Ids, HeapCall(c, id) PROVE HeapInv' /\ Matches'
    <3>1. ASSUME NEW t \in Times, HeapSchedule(c, id, t) PROVE HeapInv' /\ Matches'
      <4>1. t \in Nat /\ Insert(id, t) /\ InsertInHeap(id, t)
        BY <3>1, TimeAssumption DEF Times, HeapSchedule, Schedule
      <4>2. QED
        BY <2>4, <4>1, InsertMatches DEF HeapCall
    <3>2. QED
      BY <2>4, <3>1, RemoveMatches DEF HeapCall
  <2>5. CASE (Cancel \/ Tick) /\ UNCHANGED <<heapVars, popping>>
    BY <2>5, ElsewhereMatches DEF Cancel, Tick, heap, batch
  <2>6. CASE UNCHANGED schedulerVars
    BY <2>6, ElsewhereMatches DEF schedulerVars, vars, heap, batch
  <2>7. QED
    BY <2>1, <2>2, <2>3, <2>4, <2>5, <2>6 DEF SchedulerNext
<1>3. IInv => TypeOK
  BY DEF IInv
<1>4. QED
  BY <1>1, <1>2, <1>3, Simulates, Invariance, OneAnswerInvariance,
     PTL DEF SchedulerSpec, SchedulerInit

\* Scheduler.Run: no wakeup is lost, for any number of entries and of clients
\* that move them between nextWait, Reset and select.
THEOREM NoOversleepTheorem == SchedulerSpec => []NoOversleep
<1>1. IInv => NoOversleep
  BY DEF IInv, WaitFits, Fits, NoOversleep
<1>2. QED
  BY <1>1, Simulates, Invariance, PTL

\* refillHeap.Swap, Push and Pop: at every point of every sequence of Schedule,
\* Remove and processDue every heapIndex is the slot its entry is in, and between
\* two operations the map has exactly the entries of the heap, for any number of
\* entries.
THEOREM IndexTheorem == SchedulerSpec => []IndexAgrees
<1>1. HeapInv => IndexAgrees
  BY DEF HeapInv, Indexed, InHeap, IndexAgrees, Idle
<1>2. QED
  BY <1>1, HeapInvariance, PTL

\* Schedule, Remove and processDue: whenever the mutex is free the heap has the
\* entries and times of the map and an earliest one at its root, so processDue has
\* popped exactly what was due, for any number of entries and any times.
THEOREM HeapTheorem == SchedulerSpec => []HeapMatches
<1>1. HeapInv /\ Matches => HeapMatches
  <2> SUFFICES ASSUME HeapInv, Matches, Free PROVE HeapMatches
    BY DEF HeapMatches
  <2>1. sift = Idle /\ scheduled = entries
    BY DEF Free, Matches, Idle, InHeap
  <2>2. QED
    BY <2>1, Earliest DEF Matches, HeapMatches
<1>2. QED
  BY <1>1, HeapInvariance, PTL
=============================================================================
