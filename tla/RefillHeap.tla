----------------------------- MODULE RefillHeap -----------------------------
(***************************************************************************)
(* internal/scheduler/heap.go: the min-heap behind the map of Scheduler.   *)
(*                                                                         *)
(* Schedule, Remove and processDue hold the scheduler's mutex while they   *)
(* work on the heap, and find an entry by the heapIndex that Swap, Push    *)
(* and Pop keep in it.  container/heap, which calls these methods, is not  *)
(* part of the repository: up and down are modelled with one step for each *)
(* turn of their loops.  Slots are numbered from 1, so that the parent of  *)
(* slot j is j \div 2, and the heapIndex 0 stands for the code's -1.  An   *)
(* entry is known by its id: Schedule makes a new one only for an id that  *)
(* has none in the heap.                                                   *)
(*                                                                         *)
(* A critical section takes effect on the map of Scheduler when it begins  *)
(* and is then carried out in the heap.  No goroutine sees the heap        *)
(* without the mutex, and what the others do meanwhile does not depend on  *)
(* it, so their steps are put off until the mutex is free.                 *)
(***************************************************************************)
EXTENDS Scheduler, Sequences

VARIABLES
    h,              \* refillHeap: the id in each slot
    nextRefillTime, \* of each entry; 0 if it is not in the heap
    heapIndex,      \* of each entry
    scheduled,      \* the keys of the entries map
    sift,           \* where container/heap is
    popping         \* processDue is in the loop that pops what is due

heapVars == <<h, nextRefillTime, heapIndex, scheduled, sift>>
schedulerVars == <<vars, heapVars, popping>>

\* run: "down" and "up" are loops over the first n slots, which have got from
\* slot `from` to slot `at`; "pop" is before h.Pop.  When container/heap returns
\* the caller deletes ids from the map or puts added into it.
Idle == [run |-> "idle", at |-> 0, from |-> 0, n |-> 0, ids |-> {}, added |-> {}]
Sift(run, at, n, ids, added) ==
    [run |-> run, at |-> at, from |-> at, n |-> n, ids |-> ids, added |-> added]

HeapInit ==
    /\ h = << >> /\ scheduled = {} /\ sift = Idle /\ popping = FALSE
    /\ nextRefillTime = [id \in Ids |-> 0]
    /\ heapIndex = [id \in Ids |-> 0]
-----------------------------------------------------------------------------
Less(i, j) == nextRefillTime[h[i]] < nextRefillTime[h[j]]

BugSwap(i, j) ==                        \* the other entry keeps its index
    /\ h' = [h EXCEPT ![i] = h[j], ![j] = h[i]]
    /\ heapIndex' = [heapIndex EXCEPT ![h[j]] = i]
Swap(i, j) ==
    /\ h' = [h EXCEPT ![i] = h[j], ![j] = h[i]]
    /\ heapIndex' = [heapIndex EXCEPT ![h[j]] = i, ![h[i]] = j]

\* Schedule: an entry that is in the heap is moved and put right by heap.Fix.
Fix(id, t) ==
    /\ sift = Idle /\ id \in scheduled
    /\ nextRefillTime' = [nextRefillTime EXCEPT ![id] = t]
    /\ sift' = Sift("down", heapIndex[id], Len(h), {}, {})
    /\ UNCHANGED <<h, heapIndex, scheduled>>

\* Schedule: a new entry, by heap.Push, and in the map once that has returned.
Push(id, t) ==
    /\ sift = Idle /\ id \notin scheduled
    /\ nextRefillTime' = [nextRefillTime EXCEPT ![id] = t]
    /\ heapIndex' = [heapIndex EXCEPT ![id] = Len(h) + 1]
    /\ h' = Append(h, id)
    /\ sift' = Sift("up", Len(h) + 1, Len(h) + 1, {}, {id})
    /\ UNCHANGED scheduled

\* heap.Remove of slot i: the last entry takes its place, unless it is the last.
TakeOut(i, ids) ==
    /\ sift = Idle
    /\ IF i = Len(h) THEN sift' = Sift("pop", i, Len(h) - 1, ids, {}) /\ UNCHANGED <<h, heapIndex>>
       ELSE sift' = Sift("down", i, Len(h) - 1, ids, {}) /\ Swap(i, Len(h))
    /\ UNCHANGED <<nextRefillTime, scheduled>>

\* The end of a loop: of heap.Push or heap.Fix, or of heap.Remove before h.Pop.
Settle ==
    /\ sift' = IF sift.ids = {} THEN Idle ELSE [sift EXCEPT !.run = "pop"]
    /\ scheduled' = scheduled \cup sift.added

\* A turn of down, whose caller calls up if nothing has moved.
Down ==
    LET i == sift.at
        left == 2 * i
        right == left + 1
        j == IF right <= sift.n /\ Less(right, left) THEN right ELSE left
    IN /\ sift.run = "down"
       /\ IF left <= sift.n /\ Less(j, i)
          THEN Swap(i, j) /\ sift' = [sift EXCEPT !.at = j] /\ UNCHANGED scheduled
          ELSE /\ IF i > sift.from THEN Settle
                  ELSE sift' = [sift EXCEPT !.run = "up"] /\ UNCHANGED scheduled
               /\ UNCHANGED <<h, heapIndex>>
       /\ UNCHANGED nextRefillTime

\* A turn of up.
Up ==
    LET j == sift.at
        i == j \div 2
    IN /\ sift.run = "up"
       /\ IF j > 1 /\ Less(j, i)
          THEN Swap(i, j) /\ sift' = [sift EXCEPT !.at = i] /\ UNCHANGED scheduled
          ELSE Settle /\ UNCHANGED <<h, heapIndex>>
       /\ UNCHANGED nextRefillTime

\* h.Pop takes the last slot, and the caller deletes the entry from the map.
PopLast ==
    /\ sift.run = "pop"
    /\ h' = SubSeq(h, 1, Len(h) - 1)
    /\ heapIndex' = [heapIndex EXCEPT ![h[Len(h)]] = 0]
    /\ scheduled' = scheduled \ sift.ids
    /\ nextRefillTime' = [nextRefillTime EXCEPT ![h[Len(h)]] = 0]
    /\ sift' = Idle
-----------------------------------------------------------------------------
\* The mutex is free.
Free == sift = Idle /\ ~popping

\* Schedule, called by a client and by processDue.
InsertInHeap(id, t) == (Fix(id, t) \/ Push(id, t)) /\ UNCHANGED popping
HeapSchedule(c, id, t) == Schedule(c, id, t) /\ InsertInHeap(id, t)
HeapReschedule == Reschedule /\ \E id \in answer.ids : InsertInHeap(id, answer.time)

\* Remove, which does nothing for an id that is not in the map.
HeapRemove(c, id) ==
    /\ Remove(c, id)
    /\ \/ id \in scheduled /\ TakeOut(heapIndex[id], {id})
       \/ id \notin scheduled /\ UNCHANGED heapVars
    /\ UNCHANGED popping

\* processDue locks the mutex and pops the root as long as it is due; for the
\* root, heap.Pop is heap.Remove.
BeginPopping == Pop /\ popping' = TRUE /\ UNCHANGED heapVars
BugRootIsDue == Len(h) > 0 /\ nextRefillTime[h[1]] < dueAt     \* not yet at this instant
RootIsDue == Len(h) > 0 /\ nextRefillTime[h[1]] <= dueAt
PopDue == popping /\ RootIsDue /\ TakeOut(1, {h[1]}) /\ UNCHANGED <<vars, popping>>
BugEndPopping ==                        \* the mutex is not unlocked
    popping /\ sift = Idle /\ ~RootIsDue /\ UNCHANGED <<vars, heapVars, popping>>
EndPopping ==
    /\ popping /\ sift = Idle /\ ~RootIsDue
    /\ popping' = FALSE
    /\ UNCHANGED <<vars, heapVars>>

\* What goes on while the mutex is held.
HeapWork ==
    \/ PopDue \/ EndPopping
    \/ (Down \/ Up \/ PopLast) /\ UNCHANGED <<vars, popping>>

\* Run's steps that do not change the heap.
RunStep ==
    \/ NextWait \/ ResetTimer
    \/ SelectWakeup \/ SelectTimer \/ SelectDone
    \/ OnDue(FALSE, 0) \/ \E t \in Times : OnDue(TRUE, t)
    \/ RunSignal
    \/ BatchDone

HeapRun ==
    /\ Free
    /\ \/ HeapReschedule \/ BeginPopping
       \/ RunStep /\ UNCHANGED <<heapVars, popping>>
HeapCall(c, id) == Free /\ (HeapRemove(c, id) \/ \E t \in Times : HeapSchedule(c, id, t))
HeapSignal(c) == Free /\ ClientSignal(c) /\ UNCHANGED <<heapVars, popping>>

SchedulerNext ==
    \/ HeapRun \/ HeapWork
    \/ \E c \in Clients : HeapSignal(c) \/ \E id \in Ids : HeapCall(c, id)
    \/ (Cancel \/ Tick) /\ UNCHANGED <<heapVars, popping>>

SchedulerInit == Init /\ HeapInit

SchedulerSpec == SchedulerInit /\ [][SchedulerNext]_schedulerVars

\* Goroutines and the clock go on; a goroutine gets the mutex eventually, however
\* often others take it; and select picks at random among the ready cases, so a
\* case that is ready again and again is picked eventually.
Fairness ==
    /\ WF_schedulerVars(HeapWork)
    /\ SF_schedulerVars(HeapRun)
    /\ SF_schedulerVars(Free /\ SelectTimer /\ UNCHANGED <<heapVars, popping>>)
    /\ SF_schedulerVars(\E c \in Clients : HeapSignal(c))
    /\ WF_schedulerVars(Tick /\ UNCHANGED <<heapVars, popping>>)

FairSchedulerSpec == SchedulerSpec /\ Fairness
-----------------------------------------------------------------------------
\* Swap, Push and Pop: at every moment, also between two swaps, the index in each
\* entry of the heap is the slot it is in, and entries that are not in the heap
\* have none; and whenever container/heap is not at work the map has exactly the
\* entries of the heap, so that Fix and Remove, which take the entry from the map
\* and its slot from the entry, work on the one they were called for.
IndexAgrees ==
    /\ \A i \in DOMAIN h : heapIndex[h[i]] = i
    /\ \A id \in Ids \ {h[i] : i \in DOMAIN h} : heapIndex[id] = 0
    /\ sift = Idle => scheduled = {h[i] : i \in DOMAIN h}

\* nextWait and processDue look at the root only, and stop at the first root that
\* is not due: whenever the mutex is free, the heap has the entries and the times
\* that Schedule, Remove and the callbacks left in the map, none that was due when
\* processDue looked, and no entry is earlier than its root, whatever calls moved,
\* inserted and removed entries in the middle of the heap.
HeapMatches ==
    Free => /\ scheduled = entries
            /\ \A i \in entries : nextRefillTime[i] = next[i] /\ nextRefillTime[h[1]] <= next[i]
=============================================================================
