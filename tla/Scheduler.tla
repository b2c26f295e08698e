----------------------------- MODULE Scheduler -----------------------------
(***************************************************************************)
(* internal/scheduler: the event-driven refill scheduler.                  *)
(*                                                                         *)
(* One goroutine (Run) sleeps until the earliest entry is due or a wakeup  *)
(* arrives; Clients (request and admin goroutines) insert, move and remove *)
(* entries under the mutex, and Schedule signals the one-slot wakeup       *)
(* channel only after it has released the mutex.  Run reads the heap, then *)
(* arms its timer, then selects, and calls back into the store without the *)
(* mutex, so every one of those points is a separate step here.            *)
(*                                                                         *)
(* The heap and the entries map are one map from ids to times; that the    *)
(* earliest entry is at the heap's root is shown in RefillHeap, which      *)
(* extends this module.  The callback's answer is arbitrary here.  The     *)
(* refillsTotal metric, an unbounded counter nothing reads back, is left   *)
(* out.                                                                    *)
(***************************************************************************)
EXTENDS Integers, FiniteSets, FiniteSetsExt

CONSTANTS
    Ids,        \* schedule ids
    Clients,    \* goroutines calling Schedule and Remove
    Hour,       \* the wait of an empty heap
    MaxNext,    \* bound on the times entries are scheduled for
    MaxLag,     \* bound on the time Run spends between nextWait and Reset
    MaxTime     \* bound on the clock, for TLC

ASSUME HourAssumption == Hour \in Nat
ASSUME TimeAssumption == MaxNext \in Nat /\ MaxLag \in Nat /\ MaxTime \in Nat

Times == 0 .. MaxNext

VARIABLES
    entries,    \* ids in the heap
    next,       \* nextRefillTime of each id, 0 when it is not in the heap
    wakeup,     \* the channel holds a signal
    clientPC,   \* "idle", or "signal" between Schedule's unlock and its signal
    pc,         \* where Run is
    wait,       \* Run: the duration nextWait returned
    lookedAt,   \* Run: when nextWait read the heap
    armedAt,    \* Run: when the timer was reset to wait
    now,        \* the clock
    dueAt,      \* processDue: its `now`
    due,        \* processDue: popped entries still to be called back
    popped,     \* processDue: the times they were due at
    answer,     \* processDue: the id being rescheduled and its next time
    ctxDone     \* the context is cancelled

heap == <<entries, next>>
timer == <<wait, lookedAt, armedAt>>
batch == <<dueAt, due, popped, answer>>
vars == <<heap, wakeup, clientPC, pc, timer, now, batch, ctxDone>>

NoAnswer == [ids |-> {}, time |-> 0]
-----------------------------------------------------------------------------
Init ==
    /\ entries = {}
    /\ next = [i \in Ids |-> 0]
    /\ wakeup = FALSE
    /\ clientPC = [c \in Clients |-> "idle"]
    /\ pc = "nextWait"
    /\ wait = 0 /\ lookedAt = 0 /\ armedAt = 0
    /\ now = 0
    /\ dueAt = 0 /\ due = {} /\ popped = [i \in Ids |-> 0] /\ answer = NoAnswer
    /\ ctxDone = FALSE

\* Schedule's critical section: insert the entry or move it.
Insert(id, t) ==
    /\ entries' = entries \cup {id}
    /\ next' = [next EXCEPT ![id] = t]

\* A client's Schedule, up to its Unlock.
BugSchedule(c, id, t) ==            \* the signal is only sent for new entries
    /\ clientPC[c] = "idle"
    /\ Insert(id, t)
    /\ clientPC' = [clientPC EXCEPT ![c] = IF id \in entries THEN "idle" ELSE "signal"]
    /\ UNCHANGED <<wakeup, pc, timer, now, batch, ctxDone>>
Schedule(c, id, t) ==
    /\ clientPC[c] = "idle"
    /\ Insert(id, t)
    /\ clientPC' = [clientPC EXCEPT ![c] = "signal"]
    /\ UNCHANGED <<wakeup, pc, timer, now, batch, ctxDone>>

\* signal: a non-blocking send on a channel of capacity one.
ClientSignal(c) ==
    /\ clientPC[c] = "signal"
    /\ wakeup' = TRUE
    /\ clientPC' = [clientPC EXCEPT ![c] = "idle"]
    /\ UNCHANGED <<heap, pc, timer, now, batch, ctxDone>>

\* Remove, which does not signal.
Remove(c, id) ==
    /\ clientPC[c] = "idle"
    /\ entries' = entries \ {id}
    /\ next' = [next EXCEPT ![id] = 0]
    /\ UNCHANGED <<wakeup, clientPC, pc, timer, now, batch, ctxDone>>

\* nextWait: time until the earliest entry, none if it is overdue.
WaitFor(t) == IF t > now THEN t - now ELSE 0

NextWait ==
    /\ pc = "nextWait"
    /\ wait' = IF entries = {} THEN Hour ELSE WaitFor(Min({next[i] : i \in entries}))
    /\ lookedAt' = now
    /\ pc' = "reset"
    /\ UNCHANGED <<heap, wakeup, clientPC, armedAt, now, batch, ctxDone>>

\* timer.Stop, drain and Reset(wait).
ResetTimer ==
    /\ pc = "reset"
    /\ armedAt' = now
    /\ pc' = "select"
    /\ UNCHANGED <<heap, wakeup, clientPC, wait, lookedAt, now, batch, ctxDone>>

\* Run is about to select again; the timer's settings are forgotten.
Loop == pc' = "nextWait" /\ wait' = 0 /\ lookedAt' = 0 /\ armedAt' = 0

\* select: a wakeup.
SelectWakeup ==
    /\ pc = "select" /\ wakeup
    /\ wakeup' = FALSE
    /\ Loop
    /\ UNCHANGED <<heap, clientPC, now, batch, ctxDone>>

\* select: the timer has fired; processDue reads the clock.
SelectTimer ==
    /\ pc = "select" /\ now >= armedAt + wait
    /\ dueAt' = now
    /\ pc' = "pop"
    /\ wait' = 0 /\ lookedAt' = 0 /\ armedAt' = 0
    /\ UNCHANGED <<heap, wakeup, clientPC, now, due, popped, answer, ctxDone>>

\* select: the context is done and Run returns.
SelectDone ==
    /\ pc = "select" /\ ctxDone
    /\ pc' = "done"
    /\ wait' = 0 /\ lookedAt' = 0 /\ armedAt' = 0
    /\ UNCHANGED <<heap, wakeup, clientPC, now, batch, ctxDone>>

\* processDue's critical section: pop everything that is due.
Pop ==
    /\ pc = "pop"
    /\ due' = {i \in entries : next[i] <= dueAt}
    /\ popped' = [i \in Ids |-> IF i \in due' THEN next[i] ELSE 0]
    /\ entries' = entries \ due'
    /\ next' = [i \in Ids |-> IF i \in due' THEN 0 ELSE next[i]]
    /\ pc' = "callback"
    /\ UNCHANGED <<wakeup, clientPC, timer, now, dueAt, answer, ctxDone>>

\* processDue: onDue for the earliest popped entry.  ok = FALSE drops the
\* entry, otherwise it is to be rescheduled at t.
OnDue(ok, t) ==
    /\ pc = "callback"
    /\ \E i \in due :
        /\ \A j \in due : popped[i] <= popped[j]
        /\ due' = due \ {i}
        /\ popped' = [popped EXCEPT ![i] = 0]
        /\ IF ok
           THEN answer' = [ids |-> {i}, time |-> t] /\ pc' = "insert"
           ELSE UNCHANGED <<answer, pc>>
    /\ UNCHANGED <<heap, wakeup, clientPC, timer, now, dueAt, ctxDone>>

\* processDue: the critical section of its own call of Schedule.
Reschedule ==
    /\ pc = "insert"
    /\ \E i \in answer.ids : Insert(i, answer.time)
    /\ answer' = NoAnswer
    /\ pc' = "signal"
    /\ UNCHANGED <<wakeup, clientPC, timer, now, dueAt, due, popped, ctxDone>>

RunSignal ==
    /\ pc = "signal"
    /\ wakeup' = TRUE
    /\ pc' = "callback"
    /\ UNCHANGED <<heap, clientPC, timer, now, batch, ctxDone>>

\* processDue returns.
BatchDone ==
    /\ pc = "callback" /\ due = {}
    /\ dueAt' = 0
    /\ Loop
    /\ UNCHANGED <<heap, wakeup, clientPC, now, due, popped, answer, ctxDone>>

Cancel ==
    /\ ctxDone' = TRUE
    /\ UNCHANGED <<heap, wakeup, clientPC, pc, timer, now, batch>>

Tick ==
    /\ now < MaxTime
    /\ pc = "reset" => now - lookedAt < MaxLag
    /\ now' = now + 1
    /\ UNCHANGED <<heap, wakeup, clientPC, pc, timer, batch, ctxDone>>

Run ==
    \/ NextWait \/ ResetTimer
    \/ SelectWakeup \/ SelectTimer \/ SelectDone
    \/ Pop
    \/ OnDue(FALSE, 0) \/ \E t \in Times : OnDue(TRUE, t)
    \/ Reschedule \/ RunSignal
    \/ BatchDone

Next ==
    \/ Run
    \/ \E c \in Clients :
        \/ \E id \in Ids, t \in Times : Schedule(c, id, t)
        \/ \E id \in Ids : Remove(c, id)
        \/ ClientSignal(c)
    \/ Cancel
    \/ Tick

Spec == Init /\ [][Next]_vars
-----------------------------------------------------------------------------
TypeOK ==
    /\ entries \in SUBSET Ids
    /\ next \in [Ids -> Nat]
    /\ wakeup \in BOOLEAN
    /\ clientPC \in [Clients -> {"idle", "signal"}]
    /\ pc \in {"nextWait", "reset", "select", "pop", "callback", "insert", "signal", "done"}
    /\ wait \in Nat /\ lookedAt \in Nat /\ armedAt \in Nat
    /\ now \in Nat
    /\ dueAt \in Nat
    /\ due \in SUBSET Ids
    /\ popped \in [Ids -> Nat]
    /\ answer \in [ids : SUBSET Ids, time : Nat]
    /\ ctxDone \in BOOLEAN

Signalling == wakeup \/ \E c \in Clients : clientPC[c] = "signal"

\* Run: no wakeup is lost.  While Run sleeps, and no signal is pending or
\* about to be sent, it is not going to sleep longer than the earliest entry
\* needed when it looked at the heap, although Schedule changes the heap under
\* the mutex and signals only afterwards.
NoOversleep ==
    pc = "select" /\ ~Signalling =>
        \A i \in entries : wait <= (IF next[i] > lookedAt THEN next[i] - lookedAt ELSE 0)

\* An entry in the heap that is due.
Overdue(i) == i \in entries /\ next[i] <= now

\* Run: unless the context is cancelled, an overdue entry is eventually popped
\* for its callback, or a client moves or removes it.
OverdueIsServed == \A i \in Ids : Overdue(i) ~> (~Overdue(i) \/ ctxDone)
=============================================================================
