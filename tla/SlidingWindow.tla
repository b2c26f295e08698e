--------------------------- MODULE SlidingWindow ---------------------------
(***************************************************************************)
(* internal/window: the sliding-window counter, a ring buffer of           *)
(* timestamps under a mutex.  Each method holds the mutex for its whole    *)
(* body, so each is one action.                                            *)
(*                                                                         *)
(* What is not atomic is the clock: Allow's caller reads it when the       *)
(* request arrives and reaches the window later, so calls enter with       *)
(* timestamps up to Skew behind the true time and out of order.            *)
(***************************************************************************)
EXTENDS Integers, Sequences, FiniteSets, FiniteSetsExt

CONSTANTS
    W,              \* WindowDuration
    MaxRequests,
    BufferSize,     \* as configured
    Skew,           \* bound on the age of a caller's timestamp
    MaxTime         \* bound on the clock, for TLC

ASSUME WindowAssumption == W \in Nat \ {0} /\ MaxRequests \in Int /\ BufferSize \in Int
ASSUME ClockAssumption == Skew \in Nat /\ MaxTime \in Nat

VARIABLES
    timestamps,     \* the ring
    head,           \* next slot to write
    count,          \* live entries, ending just before head
    now,            \* the clock
    last,           \* the latest Allow: its timestamp and verdict
    accepted        \* history: timestamps of admitted requests, in order

ring == <<timestamps, head, count>>
vars == <<ring, now, last, accepted>>
-----------------------------------------------------------------------------
\* New: at least MaxRequests + 1 slots, decision D12.
BugSize == IF BufferSize < 1 THEN 1 ELSE BufferSize     \* not corrected
Size == Max({BufferSize, MaxRequests + 1, 1})

\* The i-th oldest live entry of a ring with c live entries.
Entry(i, c) == timestamps[(head - c + Size + i) % Size]

\* compactLocked: drop entries from the oldest on while they are not newer
\* than cutoff; a newer entry hides an expired one behind it.
Compact(cutoff) ==
    count - Max({k \in 0 .. count : \A i \in 0 .. k - 1 : Entry(i, count) <= cutoff})

\* pushLocked, on a ring with c live entries.
BugPush(ts, c) ==                       \* head moved before the slot is written
    /\ head' = (head + 1) % Size
    /\ timestamps' = [timestamps EXCEPT ![head'] = ts]
    /\ count' = IF c < Size THEN c + 1 ELSE c
Push(ts, c) ==
    /\ timestamps' = [timestamps EXCEPT ![head] = ts]
    /\ head' = (head + 1) % Size
    /\ count' = IF c < Size THEN c + 1 ELSE c

Init ==
    /\ timestamps = [i \in 0 .. Size - 1 |-> 0]
    /\ head = 0
    /\ count = 0
    /\ now = 0
    /\ last = [at |-> 0, ok |-> TRUE]
    /\ accepted = << >>

BugAllow(t) ==                          \* a rejected request is recorded as well
    LET c == Compact(t - W) IN
    /\ Push(t, c)
    /\ accepted' = IF c < MaxRequests THEN Append(accepted, t) ELSE accepted
    /\ last' = [at |-> t, ok |-> c < MaxRequests]
    /\ UNCHANGED now
Allow(t) ==
    LET c == Compact(t - W) IN
    /\ IF c >= MaxRequests
       THEN count' = c /\ UNCHANGED <<timestamps, head, accepted>>
       ELSE Push(t, c) /\ accepted' = Append(accepted, t)
    /\ last' = [at |-> t, ok |-> c < MaxRequests]
    /\ UNCHANGED now

Cleanup(t) ==
    /\ count' = Compact(t - W)
    /\ UNCHANGED <<timestamps, head, now, last, accepted>>

Tick ==
    /\ now < MaxTime
    /\ now' = now + 1
    /\ UNCHANGED <<ring, last, accepted>>

Next ==
    \/ \E t \in 0 .. now : now - t <= Skew /\ (Allow(t) \/ Cleanup(t))
    \/ Tick

Spec == Init /\ [][Next]_vars
-----------------------------------------------------------------------------
TypeOK ==
    /\ timestamps \in [0 .. Size - 1 -> Nat]
    /\ head \in 0 .. Size - 1
    /\ count \in 0 .. Size
    /\ now \in Nat
    /\ last \in [at : Nat, ok : BOOLEAN]
    /\ accepted \in Seq(Nat)

\* Admitted requests with a timestamp in the half-open interval (a, b].
Between(a, b) ==
    Cardinality({i \in DOMAIN accepted : a < accepted[i] /\ accepted[i] <= b})

\* The live entries are the most recently admitted requests, in order, and
\* there are never more of them than MaxRequests: the overwriting branch that
\* pushLocked's comment says "should never be hit in practice" is not, and no
\* live timestamp is lost as head wraps around.
RingIsSuffix ==
    LET n == Len(accepted) IN
    /\ count <= Max({MaxRequests, 0})
    /\ count <= n
    /\ \A i \in 0 .. count - 1 : Entry(i, count) = accepted[n - count + 1 + i]

\* Allow: at any moment the last W of real time holds at most MaxRequests
\* admitted requests, and so does every past interval of length W less the
\* clock skew, whatever order the callers arrived in.  A request exactly W old
\* is not counted any more, where design.md's closed interval counts it.
WindowBound ==
    /\ Between(now - W, now) <= Max({MaxRequests, 0})
    /\ \A t \in 0 .. now : Between(t - (W - Skew), t) <= Max({MaxRequests, 0})

\* Admitted requests with a timestamp in the closed interval [a, b].
Within(a, b) == Between(a - 1, b)

\* design.md: "`Allow(now)` counts timestamps within `[now-windowSize, now]`;
\* rejects if `count >= maxRequests`."  Allow rejects in no other case, less the
\* clock skew: rejected requests, expired ones that a newer entry hides, and
\* older callers that come late do not use up the window.
RejectedOnlyWhenFull ==
    ~last.ok => Within(last.at - W - Skew, now) >= MaxRequests
=============================================================================
