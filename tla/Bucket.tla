------------------------------- MODULE Bucket -------------------------------
(***************************************************************************)
(* internal/bucket: one lock-free token bucket with a fixed configuration. *)
(*                                                                         *)
(* Request goroutines (Callers) run Allow and the scheduler's callback     *)
(* (Refillers) runs ScheduledRefill, with no mutex: every action below is  *)
(* one atomic load, store, add or compare-and-swap of bucket.go together   *)
(* with the local computation that follows it, so that TLC interleaves     *)
(* the goroutines exactly where the hardware can.                          *)
(*                                                                         *)
(* Time counts from the bucket's creation (New's `now`).  A goroutine      *)
(* reads the clock before it enters the bucket and may be arbitrarily late *)
(* in using it, so frame.at lags behind now.  The verdict of the sliding   *)
(* window is arbitrary here: module SlidingWindow models it.               *)
(*                                                                         *)
(* Operators named Bug... are faulty variants of the definition that       *)
(* follows them, for showing that the properties notice the fault.         *)
(***************************************************************************)
EXTENDS Integers, FiniteSets

CONSTANTS
    Callers,    \* goroutines calling Allow
    Refillers,  \* goroutines calling ScheduledRefill
    InitCfg,    \* the Config passed to New
    Second,     \* time.Second, in ticks of the model's clock
    MaxTime     \* bound on the clock, for TLC

Procs == Callers \cup Refillers

\* Config: MaxTokens and RefillRate are not negative (config.Validate rejects
\* those for the default tier and ValidateBucketConfig for the admin API; for
\* the named tiers of the file it is assumed); a RefillInterval that is not
\* positive disables refill and a TokensPerRequest that is not positive means
\* 1.  SlidingWindow says whether a window is configured and enabled.
Configs ==
    [MaxTokens : Nat, RefillRate : Nat, RefillInterval : Int,
     TokensPerRequest : Int, SlidingWindow : BOOLEAN]

ASSUME ProcsAssumption == IsFiniteSet(Callers) /\ Callers \cap Refillers = {}
ASSUME CfgAssumption == InitCfg \in Configs
ASSUME TimeAssumption == Second \in Nat /\ MaxTime \in Nat

VARIABLES
    config,         \* *configPtr
    tokens,
    lastRefillTime,
    blocked,
    lastAccessTime,
    windowPtr,      \* windowPtr is not nil
    now,            \* the clock
    pc,             \* next atomic operation of each goroutine
    frame,          \* locals: at (`now` argument), cfg, last, cur
    ret,            \* the last result each caller got
    granted,        \* history: tokens spent on allowed requests
    credits,        \* history: refill intervals whose tokens were added
    credited,       \* history: the instants those intervals cover
    spilled         \* history: tokens lost to the cap of a refill

shared == <<config, tokens, lastRefillTime, blocked, lastAccessTime, windowPtr>>
history == <<granted, credits, credited, spilled>>
vars == <<shared, now, pc, frame, ret, history>>
-----------------------------------------------------------------------------
normalize(cfg) ==
    [cfg EXCEPT !.TokensPerRequest = IF @ <= 0 THEN 1 ELSE @]

\* n, the tokens one request costs.
Cost(cfg) == IF cfg.TokensPerRequest <= 0 THEN 1 ELSE cfg.TokensPerRequest

\* The balance covers the request.
BugCovers(cfg, current) == current + 1 >= Cost(cfg)     \* off by one
Covers(cfg, current) == current >= Cost(cfg)

\* Whole intervals elapsed from last to at; nothing when at is the older one.
BugIntervals(cfg, last, at) ==      \* counts an interval that has begun
    IF at < last THEN 0
    ELSE (at - last + cfg.RefillInterval - 1) \div cfg.RefillInterval
Intervals(cfg, last, at) ==
    IF at < last THEN 0 ELSE (at - last) \div cfg.RefillInterval

\* newLastNano: last advanced by whole intervals only, the remainder is kept.
NewLast(cfg, last, at) == last + Intervals(cfg, last, at) * cfg.RefillInterval

\* The wait Allow suggests when current tokens do not cover the request.
BugRetryAfter(cfg, current) ==      \* rounds the intervals down
    IF cfg.RefillRate <= 0 \/ cfg.RefillInterval <= 0
    THEN Second
    ELSE ((Cost(cfg) - current) \div cfg.RefillRate) * cfg.RefillInterval
RetryAfter(cfg, current) ==
    IF cfg.RefillRate <= 0 \/ cfg.RefillInterval <= 0
    THEN Second
    ELSE ((Cost(cfg) - current + cfg.RefillRate - 1) \div cfg.RefillRate)
            * cfg.RefillInterval

\* The balance after k intervals, capped.
BugRefilled(cfg, current, k) == current + k * cfg.RefillRate    \* no cap
Refilled(cfg, current, k) ==
    IF current + k * cfg.RefillRate > cfg.MaxTokens
    THEN cfg.MaxTokens ELSE current + k * cfg.RefillRate

Cfg == normalize(InitCfg)
NoFrame == [at |-> 0, cfg |-> Cfg, last |-> 0, cur |-> 0]
Pending == [allowed |-> FALSE, retryAfter |-> -1]   \* no result yet

Labels == {"idle", "checkBlocked", "loadConfig", "refillLoad", "refillCAS",
           "addLoad", "addCAS", "touch", "takeLoad", "takeCAS", "window",
           "refund"}
Goto(p, l) == pc' = [pc EXCEPT ![p] = l]
Local(p, f, v) == frame' = [frame EXCEPT ![p][f] = v]
Leave(p) == /\ Goto(p, "idle")
            /\ frame' = [frame EXCEPT ![p] = NoFrame]
Return(c, ok, wait) ==
    /\ Leave(c)
    /\ ret' = [ret EXCEPT ![c] = [allowed |-> ok, retryAfter |-> wait]]

\* Where lazyRefill returns to: Allow goes on, ScheduledRefill is finished.
\* The locals of lazyRefill go out of scope.
AfterRefill(p) ==
    IF p \in Callers
    THEN /\ Goto(p, "touch")
         /\ frame' = [frame EXCEPT ![p].last = 0, ![p].cur = 0]
    ELSE Leave(p)
-----------------------------------------------------------------------------
\* New: full, unblocked, no interval elapsed.
Init ==
    /\ config = Cfg
    /\ tokens = Cfg.MaxTokens
    /\ lastRefillTime = 0
    /\ blocked = FALSE
    /\ lastAccessTime = 0
    /\ windowPtr = Cfg.SlidingWindow
    /\ now = 0
    /\ pc = [p \in Procs |-> "idle"]
    /\ frame = [p \in Procs |-> NoFrame]
    /\ ret = [c \in Callers |-> Pending]
    /\ granted = 0 /\ credits = 0 /\ credited = {} /\ spilled = 0

\* The caller reads the clock and calls Allow.
Call(c) ==
    /\ pc[c] = "idle"
    /\ Goto(c, "checkBlocked")
    /\ Local(c, "at", now)
    /\ ret' = [ret EXCEPT ![c] = Pending]
    /\ UNCHANGED <<shared, now, history>>

CheckBlocked(c) ==
    /\ pc[c] = "checkBlocked"
    /\ IF blocked
       THEN Return(c, FALSE, 0)
       ELSE Goto(c, "loadConfig") /\ UNCHANGED <<frame, ret>>
    /\ UNCHANGED <<shared, now, history>>

\* The scheduler's processDue reads the clock and calls ScheduledRefill.
ScheduledRefill(r) ==
    /\ pc[r] = "idle"
    /\ Goto(r, "loadConfig")
    /\ Local(r, "at", now)
    /\ UNCHANGED <<shared, now, ret, history>>

LoadConfig(p) ==
    /\ pc[p] = "loadConfig"
    /\ \/ /\ config.RefillInterval > 0
          /\ Goto(p, "refillLoad")
          /\ Local(p, "cfg", config)
       \/ /\ config.RefillInterval <= 0 /\ p \in Callers
          /\ Goto(p, "touch")
          /\ Local(p, "cfg", config)
       \/ /\ config.RefillInterval <= 0 /\ p \in Refillers
          /\ Leave(p)
    /\ UNCHANGED <<shared, now, ret, history>>

\* lazyRefill: read lastRefillTime; done unless a whole interval has elapsed.
RefillLoad(p) ==
    /\ pc[p] = "refillLoad"
    /\ IF Intervals(frame[p].cfg, lastRefillTime, frame[p].at) <= 0
       THEN AfterRefill(p)
       ELSE Goto(p, "refillCAS") /\ Local(p, "last", lastRefillTime)
    /\ UNCHANGED <<shared, now, ret, history>>

\* lazyRefill: claim the elapsed intervals, or start over if another did.
BugRefillCAS(p) ==                  \* a plain Store instead of the CAS
    /\ pc[p] = "refillCAS"
    /\ lastRefillTime' = NewLast(frame[p].cfg, frame[p].last, frame[p].at)
    /\ Goto(p, "addLoad")
    /\ UNCHANGED <<config, tokens, blocked, lastAccessTime, windowPtr, now,
                   frame, ret, history>>
BugRefillSpin(p) ==                 \* a failed CAS does not reload
    /\ pc[p] = "refillCAS"
    /\ lastRefillTime = frame[p].last
    /\ lastRefillTime' = NewLast(frame[p].cfg, frame[p].last, frame[p].at)
    /\ Goto(p, "addLoad")
    /\ UNCHANGED <<config, tokens, blocked, lastAccessTime, windowPtr, now,
                   frame, ret, history>>
RefillCAS(p) ==
    /\ pc[p] = "refillCAS"
    /\ IF lastRefillTime = frame[p].last
       THEN /\ lastRefillTime' = NewLast(frame[p].cfg, frame[p].last, frame[p].at)
            /\ Goto(p, "addLoad")
       ELSE /\ Goto(p, "refillLoad")
            /\ UNCHANGED lastRefillTime
    /\ UNCHANGED <<config, tokens, blocked, lastAccessTime, windowPtr, now,
                   frame, ret, history>>

AddLoad(p) ==
    /\ pc[p] = "addLoad"
    /\ Goto(p, "addCAS")
    /\ Local(p, "cur", tokens)
    /\ UNCHANGED <<shared, now, ret, history>>

\* The instants of the intervals that p has claimed.
Claim(p) ==
    LET f == frame[p] IN f.last + 1 .. NewLast(f.cfg, f.last, f.at)

\* lazyRefill: add the claimed intervals' tokens, capped, or reload and retry.
AddCAS(p) ==
    /\ pc[p] = "addCAS"
    /\ LET f == frame[p]
           k == Intervals(f.cfg, f.last, f.at)
       IN IF tokens = f.cur
          THEN /\ tokens' = Refilled(f.cfg, f.cur, k)
               /\ credits' = credits + k
               /\ credited' = credited \cup Claim(p)
               /\ spilled' = spilled + (f.cur + k * f.cfg.RefillRate - tokens')
               /\ AfterRefill(p)
          ELSE /\ Goto(p, "addLoad")
               /\ UNCHANGED <<tokens, credits, credited, spilled, frame>>
    /\ UNCHANGED <<config, lastRefillTime, blocked, lastAccessTime, windowPtr,
                   now, ret, granted>>

\* Allow: lastAccessTime.Store(now), with the caller's own idea of now.
Touch(c) ==
    /\ pc[c] = "touch"
    /\ lastAccessTime' = frame[c].at
    /\ Goto(c, "takeLoad")
    /\ UNCHANGED <<config, tokens, lastRefillTime, blocked, windowPtr, now,
                   frame, ret, history>>

\* Allow: read the balance; reject when it does not cover the request.
TakeLoad(c) ==
    /\ pc[c] = "takeLoad"
    /\ IF Covers(frame[c].cfg, tokens)
       THEN Goto(c, "takeCAS") /\ Local(c, "cur", tokens) /\ UNCHANGED ret
       ELSE Return(c, FALSE, RetryAfter(frame[c].cfg, tokens))
    /\ UNCHANGED <<shared, now, history>>

\* Allow: take the tokens, or reload and retry if the balance moved.
BugTakeCAS(c) ==                    \* a plain Store instead of the CAS
    /\ pc[c] = "takeCAS"
    /\ tokens' = frame[c].cur - Cost(frame[c].cfg)
    /\ Goto(c, "window")
    /\ Local(c, "cur", 0)
    /\ UNCHANGED <<config, lastRefillTime, blocked, lastAccessTime, windowPtr,
                   now, ret, history>>
TakeCAS(c) ==
    /\ pc[c] = "takeCAS"
    /\ IF tokens = frame[c].cur
       THEN tokens' = frame[c].cur - Cost(frame[c].cfg) /\ Goto(c, "window")
       ELSE Goto(c, "takeLoad") /\ UNCHANGED tokens
    /\ Local(c, "cur", 0)
    /\ UNCHANGED <<config, lastRefillTime, blocked, lastAccessTime, windowPtr,
                   now, ret, history>>

\* Allow: no window, or the window admits the request: allowed.
WindowAdmit(c) ==
    /\ pc[c] = "window"
    /\ granted' = granted + Cost(frame[c].cfg)
    /\ Return(c, TRUE, 0)
    /\ UNCHANGED <<shared, now, credits, credited, spilled>>

\* Allow: there is a window and it refuses.
WindowReject(c) ==
    /\ pc[c] = "window"
    /\ windowPtr
    /\ Goto(c, "refund")
    /\ UNCHANGED <<shared, now, frame, ret, history>>

\* Allow: tokens.Add(n), not capped at MaxTokens.
BugRefund(c) ==                     \* refunds on two return paths
    /\ pc[c] = "refund"
    /\ tokens' = tokens + 2 * Cost(frame[c].cfg)
    /\ Return(c, FALSE, frame[c].cfg.RefillInterval)
    /\ UNCHANGED <<config, lastRefillTime, blocked, lastAccessTime, windowPtr,
                   now, history>>
Refund(c) ==
    /\ pc[c] = "refund"
    /\ tokens' = tokens + Cost(frame[c].cfg)
    /\ Return(c, FALSE, frame[c].cfg.RefillInterval)
    /\ UNCHANGED <<config, lastRefillTime, blocked, lastAccessTime, windowPtr,
                   now, history>>

Block ==
    /\ blocked' = TRUE
    /\ UNCHANGED <<config, tokens, lastRefillTime, lastAccessTime, windowPtr,
                   now, pc, frame, ret, history>>

Unblock ==
    /\ blocked' = FALSE
    /\ UNCHANGED <<config, tokens, lastRefillTime, lastAccessTime, windowPtr,
                   now, pc, frame, ret, history>>

Tick ==
    /\ now < MaxTime
    /\ now' = now + 1
    /\ UNCHANGED <<shared, pc, frame, ret, history>>

\* One step of a goroutine that is inside lazyRefill.
Refill(p) == RefillLoad(p) \/ RefillCAS(p) \/ AddLoad(p) \/ AddCAS(p)

\* One step of a call of Allow in progress.
Allow(c) ==
    \/ CheckBlocked(c) \/ LoadConfig(c) \/ Refill(c)
    \/ Touch(c) \/ TakeLoad(c) \/ TakeCAS(c)
    \/ WindowAdmit(c) \/ WindowReject(c) \/ Refund(c)

Next ==
    \/ \E c \in Callers : Call(c) \/ Allow(c)
    \/ \E r \in Refillers : ScheduledRefill(r) \/ LoadConfig(r) \/ Refill(r)
    \/ Block \/ Unblock
    \/ Tick

Spec == Init /\ [][Next]_vars

\* The Go scheduler lets every goroutine that is inside a call go on.
Fairness ==
    /\ \A c \in Callers : WF_vars(Allow(c))
    /\ \A r \in Refillers : WF_vars(LoadConfig(r) \/ Refill(r))

FairSpec == Spec /\ Fairness
-----------------------------------------------------------------------------
TypeOK ==
    /\ config \in Configs
    /\ tokens \in Nat
    /\ lastRefillTime \in Nat
    /\ blocked \in BOOLEAN
    /\ lastAccessTime \in Nat
    /\ windowPtr \in BOOLEAN
    /\ now \in Nat
    /\ pc \in [Procs -> Labels]
    /\ frame \in [Procs -> [at : Nat, cfg : Configs, last : Nat, cur : Nat]]
    /\ ret \in [Callers -> [allowed : BOOLEAN, retryAfter : Int]]
    /\ granted \in Nat
    /\ credits \in Nat
    /\ credited \in SUBSET Nat
    /\ spilled \in Nat

\* Calls whose tokens are taken and neither granted nor refunded yet.
Held == {c \in Callers : pc[c] \in {"window", "refund"}}

\* Goroutines that advanced lastRefillTime and have not added the tokens yet.
Claimants == {p \in Procs : pc[p] \in {"addLoad", "addCAS"}}

\* Conservation of tokens across the CAS loops of Allow and lazyRefill: what
\* was granted, what is in the bucket, what calls in flight hold and what the
\* cap discarded add up to the initial fill and the credited refills.  A CAS
\* that overwrites a concurrent change, or a refund of the wrong amount, mints
\* or destroys tokens.
Ledger ==
    granted + tokens + Cost(Cfg) * Cardinality(Held) + spilled
        = Cfg.MaxTokens + Cfg.RefillRate * credits

\* lazyRefill, decision D11: the intervals up to lastRefillTime are exactly
\* those credited and those claimed by a goroutine that is about to credit
\* them; no interval is claimed by two goroutines or credited a second time.
CreditedOnce ==
    /\ credited \cup UNION {Claim(p) : p \in Claimants} = 1 .. lastRefillTime
    /\ \A p \in Claimants : Claim(p) \cap credited = {}
    /\ \A p, q \in Claimants : p # q => Claim(p) \cap Claim(q) = {}

\* The rate limit itself: whatever the interleaving of Allow and
\* ScheduledRefill, and however stale their clocks, the tokens granted up to
\* any moment are at most the burst MaxTokens plus RefillRate for each
\* RefillInterval elapsed since New.
RateBound ==
    granted <= Cfg.MaxTokens
        + (IF Cfg.RefillInterval > 0
           THEN Cfg.RefillRate * (now \div Cfg.RefillInterval) ELSE 0)

\* Without a window the balance never exceeds MaxTokens.  With one, each
\* refund may land after a refill has topped the bucket up, but the excess
\* never accumulates beyond one request's cost per concurrent caller.
BalanceBound ==
    IF windowPtr
    THEN tokens + Cost(Cfg) * Cardinality(Held)
            <= Cfg.MaxTokens + Cost(Cfg) * Cardinality(Callers)
    ELSE tokens <= Cfg.MaxTokens

\* Allow's retryAfter is enough: a caller rejected for lack of tokens, with a
\* clock that is not stale, would be covered if it came back after that wait
\* and nobody else took tokens, provided its cost fits the bucket at all.
RetryAfterSuffices ==
    [][\A c \in Callers :
        LET cfg == frame[c].cfg IN
        /\ pc[c] = "takeLoad" /\ pc'[c] = "idle"
        /\ frame[c].at = now
        /\ cfg.RefillRate > 0 /\ cfg.RefillInterval > 0
        /\ Cost(cfg) <= cfg.MaxTokens
        => Refilled(cfg, tokens, Intervals(cfg, lastRefillTime,
                                           now + ret'[c].retryAfter))
            >= Cost(cfg)]_vars

\* Lock freedom of the CAS loops of Allow and lazyRefill: while calls are in
\* progress some goroutine always completes one.  (One unlucky caller may
\* lose its CAS forever; all of them may not.)
Quiet == \A p \in Procs : pc[p] = "idle"
Completes == \E p \in Procs : pc[p] # "idle" /\ pc'[p] = "idle"
LockFree == []<>Quiet \/ []<><<Completes>>_vars

\* The abstract bucket: level, credits and reservations are tokens, credits
\* and Held.
TB == INSTANCE TokenBucket WITH
        Capacity <- Cfg.MaxTokens, Rate <- Cfg.RefillRate,
        Interval <- Cfg.RefillInterval, Price <- Cost(Cfg),
        clock <- now, level <- tokens, held <- Cardinality(Held)

\* The interleaved loads and CASes of Allow and lazyRefill implement atomic
\* reserve, commit, cancel and credit steps on a token bucket.
ImplementsTokenBucket == TB!TBSpec
=============================================================================
