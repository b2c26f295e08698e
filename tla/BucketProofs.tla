---------------------------- MODULE BucketProofs ----------------------------
(***************************************************************************)
(* Proofs about modules Bucket and BucketReconfig, for every number of     *)
(* callers and refillers, every configuration and every clock.             *)
(*                                                                         *)
(*   1. Base: types, and what each goroutine's program counter says about  *)
(*      its locals, whatever configuration it loaded; a lemma per action.  *)
(*   2. Effects: under Base every step has one of six effects on the       *)
(*      accounts (nothing, claim, add, take, grant, refund).               *)
(*   3. The accounts: without UpdateConfig the configuration is Fixed, and *)
(*      CreditedOnce, Counted, Ledger and BalanceBound are preserved by    *)
(*      each effect; with Base they are inductive (IInv).                  *)
(*   4. RateBound follows from IInv, and each effect is a step of          *)
(*      TokenBucket: the bucket implements it.                             *)
(*   5. RetryAfter: the arithmetic of the wait that Allow suggests.        *)
(*   6. Reconfiguration: with UpdateConfig, Base and CreditedOnce survive, *)
(*      and the balance and the tokens held stay within Room (RInv).       *)
(***************************************************************************)
EXTENDS BucketReconfig, FiniteSetTheorems, WellFoundedInduction, TLAPS

\* A normalised configuration (normalize) is well typed and every request costs
\* at least one token.
LEMMA CfgFacts ==
    /\ Cfg \in Configs
    /\ Cfg.MaxTokens \in Nat /\ Cfg.RefillRate \in Nat
    /\ Cfg.RefillInterval \in Int /\ Cfg.SlidingWindow \in BOOLEAN
    /\ Cost(Cfg) \in Nat /\ Cost(Cfg) >= 1
BY CfgAssumption DEF Cfg, Configs, normalize, Cost

\* So is any configuration.
LEMMA ConfigFacts ==
    ASSUME NEW cfg \in Configs
    PROVE  /\ cfg.MaxTokens \in Nat /\ cfg.RefillRate \in Nat
           /\ cfg.RefillInterval \in Int /\ cfg.SlidingWindow \in BOOLEAN
           /\ Cost(cfg) \in Nat /\ Cost(cfg) >= 1
BY DEF Configs, Cost

\* Division rounds down.
LEMMA DivFacts ==
    ASSUME NEW a \in Nat, NEW b \in Nat, b > 0
    PROVE  /\ a \div b \in Nat
           /\ (a \div b) * b <= a
OBVIOUS

\* lazyRefill advances lastRefillTime by whole intervals and never beyond the
\* caller's own clock.
LEMMA IntervalsFacts ==
    ASSUME NEW cfg \in Configs, NEW last \in Nat, NEW at \in Nat, cfg.RefillInterval > 0
    PROVE  /\ Intervals(cfg, last, at) \in Nat
           /\ NewLast(cfg, last, at) \in Nat
           /\ NewLast(cfg, last, at) = last + Intervals(cfg, last, at) * cfg.RefillInterval
           /\ Intervals(cfg, last, at) >= 1 => /\ last < NewLast(cfg, last, at)
                                               /\ NewLast(cfg, last, at) <= at
<1> DEFINE I == cfg.RefillInterval
           k == Intervals(cfg, last, at)
<1>1. I \in Nat /\ I > 0
  BY ConfigFacts
<1>2. CASE at < last
  BY <1>1, <1>2 DEF Intervals, NewLast
<1>3. CASE ~(at < last)
  <2>1. k = (at - last) \div I /\ at - last \in Nat
    BY <1>3 DEF Intervals
  <2>2. k \in Nat /\ k * I <= at - last
    BY <2>1, <1>1, DivFacts
  <2>3. k >= 1 => k * I >= 1
    BY <2>2, <1>1
  <2>4. k * I \in Nat
    BY <2>2, <1>1
  <2> QED
    BY <2>2, <2>3, <2>4 DEF NewLast
<1> QED
  BY <1>2, <1>3
-----------------------------------------------------------------------------
\* The locals of a goroutine.
Frames == [at : Nat, cfg : Configs, last : Nat, cur : Nat]

\* What a goroutine's program counter says about its locals, whatever
\* configuration it has loaded.
FrameInv(p) ==
    LET cfg == frame[p].cfg IN
    /\ frame[p].at <= now
    /\ pc[p] \in {"refillLoad", "refillCAS", "addLoad", "addCAS"} => cfg.RefillInterval > 0
    /\ pc[p] \in {"refillCAS", "addLoad", "addCAS"} =>
        Intervals(cfg, frame[p].last, frame[p].at) >= 1
    /\ pc[p] \in {"addLoad", "addCAS"} =>
        NewLast(cfg, frame[p].last, frame[p].at) <= lastRefillTime
    /\ pc[p] = "takeCAS" => frame[p].cur >= Cost(cfg)

\* Types, the clock, and every goroutine's locals.
Base ==
    /\ TypeOK
    /\ lastRefillTime <= now
    /\ \A p \in Procs : FrameInv(p)

\* The configuration that New stored is the only one in use.
Fixed ==
    /\ config = Cfg
    /\ windowPtr = Cfg.SlidingWindow
    /\ \A p \in Procs : frame[p].cfg = Cfg /\ (pc[p] = "refund" => Cfg.SlidingWindow)

\* The locals of a goroutine outside the bucket are well typed.
LEMMA NoFrameFacts == NoFrame \in Frames /\ NoFrame.cfg = Cfg /\ NoFrame.at = 0
BY CfgFacts DEF NoFrame, Frames

\* A bucket fresh from New satisfies Base.
LEMMA BaseInit == Init => Base
<1> SUFFICES ASSUME Init PROVE Base
  OBVIOUS
<1>1. config \in Configs /\ blocked \in BOOLEAN /\ windowPtr \in BOOLEAN
  BY CfgFacts DEF Init
<1>2. frame \in [Procs -> Frames]
  BY NoFrameFacts DEF Init
<1>3. ret \in [Callers -> [allowed : BOOLEAN, retryAfter : Int]]
  BY DEF Init, Pending
<1>4. TypeOK
  BY <1>1, <1>2, <1>3, CfgFacts DEF Init, TypeOK, Frames, Labels
<1>5. ASSUME NEW p \in Procs PROVE FrameInv(p)
  BY <1>5, NoFrameFacts DEF Init, FrameInv
<1> QED
  BY <1>4, <1>5 DEF Base, Init

\* Allow's retryAfter is a number.
LEMMA RetryAfterType ==
    ASSUME NEW cfg \in Configs, NEW cur \in Nat
    PROVE  RetryAfter(cfg, cur) \in Int
<1> DEFINE d == Cost(cfg) - cur + cfg.RefillRate - 1
<1>1. CASE cfg.RefillRate <= 0 \/ cfg.RefillInterval <= 0
  BY <1>1, TimeAssumption DEF RetryAfter
<1>2. CASE ~(cfg.RefillRate <= 0 \/ cfg.RefillInterval <= 0)
  <2>1. d \in Int /\ cfg.RefillRate \in Nat /\ cfg.RefillRate > 0 /\ cfg.RefillInterval \in Int
    BY <1>2, ConfigFacts
  <2>2. d \div cfg.RefillRate \in Int
    BY <2>1
  <2>3. (d \div cfg.RefillRate) * cfg.RefillInterval \in Int
    BY <2>1, <2>2
  <2> QED
    BY <1>2, <2>3 DEF RetryAfter
<1> QED
  BY <1>1, <1>2

\* A goroutine that leaves the bucket keeps every frame well typed.
LEMMA LeaveType ==
    ASSUME TypeOK, NEW p \in Procs, Leave(p)
    PROVE  pc' \in [Procs -> Labels] /\ frame' \in [Procs -> Frames]
BY NoFrameFacts DEF Leave, Goto, TypeOK, Labels, Frames

\* So does one that leaves lazyRefill.
LEMMA AfterRefillType ==
    ASSUME TypeOK, NEW p \in Procs, AfterRefill(p)
    PROVE  pc' \in [Procs -> Labels] /\ frame' \in [Procs -> Frames]
<1>1. CASE p \in Callers
  <2>1. pc' = [pc EXCEPT ![p] = "touch"] /\ pc \in [Procs -> Labels]
    BY <1>1 DEF AfterRefill, Goto, TypeOK
  <2>2. pc' \in [Procs -> Labels]
    BY <2>1 DEF Labels
  <2>3. frame' = [frame EXCEPT ![p].last = 0, ![p].cur = 0] /\ frame \in [Procs -> Frames]
    BY <1>1 DEF AfterRefill, TypeOK, Frames
  <2>4. frame' \in [Procs -> Frames]
    BY <2>3 DEF Frames
  <2> QED
    BY <2>2, <2>4
<1>2. CASE p \notin Callers
  BY <1>2, LeaveType DEF AfterRefill
<1> QED
  BY <1>1, <1>2

\* The capped sum is between zero and MaxTokens and no more than the sum.
LEMMA RefilledFacts ==
    ASSUME NEW cfg \in Configs, NEW cur \in Nat, NEW k \in Nat
    PROVE  /\ k * cfg.RefillRate \in Nat
           /\ Refilled(cfg, cur, k) \in Nat
           /\ Refilled(cfg, cur, k) <= cfg.MaxTokens
           /\ Refilled(cfg, cur, k) <= cur + k * cfg.RefillRate
<1>1. k * cfg.RefillRate \in Nat
  BY ConfigFacts
<1> QED
  BY <1>1, ConfigFacts DEF Refilled

\* Call preserves Base.
LEMMA BaseCall ==
    ASSUME Base, NEW c \in Callers, Call(c)
    PROVE  Base'
<1> c \in Procs
  BY DEF Procs
<1>t. TypeOK'
  BY DEF Base, TypeOK, Call, Goto, Local, shared, history, Labels, Pending
<1>f. ASSUME NEW q \in Procs PROVE FrameInv(q)'
  BY <1>f DEF Base, TypeOK, FrameInv, Call, Goto, Local, shared, history
<1> QED
  BY <1>t, <1>f DEF Base, Call, shared

\* CheckBlocked preserves Base.
LEMMA BaseCheckBlocked ==
    ASSUME Base, NEW c \in Callers, CheckBlocked(c)
    PROVE  Base'
<1> c \in Procs
  BY DEF Procs
<1>i. /\ pc' \in [Procs -> Labels]
      /\ frame' \in [Procs -> Frames]
      /\ ret' \in [Callers -> [allowed : BOOLEAN, retryAfter : Int]]
  <2>1. CASE blocked
    <3>1. /\ Leave(c) /\ TypeOK
          /\ ret' = [ret EXCEPT ![c] = [allowed |-> FALSE, retryAfter |-> 0]]
      BY <2>1 DEF Base, CheckBlocked, Return
    <3>2. ret' \in [Callers -> [allowed : BOOLEAN, retryAfter : Int]]
      BY <3>1 DEF TypeOK
    <3> QED
      BY <3>1, <3>2, LeaveType
  <2>2. CASE ~blocked
    BY <2>2 DEF Base, TypeOK, CheckBlocked, Goto, Labels, Frames
  <2> QED
    BY <2>1, <2>2
<1>t. TypeOK'
  BY <1>i DEF Base, TypeOK, CheckBlocked, shared, history, Frames
<1>f. ASSUME NEW q \in Procs PROVE FrameInv(q)'
  BY <1>f, NoFrameFacts DEF Base, TypeOK, FrameInv, CheckBlocked, Return, Leave, Goto, Local, shared, history
<1> QED
  BY <1>t, <1>f DEF Base, CheckBlocked, shared

\* ScheduledRefill preserves Base.
LEMMA BaseScheduledRefill ==
    ASSUME Base, NEW r \in Refillers, ScheduledRefill(r)
    PROVE  Base'
<1> r \in Procs
  BY DEF Procs
<1>t. TypeOK'
  BY DEF Base, TypeOK, ScheduledRefill, Goto, Local, shared, history, Labels
<1>f. ASSUME NEW q \in Procs PROVE FrameInv(q)'
  BY <1>f DEF Base, TypeOK, FrameInv, ScheduledRefill, Goto, Local, shared, history
<1> QED
  BY <1>t, <1>f DEF Base, ScheduledRefill, shared

\* LoadConfig preserves Base.
LEMMA BaseLoadConfig ==
    ASSUME Base, NEW p \in Procs, LoadConfig(p)
    PROVE  Base'
<1> p \in Procs
  BY DEF Procs
<1>t. TypeOK'
  BY NoFrameFacts DEF Base, TypeOK, LoadConfig, Leave, Goto, Local, shared, history, Labels, Frames
<1>f. ASSUME NEW q \in Procs PROVE FrameInv(q)'
  BY <1>f, NoFrameFacts DEF Base, TypeOK, FrameInv, LoadConfig, Leave, Goto, Local, shared, history
<1> QED
  BY <1>t, <1>f DEF Base, LoadConfig, shared

\* RefillLoad preserves Base.
LEMMA BaseRefillLoad ==
    ASSUME Base, NEW p \in Procs, RefillLoad(p)
    PROVE  Base'
<1> p \in Procs
  BY DEF Procs
<1>i. frame[p].cfg \in Configs /\ Intervals(frame[p].cfg, lastRefillTime, frame[p].at) \in Nat
  BY IntervalsFacts DEF Base, TypeOK, FrameInv, RefillLoad
<1>g. pc' \in [Procs -> Labels] /\ frame' \in [Procs -> Frames]
  <2>1. CASE AfterRefill(p)
    BY <2>1, AfterRefillType DEF Base
  <2>2. CASE Goto(p, "refillCAS") /\ Local(p, "last", lastRefillTime)
    BY <2>2 DEF Goto, Local, Base, TypeOK, Labels, Frames
  <2> QED
    BY <2>1, <2>2 DEF RefillLoad
<1>t. TypeOK'
  BY <1>g DEF Base, TypeOK, RefillLoad, shared, history, Frames
<1>f. ASSUME NEW q \in Procs PROVE FrameInv(q)'
  BY <1>f, <1>i, NoFrameFacts DEF Base, TypeOK, FrameInv, RefillLoad, AfterRefill, Leave, Goto, Local, shared, history
<1> QED
  BY <1>t, <1>f DEF Base, RefillLoad, shared

\* RefillCAS preserves Base.
LEMMA BaseRefillCAS ==
    ASSUME Base, NEW p \in Procs, RefillCAS(p)
    PROVE  Base'
<1> p \in Procs
  BY DEF Procs
<1> DEFINE nl == NewLast(frame[p].cfg, frame[p].last, frame[p].at)
<1>i. /\ frame[p].cfg \in Configs
      /\ nl \in Nat /\ frame[p].last < nl /\ nl <= frame[p].at /\ frame[p].at <= now
      /\ lastRefillTime' = lastRefillTime \/ (frame[p].last = lastRefillTime /\ lastRefillTime' = nl)
  BY IntervalsFacts DEF Base, TypeOK, FrameInv, RefillCAS
<1>r. Intervals(frame[p].cfg, frame[p].last, frame[p].at) >= 1 /\ frame[p].cfg.RefillInterval > 0
  BY DEF Base, FrameInv, RefillCAS
<1>m. lastRefillTime' >= lastRefillTime /\ lastRefillTime' \in Nat
  BY <1>i DEF Base, TypeOK
<1>u. /\ \/ pc' = [pc EXCEPT ![p] = "addLoad"] /\ lastRefillTime' = nl
         \/ pc' = [pc EXCEPT ![p] = "refillLoad"]
      /\ UNCHANGED <<frame, now>>
  BY <1>i DEF RefillCAS, Goto
<1> HIDE DEF nl
<1>t. TypeOK'
  BY <1>i DEF Base, TypeOK, RefillCAS, Goto, Local, shared, history, Labels
<1>f. ASSUME NEW q \in Procs PROVE FrameInv(q)'
  <2>1. FrameInv(q)
    BY <1>f DEF Base
  <2>2. CASE q = p
    <3>1. pc'[q] = "addLoad" => NewLast(frame[q].cfg, frame[q].last, frame[q].at) = lastRefillTime'
      BY <2>2, <1>u DEF Base, TypeOK, nl
    <3> QED
      BY <2>1, <2>2, <1>u, <1>r, <3>1, <1>m DEF Base, TypeOK, FrameInv
  <2>3. CASE q # p
    <3>1. pc'[q] = pc[q]
      BY <2>3, <1>u, <1>f DEF Base, TypeOK
    <3>2. pc[q] \in {"addLoad", "addCAS"} => NewLast(frame[q].cfg, frame[q].last, frame[q].at) \in Nat
      BY <2>1, <1>f, IntervalsFacts DEF FrameInv, Base, TypeOK
    <3> QED
      BY <2>1, <1>u, <1>m, <3>1, <3>2 DEF Base, TypeOK, FrameInv
  <2> QED
    BY <2>2, <2>3
<1> QED
  BY <1>t, <1>f, <1>i DEF Base, TypeOK, RefillCAS, shared

\* AddLoad preserves Base.
LEMMA BaseAddLoad ==
    ASSUME Base, NEW p \in Procs, AddLoad(p)
    PROVE  Base'
<1> p \in Procs
  BY DEF Procs
<1>t. TypeOK'
  BY DEF Base, TypeOK, AddLoad, Goto, Local, shared, history, Labels
<1>f. ASSUME NEW q \in Procs PROVE FrameInv(q)'
  BY <1>f DEF Base, TypeOK, FrameInv, AddLoad, Goto, Local, shared, history
<1> QED
  BY <1>t, <1>f DEF Base, AddLoad, shared

\* AddCAS preserves Base.
LEMMA BaseAddCAS ==
    ASSUME Base, NEW p \in Procs, AddCAS(p)
    PROVE  Base'
<1> DEFINE k == Intervals(frame[p].cfg, frame[p].last, frame[p].at)
           added == Refilled(frame[p].cfg, tokens, k)
<1>i. frame[p].cfg \in Configs /\ k \in Nat /\ tokens \in Nat /\ frame[p].cur \in Nat
  BY IntervalsFacts DEF Base, TypeOK, FrameInv, AddCAS
<1>1. CASE tokens = frame[p].cur
  <2>1. /\ tokens' = added
        /\ credits' = credits + k
        /\ credited' = credited \cup Claim(p)
        /\ spilled' = spilled + (tokens + k * frame[p].cfg.RefillRate - added)
        /\ AfterRefill(p)
        /\ UNCHANGED <<config, lastRefillTime, blocked, lastAccessTime, windowPtr,
                       now, ret, granted>>
    BY <1>1, <1>i DEF AddCAS
  <2>2. /\ added \in Nat /\ k * frame[p].cfg.RefillRate \in Nat
        /\ tokens + k * frame[p].cfg.RefillRate - added \in Nat
    <3>1. /\ k * frame[p].cfg.RefillRate \in Nat /\ added \in Nat
          /\ added <= tokens + k * frame[p].cfg.RefillRate
      BY <1>i, RefilledFacts
    <3> HIDE DEF k, added
    <3> DEFINE kr == k * frame[p].cfg.RefillRate
    <3> HIDE DEF kr
    <3> QED
      BY <1>i, <3>1 DEF kr
  <2> HIDE DEF k, added
  <2>3. Claim(p) \subseteq Nat
    BY <1>i, IntervalsFacts DEF Base, TypeOK, FrameInv, AddCAS, Claim
  <2>4. tokens' \in Nat /\ credits' \in Nat /\ spilled' \in Nat /\ credited' \in SUBSET Nat
    <3>1. tokens' \in Nat
      BY <2>1, <2>2
    <3>2. credits' \in Nat
      BY <1>i, <2>1 DEF Base, TypeOK
    <3>3. spilled' \in Nat
      <4> DEFINE lost == tokens + k * frame[p].cfg.RefillRate - added
      <4>1. lost \in Nat /\ spilled' = spilled + lost
        BY <2>1, <2>2
      <4> HIDE DEF lost
      <4> QED
        BY <4>1 DEF Base, TypeOK
    <3>4. credited' \in SUBSET Nat
      BY <2>1, <2>3 DEF Base, TypeOK
    <3> QED
      BY <3>1, <3>2, <3>3, <3>4
  <2>5. pc' \in [Procs -> Labels] /\ frame' \in [Procs -> Frames]
    BY <2>1, AfterRefillType DEF Base
  <2>6. TypeOK'
    BY <2>1, <2>4, <2>5 DEF Base, TypeOK, Frames
  <2>7. ASSUME NEW q \in Procs PROVE FrameInv(q)'
    BY <2>1, <2>7, NoFrameFacts DEF Base, TypeOK, FrameInv, AfterRefill, Leave, Goto
  <2> QED
    BY <2>1, <2>6, <2>7 DEF Base
<1>2. CASE tokens # frame[p].cur
  <2>1. /\ Goto(p, "addLoad") /\ pc[p] = "addCAS"
        /\ UNCHANGED <<shared, now, frame, ret, history>>
    BY <1>2, <1>i DEF AddCAS, shared, history
  <2>2. TypeOK'
    BY <2>1 DEF Base, TypeOK, Goto, Labels, shared, history
  <2>3. ASSUME NEW q \in Procs PROVE FrameInv(q)'
    BY <2>1, <2>3 DEF Base, TypeOK, FrameInv, Goto, shared
  <2> QED
    BY <2>1, <2>2, <2>3 DEF Base, shared
<1> QED
  BY <1>1, <1>2

\* Touch preserves Base.
LEMMA BaseTouch ==
    ASSUME Base, NEW c \in Callers, Touch(c)
    PROVE  Base'
<1> c \in Procs
  BY DEF Procs
<1>t. TypeOK'
  BY DEF Base, TypeOK, Touch, Goto, Local, shared, history, Labels
<1>f. ASSUME NEW q \in Procs PROVE FrameInv(q)'
  BY <1>f DEF Base, TypeOK, FrameInv, Touch, Goto, Local, shared, history
<1> QED
  BY <1>t, <1>f DEF Base, Touch, shared

\* TakeLoad preserves Base.
LEMMA BaseTakeLoad ==
    ASSUME Base, NEW c \in Callers, TakeLoad(c)
    PROVE  Base'
<1> c \in Procs
  BY DEF Procs
<1>i. frame[c].cfg \in Configs /\ RetryAfter(frame[c].cfg, tokens) \in Int
  BY RetryAfterType DEF Base, TypeOK, FrameInv
<1>j. /\ pc' \in [Procs -> Labels]
      /\ frame' \in [Procs -> Frames]
      /\ ret' \in [Callers -> [allowed : BOOLEAN, retryAfter : Int]]
  <2>1. CASE ~Covers(frame[c].cfg, tokens)
    <3>1. /\ Leave(c) /\ TypeOK
          /\ ret' = [ret EXCEPT ![c] = [allowed |-> FALSE,
                                         retryAfter |-> RetryAfter(frame[c].cfg, tokens)]]
      BY <1>i, <2>1 DEF Base, TakeLoad, Return
    <3>2. ret' \in [Callers -> [allowed : BOOLEAN, retryAfter : Int]]
      BY <1>i, <3>1 DEF TypeOK
    <3> QED
      BY <3>1, <3>2, LeaveType
  <2>2. CASE Covers(frame[c].cfg, tokens)
    <3>1. /\ pc' = [pc EXCEPT ![c] = "takeCAS"]
          /\ frame' = [frame EXCEPT ![c]["cur"] = tokens]
          /\ ret' = ret
      BY <1>i, <2>2 DEF TakeLoad, Goto, Local
    <3> QED
      BY <3>1 DEF Base, TypeOK, Labels, Frames
  <2> QED
    BY <2>1, <2>2
<1>t. TypeOK'
  BY <1>j DEF Base, TypeOK, TakeLoad, shared, history, Frames
<1>f. ASSUME NEW q \in Procs PROVE FrameInv(q)'
  BY <1>f, <1>i, NoFrameFacts, ConfigFacts DEF Base, TypeOK, FrameInv, TakeLoad, Covers, Return, Leave, Goto, Local, shared, history
<1> QED
  BY <1>t, <1>f DEF Base, TakeLoad, shared

\* TakeCAS preserves Base.
LEMMA BaseTakeCAS ==
    ASSUME Base, NEW c \in Callers, TakeCAS(c)
    PROVE  Base'
<1> c \in Procs
  BY DEF Procs
<1>i. tokens' \in Nat
  <2>1. frame[c].cfg \in Configs
    BY DEF Base, TypeOK
  <2>2. Cost(frame[c].cfg) \in Nat
    BY <2>1, ConfigFacts
  <2> QED
    BY <2>2 DEF Base, TypeOK, FrameInv, TakeCAS
<1>t. TypeOK'
  BY <1>i DEF Base, TypeOK, TakeCAS, Goto, Local, shared, history, Labels
<1>f. ASSUME NEW q \in Procs PROVE FrameInv(q)'
  BY <1>f DEF Base, TypeOK, FrameInv, TakeCAS, Goto, Local, shared, history
<1> QED
  BY <1>t, <1>f DEF Base, TakeCAS, shared

\* WindowAdmit preserves Base.
LEMMA BaseWindowAdmit ==
    ASSUME Base, NEW c \in Callers, WindowAdmit(c)
    PROVE  Base'
<1> c \in Procs
  BY DEF Procs
<1>i. frame[c].cfg \in Configs
  BY DEF Base, TypeOK
<1>t. TypeOK'
  BY <1>i, ConfigFacts, NoFrameFacts DEF Base, TypeOK, WindowAdmit, Return, Leave, Goto, Local, shared, history, Labels, Frames
<1>f. ASSUME NEW q \in Procs PROVE FrameInv(q)'
  BY <1>f, NoFrameFacts DEF Base, TypeOK, FrameInv, WindowAdmit, Return, Leave, Goto, Local, shared, history
<1> QED
  BY <1>t, <1>f DEF Base, WindowAdmit, shared

\* WindowReject preserves Base.
LEMMA BaseWindowReject ==
    ASSUME Base, NEW c \in Callers, WindowReject(c)
    PROVE  Base'
<1> c \in Procs
  BY DEF Procs
<1>t. TypeOK'
  BY DEF Base, TypeOK, WindowReject, Goto, Local, shared, history, Labels
<1>f. ASSUME NEW q \in Procs PROVE FrameInv(q)'
  BY <1>f DEF Base, TypeOK, FrameInv, WindowReject, Goto, Local, shared, history
<1> QED
  BY <1>t, <1>f DEF Base, WindowReject, shared

\* Refund preserves Base.
LEMMA BaseRefund ==
    ASSUME Base, NEW c \in Callers, Refund(c)
    PROVE  Base'
<1> c \in Procs
  BY DEF Procs
<1>i. frame[c].cfg \in Configs
  BY DEF Base, TypeOK
<1>t. TypeOK'
  BY <1>i, ConfigFacts, NoFrameFacts DEF Base, TypeOK, Refund, Return, Leave, Goto, Local, shared, history, Labels, Frames
<1>f. ASSUME NEW q \in Procs PROVE FrameInv(q)'
  BY <1>f, NoFrameFacts DEF Base, TypeOK, FrameInv, Refund, Return, Leave, Goto, Local, shared, history
<1> QED
  BY <1>t, <1>f DEF Base, Refund, shared

\* Block, Unblock, the clock and stuttering preserve Base.
LEMMA BaseOther ==
    ASSUME Base, Block \/ Unblock \/ Tick \/ UNCHANGED vars
    PROVE  Base'
<1>1. CASE Block \/ Unblock
  BY <1>1 DEF Base, TypeOK, FrameInv, Block, Unblock, history
<1>2. CASE Tick
  <2>1. TypeOK' /\ now' >= now
    BY <1>2 DEF Base, TypeOK, Tick, shared, history
  <2>2. ASSUME NEW q \in Procs PROVE FrameInv(q)'
    BY <1>2, <2>1, <2>2 DEF Base, TypeOK, FrameInv, Tick, shared
  <2> QED
    BY <1>2, <2>1, <2>2 DEF Base, TypeOK, Tick, shared
<1>3. CASE UNCHANGED vars
  BY <1>3 DEF Base, TypeOK, FrameInv, vars, shared, history
<1> QED
  BY <1>1, <1>2, <1>3

\* Every step of the bucket preserves Base.
LEMMA BaseStep == Base /\ [Next]_vars => Base'
<1> SUFFICES ASSUME Base, [Next]_vars PROVE Base'
  OBVIOUS
<1>0. Callers \subseteq Procs /\ Refillers \subseteq Procs
  BY DEF Procs
<1>1. ASSUME NEW p \in Procs, Refill(p) PROVE Base'
  BY <1>1, BaseRefillLoad, BaseRefillCAS, BaseAddLoad, BaseAddCAS DEF Refill
<1>2. ASSUME NEW c \in Callers, Allow(c) PROVE Base'
  BY <1>0, <1>1, <1>2, BaseCheckBlocked, BaseLoadConfig, BaseTouch, BaseTakeLoad,
     BaseTakeCAS, BaseWindowAdmit, BaseWindowReject, BaseRefund DEF Allow
<1> QED
  BY <1>0, <1>1, <1>2, BaseCall, BaseScheduledRefill, BaseLoadConfig, BaseOther DEF Next

\* Every value the atomics, the locals and the results of bucket.go take is of
\* its type; in particular no interleaving of the CAS loops makes the balance
\* negative.
THEOREM TypeCorrect == Spec => []TypeOK
<1>1. Base => TypeOK
  BY DEF Base
<1> QED
  BY <1>1, BaseInit, BaseStep, PTL DEF Spec
-----------------------------------------------------------------------------
(* A step of the bucket as the accounts see it: who holds tokens, who has  *)
(* claimed intervals, and what happened to the balance.                    *)

\* The goroutines of S claim what they claimed before.
SameClaims(S) == \A p \in S : Claim(p)' = Claim(p)

\* The callers of S have the configuration they had before.
SameCosts(S) == \A c \in S : frame'[c].cfg = frame[c].cfg

\* Nothing that is accounted for changes; time may pass.
Bystander ==
    /\ UNCHANGED <<tokens, lastRefillTime, granted, credits, credited, spilled>>
    /\ Held' = Held /\ SameCosts(Held)
    /\ Claimants' = Claimants /\ SameClaims(Claimants)
    /\ now' = now \/ now' = now + 1

\* p moves lastRefillTime forward and owes the instants it skipped.
Claims(p) ==
    /\ p \notin Claimants /\ Claimants' = Claimants \cup {p}
    /\ SameClaims(Claimants)
    /\ Claim(p)' = lastRefillTime + 1 .. lastRefillTime'
    /\ lastRefillTime' > lastRefillTime
    /\ UNCHANGED <<tokens, granted, credits, credited, spilled, now>>
    /\ Held' = Held /\ SameCosts(Held)

\* p adds the tokens of the k intervals it had claimed, by its configuration.
Adds(p, cfg) ==
    /\ p \in Claimants /\ Claimants' = Claimants \ {p}
    /\ SameClaims(Claimants \ {p})
    /\ credited' = credited \cup Claim(p)
    /\ cfg.RefillInterval > 0
    /\ \E k, a \in Nat :
        /\ k >= 1
        /\ Claim(p) = a + 1 .. a + k * cfg.RefillInterval
        /\ credits' = credits + k
        /\ tokens' = Refilled(cfg, tokens, k)
        /\ spilled' = spilled + (tokens + k * cfg.RefillRate - tokens')
    /\ UNCHANGED <<lastRefillTime, granted, now>>
    /\ Held' = Held /\ SameCosts(Held)

\* Refill and clock stand still.
Steady == UNCHANGED <<lastRefillTime, credits, credited, spilled, now>>
             /\ Claimants' = Claimants /\ SameClaims(Claimants)

\* c sets the cost of its request aside.
Takes(c, cfg) ==
    /\ c \notin Held /\ Held' = Held \cup {c} /\ SameCosts(Held')
    /\ tokens >= Cost(cfg) /\ tokens' = tokens - Cost(cfg)
    /\ granted' = granted /\ Steady

\* c's request is allowed.
Grants(c, cfg) ==
    /\ c \in Held /\ Held' = Held \ {c} /\ SameCosts(Held')
    /\ granted' = granted + Cost(cfg)
    /\ tokens' = tokens /\ Steady

\* c returns what it had set aside.
Refunds(c, cfg) ==
    /\ pc[c] = "refund"
    /\ c \in Held /\ Held' = Held \ {c} /\ SameCosts(Held')
    /\ tokens' = tokens + Cost(cfg)
    /\ granted' = granted /\ Steady

\* Call leaves the accounts alone.
LEMMA EffectCall ==
    ASSUME Base, NEW c \in Callers, Call(c)
    PROVE  Bystander
<1> c \in Procs
  BY DEF Procs
<1>1. Held' = Held /\ Claimants' = Claimants
  BY DEF Base, TypeOK, Call, Goto, Local, Held, Claimants, Procs
<1>2. SameClaims(Claimants)
  BY DEF Base, TypeOK, SameClaims, Claim, Claimants, Call, Goto, Local
<1>3. SameCosts(Held)
  BY DEF Base, TypeOK, SameCosts, Held, Procs, Call, Goto, Local
<1> QED
  BY <1>1, <1>2, <1>3 DEF Bystander, Call, shared, history

\* CheckBlocked leaves the accounts alone.
LEMMA EffectCheckBlocked ==
    ASSUME Base, NEW c \in Callers, CheckBlocked(c)
    PROVE  Bystander
<1> c \in Procs
  BY DEF Procs
<1>1. Held' = Held /\ Claimants' = Claimants
  BY DEF Base, TypeOK, CheckBlocked, Goto, Return, Leave, Held, Claimants, Procs
<1>2. SameClaims(Claimants)
  BY DEF Base, TypeOK, SameClaims, Claim, Claimants, CheckBlocked, Goto, Return, Leave
<1>3. SameCosts(Held)
  BY DEF Base, TypeOK, SameCosts, Held, Procs, CheckBlocked, Goto, Return, Leave
<1> QED
  BY <1>1, <1>2, <1>3 DEF Bystander, CheckBlocked, shared, history

\* ScheduledRefill leaves the accounts alone.
LEMMA EffectScheduledRefill ==
    ASSUME Base, NEW r \in Refillers, ScheduledRefill(r)
    PROVE  Bystander
<1> r \in Procs
  BY DEF Procs
<1>1. Held' = Held /\ Claimants' = Claimants
  BY DEF Base, TypeOK, ScheduledRefill, Goto, Local, Held, Claimants, Procs
<1>2. SameClaims(Claimants)
  BY DEF Base, TypeOK, SameClaims, Claim, Claimants, ScheduledRefill, Goto, Local
<1>3. SameCosts(Held)
  BY DEF Base, TypeOK, SameCosts, Held, Procs, ScheduledRefill, Goto, Local
<1> QED
  BY <1>1, <1>2, <1>3 DEF Bystander, ScheduledRefill, shared, history

\* LoadConfig leaves the accounts alone.
LEMMA EffectLoadConfig ==
    ASSUME Base, NEW p \in Procs, LoadConfig(p)
    PROVE  Bystander
<1> p \in Procs
  BY DEF Procs
<1>1. Held' = Held /\ Claimants' = Claimants
  BY DEF Base, TypeOK, LoadConfig, Goto, Local, Leave, Held, Claimants, Procs
<1>2. SameClaims(Claimants)
  BY DEF Base, TypeOK, SameClaims, Claim, Claimants, LoadConfig, Goto, Local, Leave
<1>3. SameCosts(Held)
  BY DEF Base, TypeOK, SameCosts, Held, Procs, LoadConfig, Goto, Local, Leave
<1> QED
  BY <1>1, <1>2, <1>3 DEF Bystander, LoadConfig, shared, history

\* RefillLoad leaves the accounts alone.
LEMMA EffectRefillLoad ==
    ASSUME Base, NEW p \in Procs, RefillLoad(p)
    PROVE  Bystander
<1> p \in Procs
  BY DEF Procs
<1>1. Held' = Held /\ Claimants' = Claimants
  BY DEF Base, TypeOK, RefillLoad, Goto, Local, Leave, AfterRefill, Held, Claimants, Procs
<1>2. SameClaims(Claimants)
  BY DEF Base, TypeOK, SameClaims, Claim, Claimants, RefillLoad, Goto, Local, Leave, AfterRefill
<1>3. SameCosts(Held)
  BY DEF Base, TypeOK, SameCosts, Held, Procs, RefillLoad, Goto, Local, Leave, AfterRefill
<1> QED
  BY <1>1, <1>2, <1>3 DEF Bystander, RefillLoad, shared, history

\* AddLoad leaves the accounts alone.
LEMMA EffectAddLoad ==
    ASSUME Base, NEW p \in Procs, AddLoad(p)
    PROVE  Bystander
<1> p \in Procs
  BY DEF Procs
<1>1. Held' = Held /\ Claimants' = Claimants
  BY DEF Base, TypeOK, AddLoad, Goto, Local, Held, Claimants, Procs
<1>2. SameClaims(Claimants)
  BY DEF Base, TypeOK, SameClaims, Claim, Claimants, AddLoad, Goto, Local
<1>3. SameCosts(Held)
  BY DEF Base, TypeOK, SameCosts, Held, Procs, AddLoad, Goto, Local
<1> QED
  BY <1>1, <1>2, <1>3 DEF Bystander, AddLoad, shared, history

\* Touch leaves the accounts alone.
LEMMA EffectTouch ==
    ASSUME Base, NEW c \in Callers, Touch(c)
    PROVE  Bystander
<1> c \in Procs
  BY DEF Procs
<1>1. Held' = Held /\ Claimants' = Claimants
  BY DEF Base, TypeOK, Touch, Goto, Held, Claimants, Procs
<1>2. SameClaims(Claimants)
  BY DEF Base, TypeOK, SameClaims, Claim, Claimants, Touch, Goto
<1>3. SameCosts(Held)
  BY DEF Base, TypeOK, SameCosts, Held, Procs, Touch, Goto
<1> QED
  BY <1>1, <1>2, <1>3 DEF Bystander, Touch, shared, history

\* TakeLoad leaves the accounts alone.
LEMMA EffectTakeLoad ==
    ASSUME Base, NEW c \in Callers, TakeLoad(c)
    PROVE  Bystander
<1> c \in Procs
  BY DEF Procs
<1>1. Held' = Held /\ Claimants' = Claimants
  BY DEF Base, TypeOK, TakeLoad, Goto, Local, Return, Leave, Held, Claimants, Procs
<1>2. SameClaims(Claimants)
  BY DEF Base, TypeOK, SameClaims, Claim, Claimants, TakeLoad, Goto, Local, Return, Leave
<1>3. SameCosts(Held)
  BY DEF Base, TypeOK, SameCosts, Held, Procs, TakeLoad, Goto, Local, Return, Leave
<1> QED
  BY <1>1, <1>2, <1>3 DEF Bystander, TakeLoad, shared, history

\* WindowReject leaves the accounts alone.
LEMMA EffectWindowReject ==
    ASSUME Base, NEW c \in Callers, WindowReject(c)
    PROVE  Bystander
<1> c \in Procs
  BY DEF Procs
<1>1. Held' = Held /\ Claimants' = Claimants
  BY DEF Base, TypeOK, WindowReject, Goto, Held, Claimants, Procs
<1>2. SameClaims(Claimants)
  BY DEF Base, TypeOK, SameClaims, Claim, Claimants, WindowReject, Goto
<1>3. SameCosts(Held)
  BY DEF Base, TypeOK, SameCosts, Held, Procs, WindowReject, Goto
<1> QED
  BY <1>1, <1>2, <1>3 DEF Bystander, WindowReject, shared, history

\* Block, Unblock, the clock and stuttering leave the accounts alone.
LEMMA EffectOther ==
    ASSUME Base, Block \/ Unblock \/ Tick \/ UNCHANGED vars
    PROVE  Bystander
<1>1. /\ UNCHANGED <<tokens, lastRefillTime, granted, credits, credited, spilled, pc, frame>>
      /\ now' = now \/ now' = now + 1
  BY DEF Block, Unblock, Tick, vars, shared, history
<1> QED
  BY <1>1 DEF Bystander, Held, Claimants, SameClaims, SameCosts, Claim

\* A successful CAS on lastRefillTime claims the instants it skips; a failed one
\* changes nothing.
LEMMA EffectRefillCAS ==
    ASSUME Base, NEW p \in Procs, RefillCAS(p)
    PROVE  Bystander \/ Claims(p)
<1>1. Held' = Held /\ SameCosts(Held)
  BY DEF Base, TypeOK, RefillCAS, Goto, Held, Procs, SameCosts
<1>2. ASSUME NEW q \in Procs PROVE Claim(q)' = Claim(q)
  BY DEF RefillCAS, Claim
<1>3. CASE lastRefillTime = frame[p].last
  <2> DEFINE nl == NewLast(frame[p].cfg, frame[p].last, frame[p].at)
  <2>1. /\ lastRefillTime' = nl /\ Goto(p, "addLoad") /\ pc[p] = "refillCAS"
        /\ UNCHANGED <<tokens, granted, credits, credited, spilled, now>>
    BY <1>3 DEF Base, FrameInv, RefillCAS, history
  <2>2. frame[p].last < nl
    BY IntervalsFacts DEF Base, TypeOK, FrameInv, RefillCAS
  <2>3. Claim(p)' = frame[p].last + 1 .. nl
    BY <1>2 DEF Claim
  <2> HIDE DEF nl
  <2>4. p \notin Claimants /\ Claimants' = Claimants \cup {p}
    BY <2>1 DEF Base, TypeOK, Goto, Claimants
  <2> QED
    BY <1>1, <1>2, <1>3, <2>1, <2>2, <2>3, <2>4 DEF Claims, SameClaims, Claimants
<1>4. CASE lastRefillTime # frame[p].last
  <2>1. Claimants' = Claimants
    BY <1>4 DEF Base, TypeOK, RefillCAS, Goto, Claimants
  <2> QED
    BY <1>1, <1>2, <1>4, <2>1 DEF RefillCAS, Bystander, SameClaims, Claimants, history
<1> QED
  BY <1>3, <1>4

\* A successful CAS of lazyRefill on tokens adds the claim; a failed one changes
\* nothing.
LEMMA EffectAddCAS ==
    ASSUME Base, NEW p \in Procs, AddCAS(p)
    PROVE  Bystander \/ Adds(p, frame[p].cfg)
<1>1. Held' = Held /\ SameCosts(Held)
  BY DEF Base, TypeOK, AddCAS, AfterRefill, Leave, Goto, Held, Procs, SameCosts
<1>2. ASSUME NEW q \in Procs, q # p PROVE Claim(q)' = Claim(q)
  BY <1>2 DEF Base, TypeOK, AddCAS, AfterRefill, Leave, Claim
<1>3. CASE tokens = frame[p].cur
  <2> DEFINE k == Intervals(frame[p].cfg, frame[p].last, frame[p].at)
  <2>0. frame[p].cfg \in Configs
    BY DEF Base, TypeOK
  <2>1. /\ tokens' = Refilled(frame[p].cfg, tokens, k)
        /\ credits' = credits + k
        /\ credited' = credited \cup Claim(p)
        /\ spilled' = spilled + (tokens + k * frame[p].cfg.RefillRate - tokens')
        /\ AfterRefill(p) /\ pc[p] = "addCAS"
        /\ UNCHANGED <<lastRefillTime, granted, now>>
    BY <1>3, <2>0 DEF AddCAS
  <2>2. /\ k \in Nat /\ k >= 1 /\ frame[p].cfg.RefillInterval > 0 /\ frame[p].last \in Nat
        /\ NewLast(frame[p].cfg, frame[p].last, frame[p].at) = frame[p].last + k * frame[p].cfg.RefillInterval
    BY <2>0, <2>1, IntervalsFacts DEF Base, TypeOK, FrameInv
  <2>3. Claim(p) = frame[p].last + 1 .. frame[p].last + k * frame[p].cfg.RefillInterval
    BY <2>2 DEF Claim
  <2> HIDE DEF k
  <2>4. p \in Claimants /\ Claimants' = Claimants \ {p}
    BY <2>1 DEF Base, TypeOK, AfterRefill, Leave, Goto, Claimants
  <2>5. SameClaims(Claimants \ {p})
    BY <1>2 DEF SameClaims, Claimants
  <2> QED
    BY <1>1, <2>1, <2>2, <2>3, <2>4, <2>5 DEF Adds
<1>4. CASE tokens # frame[p].cur
  <2>1. /\ Goto(p, "addLoad") /\ pc[p] = "addCAS"
        /\ UNCHANGED <<tokens, lastRefillTime, granted, credits, credited, spilled, now, frame>>
    BY <1>4 DEF AddCAS
  <2>2. Claimants' = Claimants
    BY <2>1 DEF Base, TypeOK, Goto, Claimants
  <2> QED
    BY <1>1, <2>1, <2>2 DEF Bystander, SameClaims, Claim
<1> QED
  BY <1>3, <1>4

\* A successful CAS of Allow on tokens takes one request's cost; a failed one
\* changes nothing.
LEMMA EffectTakeCAS ==
    ASSUME Base, NEW c \in Callers, TakeCAS(c)
    PROVE  Bystander \/ Takes(c, frame[c].cfg)
<1> c \in Procs
  BY DEF Procs
<1>1. Claimants' = Claimants
  BY DEF Base, TypeOK, TakeCAS, Goto, Claimants
<1>2. SameClaims(Claimants)
  BY DEF Base, TypeOK, TakeCAS, Local, SameClaims, Claim, Claimants
<1>3. CASE tokens = frame[c].cur
  <2>1. c \notin Held /\ Held' = Held \cup {c} /\ SameCosts(Held')
    BY <1>3 DEF Base, TypeOK, TakeCAS, Goto, Local, Held, Procs, SameCosts
  <2>2. tokens >= Cost(frame[c].cfg) /\ tokens' = tokens - Cost(frame[c].cfg)
    BY <1>3 DEF Base, FrameInv, TakeCAS
  <2> QED
    BY <1>1, <1>2, <2>1, <2>2 DEF Takes, Steady, TakeCAS, history
<1>4. CASE tokens # frame[c].cur
  <2>1. Held' = Held /\ SameCosts(Held)
    BY <1>4 DEF Base, TypeOK, TakeCAS, Goto, Local, Held, Procs, SameCosts
  <2> QED
    BY <1>1, <1>2, <1>4, <2>1 DEF Bystander, TakeCAS, history
<1> QED
  BY <1>3, <1>4

\* A request the window lets through is granted its tokens.
LEMMA EffectWindowAdmit ==
    ASSUME Base, NEW c \in Callers, WindowAdmit(c)
    PROVE  Grants(c, frame[c].cfg)
<1> c \in Procs
  BY DEF Procs
<1>1. Claimants' = Claimants
  BY DEF Base, TypeOK, WindowAdmit, Return, Leave, Goto, Claimants
<1>2. SameClaims(Claimants)
  BY DEF Base, TypeOK, WindowAdmit, Return, Leave, SameClaims, Claim, Claimants
<1>3. c \in Held /\ Held' = Held \ {c} /\ SameCosts(Held')
  BY DEF Base, TypeOK, WindowAdmit, Return, Leave, Goto, Held, Procs, SameCosts
<1> QED
  BY <1>1, <1>2, <1>3 DEF Grants, Steady, WindowAdmit, shared

\* A request the window refuses gives its tokens back.
LEMMA EffectRefund ==
    ASSUME Base, NEW c \in Callers, Refund(c)
    PROVE  Refunds(c, frame[c].cfg)
<1> c \in Procs
  BY DEF Procs
<1>1. Claimants' = Claimants
  BY DEF Base, TypeOK, Refund, Return, Leave, Goto, Claimants
<1>2. SameClaims(Claimants)
  BY DEF Base, TypeOK, Refund, Return, Leave, SameClaims, Claim, Claimants
<1>3. c \in Held /\ Held' = Held \ {c} /\ SameCosts(Held')
  BY DEF Base, TypeOK, Refund, Return, Leave, Goto, Held, Procs, SameCosts
<1> QED
  BY <1>1, <1>2, <1>3 DEF Refunds, Steady, Refund, history

\* Every step is one of these six effects.
LEMMA Effects ==
    ASSUME Base, [Next]_vars
    PROVE  \/ Bystander
           \/ \E p \in Procs : Claims(p) \/ Adds(p, frame[p].cfg)
           \/ \E c \in Callers : Takes(c, frame[c].cfg) \/ Grants(c, frame[c].cfg)
                                 \/ Refunds(c, frame[c].cfg)
<1>0. Callers \subseteq Procs /\ Refillers \subseteq Procs
  BY DEF Procs
<1> DEFINE Goal == \/ Bystander
                   \/ \E p \in Procs : Claims(p) \/ Adds(p, frame[p].cfg)
                   \/ \E c \in Callers : Takes(c, frame[c].cfg) \/ Grants(c, frame[c].cfg)
                                 \/ Refunds(c, frame[c].cfg)
<1>1. ASSUME NEW p \in Procs, Refill(p) PROVE Goal
  BY <1>1, EffectRefillLoad, EffectRefillCAS, EffectAddLoad, EffectAddCAS DEF Refill
<1>2. ASSUME NEW c \in Callers, Allow(c) PROVE Goal
  BY <1>0, <1>1, <1>2, EffectCheckBlocked, EffectLoadConfig, EffectTouch, EffectTakeLoad,
     EffectTakeCAS, EffectWindowAdmit, EffectWindowReject, EffectRefund DEF Allow
<1> QED
  BY <1>0, <1>1, <1>2, EffectCall, EffectScheduledRefill, EffectLoadConfig, EffectOther
     DEF Next
-----------------------------------------------------------------------------
(* The accounts balance.                                                   *)

\* CreditedOnce, instant by instant.
LEMMA CreditedOncePointwise ==
    ASSUME Base
    PROVE  CreditedOnce <=>
           /\ credited \subseteq 1 .. lastRefillTime
           /\ \A p \in Claimants : Claim(p) \subseteq 1 .. lastRefillTime
           /\ \A x \in 1 .. lastRefillTime :
                x \in credited \/ \E p \in Claimants : x \in Claim(p)
           /\ \A p \in Claimants : Claim(p) \cap credited = {}
           /\ \A p, q \in Claimants : p # q => Claim(p) \cap Claim(q) = {}
BY DEF CreditedOnce

\* Every step preserves CreditedOnce: a claim starts where lastRefillTime stood.
LEMMA CreditedOnceStep ==
    ASSUME Base, Base', CreditedOnce, [Next]_vars
    PROVE  CreditedOnce'
<1> DEFINE L == lastRefillTime
<1>0. L \in Nat /\ L' \in Nat
  BY DEF Base, TypeOK
<1>1. /\ credited \subseteq 1 .. L
      /\ \A p \in Claimants : Claim(p) \subseteq 1 .. L
      /\ \A x \in 1 .. L : x \in credited \/ \E p \in Claimants : x \in Claim(p)
      /\ \A p \in Claimants : Claim(p) \cap credited = {}
      /\ \A p, q \in Claimants : p # q => Claim(p) \cap Claim(q) = {}
  BY CreditedOncePointwise
<1> SUFFICES
      /\ credited' \subseteq 1 .. L'
      /\ \A p \in Claimants' : Claim(p)' \subseteq 1 .. L'
      /\ \A x \in 1 .. L' : x \in credited' \/ \E p \in Claimants' : x \in Claim(p)'
      /\ \A p \in Claimants' : Claim(p)' \cap credited' = {}
      /\ \A p, q \in Claimants' : p # q => Claim(p)' \cap Claim(q)' = {}
  BY DEF CreditedOnce
<1>2. CASE Claimants' = Claimants /\ SameClaims(Claimants) /\ credited' = credited /\ L' = L
  BY <1>1, <1>2 DEF SameClaims
<1>3. ASSUME NEW p \in Procs, Claims(p)
      PROVE  /\ credited' \subseteq 1 .. L'
             /\ \A q \in Claimants' : Claim(q)' \subseteq 1 .. L'
             /\ \A x \in 1 .. L' : x \in credited' \/ \E q \in Claimants' : x \in Claim(q)'
             /\ \A q \in Claimants' : Claim(q)' \cap credited' = {}
             /\ \A q, r \in Claimants' : q # r => Claim(q)' \cap Claim(r)' = {}
  BY <1>0, <1>1, <1>3 DEF Claims, SameClaims
<1>4. ASSUME NEW p \in Procs, Adds(p, frame[p].cfg)
      PROVE  /\ credited' \subseteq 1 .. L'
             /\ \A q \in Claimants' : Claim(q)' \subseteq 1 .. L'
             /\ \A x \in 1 .. L' : x \in credited' \/ \E q \in Claimants' : x \in Claim(q)'
             /\ \A q \in Claimants' : Claim(q)' \cap credited' = {}
             /\ \A q, r \in Claimants' : q # r => Claim(q)' \cap Claim(r)' = {}
  <2>1. /\ p \in Claimants /\ Claimants' = Claimants \ {p}
        /\ \A q \in Claimants \ {p} : Claim(q)' = Claim(q)
        /\ credited' = credited \cup Claim(p) /\ L' = L
    BY <1>4 DEF Adds, SameClaims
  <2>2. credited' \subseteq 1 .. L' /\ \A q \in Claimants' : Claim(q)' \subseteq 1 .. L'
    <3>1. 1 .. L' = 1 .. L /\ Claim(p) \subseteq 1 .. L
      BY <1>1, <2>1
    <3>2. credited \cup Claim(p) \subseteq 1 .. L
      BY <1>1, <3>1
    <3>3. ASSUME NEW q \in Claimants' PROVE Claim(q)' \subseteq 1 .. L
      <4>1. q \in Claimants /\ Claim(q)' = Claim(q)
        BY <2>1, <3>3
      <4> QED
        BY <1>1, <4>1
    <3> QED
      BY <2>1, <3>1, <3>2, <3>3
  <2>3. ASSUME NEW x \in 1 .. L'
        PROVE  x \in credited' \/ \E q \in Claimants' : x \in Claim(q)'
    <3>1. x \in credited \/ \E q \in Claimants : x \in Claim(q)
      BY <1>1, <2>1, <2>3
    <3> QED
      BY <2>1, <3>1
  <2>4. \A q \in Claimants' : Claim(q)' \cap credited' = {}
    <3> SUFFICES ASSUME NEW q \in Claimants \ {p}
                 PROVE  Claim(q) \cap (credited \cup Claim(p)) = {}
      BY <2>1
    <3>1. Claim(q) \cap credited = {} /\ Claim(q) \cap Claim(p) = {}
      BY <1>1, <2>1
    <3> QED
      BY <3>1
  <2>5. \A q, r \in Claimants' : q # r => Claim(q)' \cap Claim(r)' = {}
    BY <1>1, <2>1
  <2> QED
    BY <2>2, <2>3, <2>4, <2>5
<1> QED
  BY <1>2, <1>3, <1>4, Effects DEF Bystander, Takes, Grants, Refunds, Steady

\* A step loads no other configuration than the one stored, or New's.
Loads ==
    /\ UNCHANGED <<config, windowPtr>>
    /\ \A q \in Procs : /\ frame'[q].cfg \in {frame[q].cfg, config, Cfg}
                        /\ pc'[q] = "refund" => pc[q] = "refund" \/ windowPtr

\* Every step of the bucket's goroutines is of that kind.
LEMMA LoadsStep ==
    ASSUME Base, [Next]_vars
    PROVE  Loads
<1> USE NoFrameFacts DEF Loads, Base, TypeOK
<1>0. Callers \subseteq Procs /\ Refillers \subseteq Procs
  BY DEF Procs
<1>1. ASSUME NEW c \in Callers, Call(c) PROVE Loads
  BY <1>0, <1>1 DEF Call, Goto, Local, shared
<1>2. ASSUME NEW c \in Callers, CheckBlocked(c) PROVE Loads
  BY <1>0, <1>2 DEF CheckBlocked, Return, Leave, Goto, shared
<1>3. ASSUME NEW p \in Refillers, ScheduledRefill(p) PROVE Loads
  BY <1>0, <1>3 DEF ScheduledRefill, Goto, Local, shared
<1>4. ASSUME NEW p \in Procs, LoadConfig(p) PROVE Loads
  BY <1>4 DEF LoadConfig, Leave, Goto, Local, shared
<1>5. ASSUME NEW p \in Procs, RefillLoad(p) PROVE Loads
  BY <1>5 DEF RefillLoad, AfterRefill, Leave, Goto, Local, shared
<1>6. ASSUME NEW p \in Procs, RefillCAS(p) PROVE Loads
  BY <1>6 DEF RefillCAS, Goto
<1>7. ASSUME NEW p \in Procs, AddLoad(p) PROVE Loads
  BY <1>7 DEF AddLoad, Goto, Local, shared
<1>8. ASSUME NEW p \in Procs, AddCAS(p) PROVE Loads
  BY <1>8 DEF AddCAS, AfterRefill, Leave, Goto
<1>9. ASSUME NEW c \in Callers, Touch(c) PROVE Loads
  BY <1>0, <1>9 DEF Touch, Goto
<1>10. ASSUME NEW c \in Callers, TakeLoad(c) PROVE Loads
  BY <1>0, <1>10 DEF TakeLoad, Return, Leave, Goto, Local, shared
<1>11. ASSUME NEW c \in Callers, TakeCAS(c) PROVE Loads
  BY <1>0, <1>11 DEF TakeCAS, Goto, Local
<1>12. ASSUME NEW c \in Callers, WindowAdmit(c) PROVE Loads
  BY <1>0, <1>12 DEF WindowAdmit, Return, Leave, Goto, shared
<1>13. ASSUME NEW c \in Callers, WindowReject(c) PROVE Loads
  BY <1>0, <1>13 DEF WindowReject, Goto, shared
<1>14. ASSUME NEW c \in Callers, Refund(c) PROVE Loads
  BY <1>0, <1>14 DEF Refund, Return, Leave, Goto
<1>15. CASE Block \/ Unblock \/ Tick \/ UNCHANGED vars
  BY <1>15 DEF Block, Unblock, Tick, vars, shared
<1> QED
  BY <1>0, <1>1, <1>2, <1>3, <1>4, <1>5, <1>6, <1>7, <1>8, <1>9, <1>10, <1>11, <1>12,
     <1>13, <1>14, <1>15 DEF Next, Allow, Refill

\* New stores its configuration, and without UpdateConfig it stays.
LEMMA FixedInit == Init => Fixed
BY NoFrameFacts DEF Init, Fixed

\* No step of the goroutines changes it.
LEMMA FixedStep == Base /\ Fixed /\ [Next]_vars => Fixed'
BY LoadsStep DEF Fixed, Loads

\* The effects of the steps with that configuration.
LEMMA FixedEffects ==
    ASSUME Base, Fixed, [Next]_vars
    PROVE  \/ Bystander
           \/ \E p \in Procs : Claims(p) \/ Adds(p, Cfg)
           \/ \E c \in Callers : Takes(c, Cfg) \/ Grants(c, Cfg)
                                 \/ (windowPtr /\ Refunds(c, Cfg))
<1>1. \A p \in Procs : frame[p].cfg = Cfg /\ (pc[p] = "refund" => windowPtr)
  BY DEF Fixed
<1>2. \A c \in Callers : Refunds(c, Cfg) => pc[c] = "refund"
  BY DEF Refunds
<1>3. Callers \subseteq Procs
  BY DEF Procs
<1>4. \/ Bystander
      \/ \E p \in Procs : Claims(p) \/ Adds(p, frame[p].cfg)
      \/ \E c \in Callers : Takes(c, frame[c].cfg) \/ Grants(c, frame[c].cfg)
                            \/ Refunds(c, frame[c].cfg)
  BY Effects
<1> QED
  BY <1>1, <1>2, <1>3, <1>4

\* The number of instants credited is the number of intervals credited times
\* their length; without refill nothing is ever credited.
Counted ==
    /\ IsFiniteSet(credited)
    /\ Cfg.RefillInterval > 0 => Cardinality(credited) = credits * Cfg.RefillInterval
    /\ Cfg.RefillInterval <= 0 => credits = 0

\* There are m instants after a and up to a + m.
LEMMA IntervalSize ==
    ASSUME NEW a \in Nat, NEW m \in Nat
    PROVE  IsFiniteSet(a + 1 .. a + m) /\ Cardinality(a + 1 .. a + m) = m
<1> DEFINE lo == a + 1
           hi == a + m
<1>1. lo \in Int /\ hi \in Int /\ (lo > hi => m = 0) /\ (~(lo > hi) => hi - lo + 1 = m)
  OBVIOUS
<1>2. SUFFICES IsFiniteSet(lo .. hi) /\ Cardinality(lo .. hi) = m
  OBVIOUS
<1> HIDE DEF lo, hi
<1>3. IsFiniteSet(lo .. hi) /\ Cardinality(lo .. hi) = IF lo > hi THEN 0 ELSE hi - lo + 1
  BY <1>1, FS_Interval
<1> QED
  BY <1>1, <1>3

\* Multiplication distributes over sums and differences.
LEMMA Distributes ==
    ASSUME NEW a \in Int, NEW b \in Int, NEW c \in Int
    PROVE  /\ (a + b) * c = a * c + b * c
           /\ c * (a + b) = c * a + c * b
           /\ c * (a - b) = c * a - c * b
OBVIOUS

\* Every step preserves Counted: claims are disjoint from what was credited.
LEMMA CountedStep ==
    ASSUME Base, Fixed, CreditedOnce, Counted, [Next]_vars
    PROVE  Counted'
<1>1. CASE credited' = credited /\ credits' = credits
  BY <1>1 DEF Counted
<1>2. ASSUME NEW p \in Procs, Adds(p, Cfg) PROVE Counted'
  <2> DEFINE I == Cfg.RefillInterval
             C == Claim(p)
  <2>1. PICK k \in Nat, a \in Nat : C = a + 1 .. a + k * I /\ credits' = credits + k
    BY <1>2 DEF Adds
  <2>2. I \in Nat /\ I > 0 /\ credits \in Nat
    BY <1>2, CfgFacts DEF Adds, Base, TypeOK
  <2>3. p \in Claimants /\ credited' = credited \cup C
    BY <1>2 DEF Adds
  <2>4. k * I \in Nat
    BY <2>2
  <2>5. IsFiniteSet(C) /\ Cardinality(C) = k * I
    BY <2>1, <2>4, IntervalSize
  <2>6. credited \cap C = {}
    BY <2>3 DEF CreditedOnce
  <2>7. IsFiniteSet(credited) /\ Cardinality(credited) = credits * I
    BY <2>2 DEF Counted
  <2> HIDE DEF I, C
  <2>8. /\ IsFiniteSet(credited')
        /\ Cardinality(credited') = Cardinality(credited) + Cardinality(C) - Cardinality({})
    BY <2>3, <2>5, <2>6, <2>7, FS_Union
  <2>9. Cardinality(credited') = credits * I + k * I
    <3>1. Cardinality({}) = 0
      BY FS_EmptySet
    <3>2. credits * I \in Nat
      BY <2>2
    <3> QED
      BY <2>4, <2>5, <2>7, <2>8, <3>1, <3>2
  <2>10. Cardinality(credited') = credits' * I
    BY <2>1, <2>2, <2>9, Distributes
  <2> QED
    BY <2>2, <2>8, <2>10 DEF Counted, I
<1> QED
  BY <1>1, <1>2, FixedEffects DEF Bystander, Claims, Takes, Grants, Refunds, Steady

\* The holders are finitely many callers.
LEMMA HeldFacts ==
    /\ IsFiniteSet(Held)
    /\ Cardinality(Held) \in Nat
    /\ Cardinality(Callers) \in Nat
    /\ Cardinality(Held) <= Cardinality(Callers)
BY ProcsAssumption, FS_Subset, FS_CardinalityType DEF Held

\* A call that takes tokens is one more holder.
LEMMA HeldGrows ==
    ASSUME NEW c, c \notin Held, Held' = Held \cup {c}
    PROVE  Cardinality(Held') = Cardinality(Held) + 1
BY HeldFacts, FS_AddElement

\* A call that is granted or refunds its tokens is one holder less.
LEMMA HeldShrinks ==
    ASSUME NEW c, c \in Held, Held' = Held \ {c}
    PROVE  Cardinality(Held') = Cardinality(Held) - 1
BY HeldFacts, FS_RemoveElement

\* Every step preserves the ledger.
LEMMA LedgerStep ==
    ASSUME Base, Base', Fixed, Ledger, [Next]_vars
    PROVE  Ledger'
<1> DEFINE h == Cardinality(Held)
           n == Cost(Cfg)
           R == Cfg.RefillRate
           M == Cfg.MaxTokens
<1>1. /\ h \in Nat /\ n \in Nat /\ R \in Nat /\ M \in Nat
      /\ granted \in Nat /\ tokens \in Nat /\ spilled \in Nat /\ credits \in Nat
      /\ granted' \in Nat /\ tokens' \in Nat /\ spilled' \in Nat /\ credits' \in Nat
  BY CfgFacts, HeldFacts DEF Base, TypeOK
<1>2. n * h \in Nat /\ R * credits \in Nat /\ n * 1 = n
  BY <1>1
<1>3. granted + tokens + n * h + spilled = M + R * credits
  BY DEF Ledger
<1> SUFFICES granted' + tokens' + n * h' + spilled' = M + R * credits'
  BY DEF Ledger
<1>4. CASE UNCHANGED <<granted, tokens, spilled, credits>> /\ Held' = Held
  BY <1>3, <1>4
<1>5. ASSUME NEW p \in Procs, Adds(p, Cfg)
      PROVE  granted' + tokens' + n * h' + spilled' = M + R * credits'
  <2>1. PICK k \in Nat : /\ credits' = credits + k
                         /\ spilled' = spilled + (tokens + k * R - tokens')
    BY <1>5 DEF Adds
  <2>2. granted' = granted /\ h' = h
    BY <1>5 DEF Adds
  <2> HIDE DEF h, n, R, M
  <2>3. R * credits' = R * credits + k * R /\ k * R \in Nat
    BY <1>1, <2>1, Distributes
  <2>4. n * h' = n * h
    BY <2>2
  <2> DEFINE inHand == n * h
             earned == R * credits
             fresh == k * R
             newTokens == tokens'
             newSpilled == spilled'
  <2>5. /\ inHand \in Nat /\ earned \in Nat /\ fresh \in Nat
        /\ granted \in Nat /\ tokens \in Nat /\ spilled \in Nat /\ M \in Nat
        /\ newTokens \in Nat /\ newSpilled \in Nat
        /\ granted + tokens + inHand + spilled = M + earned
        /\ newSpilled = spilled + (tokens + fresh - newTokens)
    BY <1>1, <1>2, <1>3, <2>1, <2>3
  <2>6. SUFFICES granted + newTokens + inHand + newSpilled = M + (earned + fresh)
    BY <2>2, <2>3, <2>4
  <2> HIDE DEF inHand, earned, fresh, newTokens, newSpilled
  <2> QED
    BY <2>5
<1>6. ASSUME NEW c \in Callers, Takes(c, Cfg)
      PROVE  granted' + tokens' + n * h' + spilled' = M + R * credits'
  <2>1. h' = h + 1
    BY <1>6, HeldGrows DEF Takes
  <2>2. tokens' = tokens - n /\ UNCHANGED <<granted, spilled, credits>>
    BY <1>6 DEF Takes, Steady
  <2> HIDE DEF h, n, R, M
  <2>3. n * h' = n * h + n
    BY <1>1, <1>2, <2>1, Distributes
  <2> QED
    BY <1>1, <1>2, <1>3, <2>2, <2>3
<1>7. ASSUME NEW c \in Callers, Grants(c, Cfg) \/ (windowPtr /\ Refunds(c, Cfg))
      PROVE  granted' + tokens' + n * h' + spilled' = M + R * credits'
  <2>1. h' = h - 1
    BY <1>7, HeldShrinks DEF Grants, Refunds
  <2>2. granted' + tokens' = granted + tokens + n /\ UNCHANGED <<spilled, credits>>
    BY <1>1, <1>7 DEF Grants, Refunds, Steady
  <2> HIDE DEF h, n, R, M
  <2>3. n * h' = n * h - n
    BY <1>1, <1>2, <2>1, Distributes
  <2> DEFINE inHand == n * h
             earned == R * credits
             newTokens == tokens'
             newGranted == granted'
  <2>4. /\ inHand \in Nat /\ earned \in Nat /\ n \in Nat /\ M \in Nat
        /\ granted \in Nat /\ tokens \in Nat /\ spilled \in Nat
        /\ newTokens \in Nat /\ newGranted \in Nat
        /\ granted + tokens + inHand + spilled = M + earned
        /\ newGranted + newTokens = granted + tokens + n
    BY <1>1, <1>2, <1>3, <2>2
  <2>5. SUFFICES newGranted + newTokens + (inHand - n) + spilled = M + earned
    BY <2>2, <2>3
  <2> HIDE DEF inHand, earned, newTokens, newGranted
  <2> QED
    BY <2>4
<1> QED
  BY <1>4, <1>5, <1>6, <1>7, FixedEffects DEF Bystander, Claims

\* Every step preserves the bound on the balance.
LEMMA BalanceStep ==
    ASSUME Base, Base', Fixed, Fixed', BalanceBound, [Next]_vars
    PROVE  BalanceBound'
<1> DEFINE h == Cardinality(Held)
           n == Cost(Cfg)
           M == Cfg.MaxTokens
           N == n * Cardinality(Callers)
<1>1. h \in Nat /\ n \in Nat /\ M \in Nat /\ tokens \in Nat /\ tokens' \in Nat
  BY CfgFacts, HeldFacts DEF Base, TypeOK
<1>2. n * h \in Nat /\ n * 1 = n /\ N \in Nat
  BY <1>1, HeldFacts
<1>3. n * h <= N
  <2>1. h <= Cardinality(Callers) /\ Cardinality(Callers) \in Nat
    BY HeldFacts
  <2> HIDE DEF h, n
  <2> QED
    BY <1>1, <2>1
<1>4. windowPtr' = windowPtr
  BY DEF Fixed
<1>5. IF windowPtr THEN tokens + n * h <= M + N ELSE tokens <= M
  BY DEF BalanceBound
<1> SUFFICES IF windowPtr THEN tokens' + n * h' <= M + N ELSE tokens' <= M
  BY <1>4 DEF BalanceBound
<1>6. CASE tokens' = tokens /\ Held' = Held
  BY <1>5, <1>6
<1>7. ASSUME NEW p \in Procs, Adds(p, Cfg)
      PROVE  IF windowPtr THEN tokens' + n * h' <= M + N ELSE tokens' <= M
  <2>1. tokens' <= M
    <3>1. PICK k \in Nat : tokens' = Refilled(Cfg, tokens, k)
      BY <1>7 DEF Adds
    <3>2. k * Cfg.RefillRate \in Nat
      BY CfgFacts
    <3> QED
      BY <1>1, <3>1, <3>2 DEF Refilled
  <2>2. n * h' = n * h
    BY <1>7 DEF Adds
  <2> DEFINE inHand == n * h
             newTokens == tokens'
  <2>3. /\ inHand \in Nat /\ N \in Nat /\ M \in Nat /\ newTokens \in Nat
        /\ inHand <= N /\ newTokens <= M
    BY <1>1, <1>2, <1>3, <2>1
  <2>4. SUFFICES newTokens + inHand <= M + N /\ newTokens <= M
    BY <2>2
  <2> HIDE DEF inHand, M, N, newTokens
  <2> QED
    BY <2>3
<1>8. ASSUME NEW c \in Callers, Takes(c, Cfg)
      PROVE  IF windowPtr THEN tokens' + n * h' <= M + N ELSE tokens' <= M
  <2>1. h' = h + 1
    BY <1>8, HeldGrows DEF Takes
  <2>2. tokens' = tokens - n
    BY <1>8 DEF Takes
  <2> HIDE DEF h, n, M, N
  <2>3. n * h' = n * h + n
    BY <1>1, <1>2, <2>1, Distributes
  <2> QED
    BY <1>1, <1>2, <1>5, <2>2, <2>3
<1>9. ASSUME NEW c \in Callers, Grants(c, Cfg) \/ (windowPtr /\ Refunds(c, Cfg))
      PROVE  IF windowPtr THEN tokens' + n * h' <= M + N ELSE tokens' <= M
  <2>1. h' = h - 1
    BY <1>9, HeldShrinks DEF Grants, Refunds
  <2>2. /\ tokens' = tokens \/ tokens' = tokens + n
        /\ ~windowPtr => tokens' = tokens
    BY <1>9 DEF Grants, Refunds
  <2> HIDE DEF h, n, M, N
  <2>3. n * h' = n * h - n
    BY <1>1, <1>2, <2>1, Distributes
  <2> QED
    BY <1>1, <1>2, <1>5, <2>2, <2>3
<1> QED
  BY <1>6, <1>7, <1>8, <1>9, FixedEffects DEF Bystander, Claims
-----------------------------------------------------------------------------
\* The inductive invariant.
IInv == Base /\ Fixed /\ CreditedOnce /\ Counted /\ Ledger /\ BalanceBound

\* A bucket fresh from New satisfies the inductive invariant.
LEMMA IInvInit == Init => IInv
<1> SUFFICES ASSUME Init PROVE IInv
  OBVIOUS
<1>1. Base /\ Fixed
  BY BaseInit, FixedInit
<1>2. Claimants = {} /\ Held = {}
  BY DEF Init, Claimants, Held, Procs
<1>3. Cardinality(Held) = 0 /\ IsFiniteSet({}) /\ Cardinality({}) = 0
  BY <1>2, FS_EmptySet
<1>4. CreditedOnce
  BY <1>2 DEF Init, CreditedOnce
<1>5. Counted
  BY <1>3, CfgFacts DEF Init, Counted
<1>6. Ledger
  BY <1>3, CfgFacts DEF Init, Ledger
<1>7. BalanceBound
  <2>1. Cost(Cfg) * Cardinality(Held) = 0 /\ Cost(Cfg) * Cardinality(Callers) \in Nat
    BY <1>3, CfgFacts, HeldFacts
  <2> QED
    BY <2>1, CfgFacts DEF Init, BalanceBound
<1> QED
  BY <1>1, <1>4, <1>5, <1>6, <1>7 DEF IInv

\* Every step preserves the inductive invariant.
LEMMA IInvStep == IInv /\ [Next]_vars => IInv'
BY BaseStep, FixedStep, CreditedOnceStep, CountedStep, LedgerStep, BalanceStep DEF IInv

\* lazyRefill (decision D11) credits every refill interval exactly once,
\* whatever the number of goroutines refilling and however late their clocks.
THEOREM CreditedOnceTheorem == Spec => []CreditedOnce
<1>1. IInv => CreditedOnce
  BY DEF IInv
<1> QED
  BY <1>1, IInvInit, IInvStep, PTL DEF Spec

\* The CAS loops of Allow and lazyRefill neither mint nor lose a token.
THEOREM LedgerTheorem == Spec => []Ledger
<1>1. IInv => Ledger
  BY DEF IInv
<1> QED
  BY <1>1, IInvInit, IInvStep, PTL DEF Spec

\* The balance stays within MaxTokens, or, with a sliding window, within one
\* request's cost per concurrent caller of it.
THEOREM BalanceTheorem == Spec => []BalanceBound
<1>1. IInv => BalanceBound
  BY DEF IInv
<1> QED
  BY <1>1, IInvInit, IInvStep, PTL DEF Spec

\* If c intervals of length b fit into t, c is at most t \div b.
LEMMA QuotientBound ==
    ASSUME NEW c \in Nat, NEW b \in Nat, b > 0, NEW t \in Nat, c * b <= t
    PROVE  c <= t \div b /\ t \div b \in Nat
<1> DEFINE q == t \div b
<1>1. q \in Nat /\ t < (q + 1) * b
  OBVIOUS
<1> HIDE DEF q
<1>2. CASE c >= q + 1
  <2>1. c * b >= (q + 1) * b
    BY <1>1, <1>2
  <2> QED
    BY <1>1, <2>1
<1> QED
  BY <1>1, <1>2 DEF q

\* The intervals credited have all elapsed since New.
CreditsFit == Cfg.RefillInterval > 0 => credits * Cfg.RefillInterval <= now

\* An interval is credited only after it has elapsed.
LEMMA CreditsFitState == IInv => CreditsFit
<1> SUFFICES ASSUME IInv, Cfg.RefillInterval > 0
             PROVE  credits * Cfg.RefillInterval <= now
  BY DEF CreditsFit
<1> DEFINE I == Cfg.RefillInterval
<1>1. /\ I \in Nat /\ I > 0 /\ credits \in Nat /\ now \in Nat
      /\ lastRefillTime \in Nat /\ lastRefillTime <= now
  BY CfgFacts DEF IInv, Base, TypeOK
<1>2. credited \subseteq 1 .. lastRefillTime
  BY CreditedOncePointwise DEF IInv
<1>3. IsFiniteSet(1 .. lastRefillTime) /\ Cardinality(1 .. lastRefillTime) = lastRefillTime
  <2>1. 1 .. lastRefillTime = 0 + 1 .. 0 + lastRefillTime
    BY <1>1
  <2> QED
    BY <1>1, <2>1, IntervalSize
<1>4. Cardinality(credited) <= lastRefillTime
  BY <1>2, <1>3, FS_Subset
<1>5. Cardinality(credited) = credits * I
  BY DEF IInv, Counted
<1> HIDE DEF I
<1>6. credits * I \in Nat
  BY <1>1
<1>7. credits * I <= now
  BY <1>1, <1>4, <1>5, <1>6
<1> QED
  BY <1>7 DEF I

\* The same in the next state.
LEMMA CreditsFitNext == IInv' => CreditsFit'
BY CreditsFitState, PTL

\* The rate limit: at any moment the tokens granted are at most MaxTokens plus
\* RefillRate per elapsed RefillInterval.
THEOREM RateBoundTheorem == Spec => []RateBound
<1>1. ASSUME IInv PROVE RateBound
  <2> DEFINE h == Cost(Cfg) * Cardinality(Held)
             r == Cfg.RefillRate * credits
             M == Cfg.MaxTokens
  <2>1. /\ granted \in Nat /\ tokens \in Nat /\ spilled \in Nat /\ credits \in Nat
        /\ M \in Nat /\ Cfg.RefillRate \in Nat /\ Cfg.RefillInterval \in Int
    BY <1>1, CfgFacts DEF IInv, Base, TypeOK
  <2>2. h \in Nat /\ r \in Nat
    BY <2>1, CfgFacts, HeldFacts
  <2>3. granted + tokens + h + spilled = M + r
    BY <1>1 DEF IInv, Ledger
  <2> HIDE DEF h, M
  <2>4. granted <= M + r
    <3> HIDE DEF r
    <3> QED
      BY <2>1, <2>2, <2>3
  <2>5. CASE Cfg.RefillInterval > 0
    <3> DEFINE q == now \div Cfg.RefillInterval
               s == Cfg.RefillRate * q
    <3>1. credits <= q /\ q \in Nat
      <4>1. credits * Cfg.RefillInterval <= now /\ now \in Nat
        BY <1>1, <2>5, CreditsFitState DEF CreditsFit, IInv, Base, TypeOK
      <4> QED
        BY <2>1, <2>5, <4>1, QuotientBound
    <3>2. r <= s /\ s \in Nat
      <4> HIDE DEF q
      <4> QED
        BY <2>1, <3>1
    <3> HIDE DEF r, s
    <3>3. granted <= M + s
      BY <2>1, <2>2, <2>4, <3>2
    <3> QED
      BY <2>5, <3>3 DEF RateBound, M, s
  <2>6. CASE ~(Cfg.RefillInterval > 0)
    <3>1. credits = 0
      BY <1>1, <2>1, <2>6 DEF IInv, Counted
    <3>2. r = 0
      BY <2>1, <3>1
    <3> HIDE DEF r
    <3> QED
      BY <2>1, <2>4, <2>6, <3>2 DEF RateBound, M
  <2> QED
    BY <2>5, <2>6
<1> QED
  BY <1>1, IInvInit, IInvStep, PTL DEF Spec
-----------------------------------------------------------------------------
(* The refinement: each effect is a step of the abstract bucket.           *)

\* New creates a full abstract bucket.
LEMMA RefinesInit == Init => TB!TBInit
<1> SUFFICES ASSUME Init PROVE TB!TBInit
  OBVIOUS
<1>1. Held = {}
  BY DEF Init, Held, Procs
<1>2. Cardinality(Held) = 0
  BY <1>1, FS_EmptySet
<1> QED
  BY <1>2 DEF Init, TB!TBInit

\* Adding a claim is an abstract credit of intervals that have elapsed.
LEMMA RefinesAdd ==
    ASSUME IInv, IInv', NEW p \in Procs, Adds(p, Cfg)
    PROVE  \E k \in 1 .. now : TB!TBCredit(k)
<1> DEFINE I == Cfg.RefillInterval
<1>1. PICK k \in Nat : /\ k >= 1
                       /\ credits' = credits + k
                       /\ tokens' = Refilled(Cfg, tokens, k)
  BY DEF Adds
<1>2. I \in Nat /\ I > 0 /\ credits \in Nat /\ now \in Nat /\ now' = now
  <2>1. credits \in Nat /\ now \in Nat
    BY DEF IInv, Base, TypeOK
  <2>2. I > 0 /\ now' = now
    BY DEF Adds
  <2> QED
    BY <2>1, <2>2, CfgFacts
<1>3. Cardinality(Held)' = Cardinality(Held) /\ granted' = granted
  BY DEF Adds
<1>4. credits' * I <= now
  BY <1>2, CreditsFitNext DEF CreditsFit
<1>5. (credits + k) * I <= now
  BY <1>1, <1>4
<1>6. k <= now
  <2> HIDE DEF I
  <2> DEFINE total == credits + k
  <2>1. total \in Nat /\ total >= k /\ total * I <= now
    BY <1>2, <1>5
  <2> HIDE DEF total
  <2>2. total <= total * I /\ total * I \in Nat
    BY <1>2, <2>1
  <2> QED
    BY <1>2, <2>1, <2>2
<1>7. k \in 1 .. now
  BY <1>1, <1>2, <1>6
<1>8. TB!TBCredit(k)
  BY <1>1, <1>2, <1>3, <1>5 DEF TB!TBCredit, Refilled
<1> QED
  BY <1>7, <1>8

\* Every step of the bucket is a step of the abstract bucket or a stutter.
LEMMA RefinesStep == IInv /\ IInv' /\ [Next]_vars => [TB!TBNext]_(TB!tbVars)
<1> SUFFICES ASSUME IInv, IInv', [Next]_vars
             PROVE  TB!TBNext \/ UNCHANGED TB!tbVars
  OBVIOUS
<1> DEFINE h == Cardinality(Held)
<1>1. Base /\ Fixed /\ h \in Nat /\ tokens \in Nat /\ granted \in Nat /\ now \in Nat
  BY HeldFacts DEF IInv, Base, TypeOK
<1>2. CASE Bystander
  <2>1. h' = h /\ UNCHANGED <<tokens, granted, credits>> /\ (now' = now \/ now' = now + 1)
    BY <1>2 DEF Bystander
  <2> QED
    BY <2>1 DEF TB!TBNext, TB!TBTick, TB!tbVars
<1>3. ASSUME NEW p \in Procs, Claims(p) PROVE UNCHANGED TB!tbVars
  BY <1>3 DEF Claims, TB!tbVars
<1>4. ASSUME NEW p \in Procs, Adds(p, Cfg) PROVE TB!TBNext
  BY <1>4, RefinesAdd DEF TB!TBNext
<1>5. ASSUME NEW c \in Callers, Takes(c, Cfg) PROVE TB!TBReserve
  <2>1. h' = h + 1
    BY <1>5, HeldGrows DEF Takes
  <2> QED
    BY <1>5, <2>1 DEF Takes, Steady, TB!TBReserve
<1>6. ASSUME NEW c \in Callers, c \in Held PROVE h > 0
  <2>1. h # 0
    BY <1>6, HeldFacts, FS_EmptySet
  <2> QED
    BY <1>1, <2>1
<1>7. ASSUME NEW c \in Callers, Grants(c, Cfg) PROVE TB!TBCommit
  <2>1. h' = h - 1 /\ h > 0
    BY <1>6, <1>7, HeldShrinks DEF Grants
  <2> QED
    BY <1>7, <2>1 DEF Grants, Steady, TB!TBCommit
<1>8. ASSUME NEW c \in Callers, Refunds(c, Cfg) PROVE TB!TBCancel
  <2>1. h' = h - 1 /\ h > 0
    BY <1>6, <1>8, HeldShrinks DEF Refunds
  <2> QED
    BY <1>8, <2>1 DEF Refunds, Steady, TB!TBCancel
<1> QED
  BY <1>1, <1>2, <1>3, <1>4, <1>5, <1>7, <1>8, FixedEffects DEF TB!TBNext

\* The single atomic loads, stores and CASes of bucket.go, interleaved by any
\* number of goroutines, implement the atomic token bucket.
THEOREM Refinement == Spec => ImplementsTokenBucket
<1>1. Spec => []IInv
  BY IInvInit, IInvStep, PTL DEF Spec
<1> QED
  BY <1>1, RefinesInit, RefinesStep, PTL DEF Spec, ImplementsTokenBucket, TB!TBSpec
-----------------------------------------------------------------------------
(* The wait that Allow suggests.                                           *)

\* Rounding up covers the dividend.
LEMMA RoundUp ==
    ASSUME NEW a \in Nat, NEW b \in Nat, b > 0
    PROVE  /\ (a + b - 1) \div b \in Nat
           /\ ((a + b - 1) \div b) * b >= a
<1>1. a + b - 1 \in Nat
  OBVIOUS
<1> DEFINE s == a + b - 1
           q == s \div b
<1>2. q \in Nat /\ s = q * b + (s % b) /\ s % b \in Nat /\ s % b < b
  BY <1>1
<1>3. q * b \in Nat
  BY <1>2
<1> HIDE DEF q
<1>4. q * b >= a
  BY <1>2, <1>3
<1> QED
  BY <1>2, <1>4 DEF q

\* Whole intervals added to a dividend come out of the division.
LEMMA DivAdds ==
    ASSUME NEW d \in Nat, NEW m \in Nat, NEW b \in Nat, b > 0
    PROVE  (d + m * b) \div b >= m
<1> DEFINE s == d + m * b
           q == s \div b
<1>1. m * b \in Nat /\ s \in Nat
  OBVIOUS
<1>2. q \in Nat /\ s = q * b + (s % b) /\ s % b \in Nat /\ s % b < b
  BY <1>1
<1>3. CASE q < m
  <2>1. q + 1 <= m
    BY <1>2, <1>3
  <2> HIDE DEF q
  <2>2. (q + 1) * b <= m * b
    BY <1>2, <2>1
  <2>3. (q + 1) * b = q * b + b /\ q * b \in Nat
    BY <1>2
  <2> QED
    BY <1>1, <1>2, <2>2, <2>3
<1> QED
  BY <1>2, <1>3

\* After the wait that RetryAfter suggests, the elapsed intervals bring what is
\* missing.
LEMMA RetryAfterCovers ==
    ASSUME NEW cfg \in Configs, NEW cur \in Nat, NEW last \in Nat, NEW at \in Nat,
           last <= at, cfg.RefillRate > 0, cfg.RefillInterval > 0,
           ~Covers(cfg, cur), Cost(cfg) <= cfg.MaxTokens
    PROVE  Refilled(cfg, cur, Intervals(cfg, last, at + RetryAfter(cfg, cur))) >= Cost(cfg)
<1> DEFINE R == cfg.RefillRate
           I == cfg.RefillInterval
           n == Cost(cfg)
           m == ((n - cur) + R - 1) \div R
           k == ((at - last) + m * I) \div I
<1>1. R \in Nat /\ R > 0 /\ I \in Nat /\ I > 0 /\ n \in Nat /\ cfg.MaxTokens \in Nat
  BY ConfigFacts
<1>2. n - cur \in Nat /\ n > cur
  BY <1>1 DEF Covers
<1>3. m \in Nat /\ m * R >= n - cur
  <2> HIDE DEF R, n
  <2> QED
    BY <1>1, <1>2, RoundUp
<1>4. RetryAfter(cfg, cur) = m * I
  BY <1>1 DEF RetryAfter
<1>5. m * I \in Nat /\ at - last \in Nat
  BY <1>1, <1>3
<1>6. k \in Nat /\ k >= m
  <2> HIDE DEF R, I, n, m
  <2>1. k >= m
    BY <1>1, <1>3, <1>5, DivAdds
  <2>2. (at - last) + m * I \in Nat
    BY <1>5
  <2> QED
    BY <1>1, <1>3, <2>1, <2>2, DivFacts
<1>7. Intervals(cfg, last, at + RetryAfter(cfg, cur)) = k
  <2> HIDE DEF m
  <2>1. PICK u \in Nat : u = at + m * I
    BY <1>5
  <2>2. ~(u < last) /\ u - last = (at - last) + m * I
    BY <1>5, <2>1
  <2>3. Intervals(cfg, last, u) = (u - last) \div I
    BY <2>2 DEF Intervals
  <2> HIDE DEF I
  <2>4. Intervals(cfg, last, u) = k
    BY <2>2, <2>3
  <2> QED
    BY <1>4, <2>1, <2>4
<1>8. cur + k * R >= n
  <2> HIDE DEF R, I, n, m, k
  <2>1. k * R >= m * R /\ k * R \in Nat /\ m * R \in Nat
    BY <1>1, <1>3, <1>6
  <2> QED
    BY <1>1, <1>2, <1>3, <2>1
<1> HIDE DEF m, k
<1> QED
  BY <1>1, <1>7, <1>8 DEF Refilled

\* A caller that leaves from reading the balance leaves by TakeLoad, refused.
LEMMA LeavesFromTakeLoad ==
    ASSUME Base, [Next]_vars, NEW c \in Callers, pc[c] = "takeLoad", pc'[c] = "idle"
    PROVE  /\ ~Covers(frame[c].cfg, tokens)
           /\ ret'[c].retryAfter = RetryAfter(frame[c].cfg, tokens)
<1>0. Callers \subseteq Procs /\ Refillers \subseteq Procs /\ pc \in [Procs -> Labels]
  BY DEF Procs, Base, TypeOK
<1>1. ASSUME NEW p \in Procs, NEW l, pc' = [pc EXCEPT ![p] = l] PROVE p = c
  BY <1>0, <1>1
<1>2. ASSUME NEW p \in Procs, Refill(p) PROVE FALSE
  <2>1. \E l : pc' = [pc EXCEPT ![p] = l]
    BY <1>2 DEF Refill, RefillLoad, RefillCAS, AddLoad, AddCAS, AfterRefill, Leave, Goto
  <2>2. p = c
    BY <1>1, <2>1
  <2> QED
    BY <1>2, <2>2 DEF Refill, RefillLoad, RefillCAS, AddLoad, AddCAS
<1>3. ASSUME NEW p \in Procs, LoadConfig(p) PROVE FALSE
  <2>1. \E l : pc' = [pc EXCEPT ![p] = l]
    BY <1>3 DEF LoadConfig, Leave, Goto
  <2>2. p = c
    BY <1>1, <2>1
  <2> QED
    BY <1>3, <2>2 DEF LoadConfig
<1>4. ASSUME NEW d \in Callers, Call(d) \/ CheckBlocked(d) \/ Touch(d) \/ TakeCAS(d)
                                \/ WindowAdmit(d) \/ WindowReject(d) \/ Refund(d)
      PROVE  FALSE
  <2>1. \E l : pc' = [pc EXCEPT ![d] = l]
    BY <1>4 DEF Call, CheckBlocked, Touch, TakeCAS, WindowAdmit, WindowReject, Refund,
       Return, Leave, Goto
  <2>2. d = c
    BY <1>0, <1>1, <2>1
  <2> QED
    BY <1>4, <2>2 DEF Call, CheckBlocked, Touch, TakeCAS, WindowAdmit, WindowReject, Refund
<1>5. ASSUME NEW r \in Refillers, ScheduledRefill(r) PROVE FALSE
  <2>1. pc' = [pc EXCEPT ![r] = "loadConfig"] /\ pc[r] = "idle"
    BY <1>5 DEF ScheduledRefill, Goto
  <2> QED
    BY <1>0, <1>1, <2>1
<1>6. CASE Block \/ Unblock \/ Tick \/ UNCHANGED vars
  BY <1>6 DEF Block, Unblock, Tick, vars
<1>7. ASSUME NEW d \in Callers, TakeLoad(d)
      PROVE  /\ ~Covers(frame[c].cfg, tokens)
             /\ ret'[c].retryAfter = RetryAfter(frame[c].cfg, tokens)
  <2>1. \E l : pc' = [pc EXCEPT ![d] = l]
    BY <1>7 DEF TakeLoad, Return, Leave, Goto
  <2>2. d = c
    BY <1>0, <1>1, <2>1
  <2>3. ~Covers(frame[c].cfg, tokens)
    BY <1>0, <1>7, <2>2 DEF TakeLoad, Goto
  <2>4. ret' = [ret EXCEPT ![c] = [allowed |-> FALSE,
                                   retryAfter |-> RetryAfter(frame[c].cfg, tokens)]]
    BY <1>7, <2>2, <2>3 DEF TakeLoad, Return
  <2>5. c \in DOMAIN ret
    BY DEF Base, TypeOK
  <2> QED
    BY <2>3, <2>4, <2>5
<1> QED
  BY <1>0, <1>2, <1>3, <1>4, <1>5, <1>6, <1>7 DEF Next, Allow

\* Allow's retryAfter is enough: a caller refused for lack of tokens finds its
\* request covered after that wait if nobody else took tokens meanwhile.
THEOREM RetryAfterTheorem == Spec => RetryAfterSuffices
<1> DEFINE Enough ==
      \A c \in Callers :
        LET cfg == frame[c].cfg IN
        /\ pc[c] = "takeLoad" /\ pc'[c] = "idle"
        /\ frame[c].at = now
        /\ cfg.RefillRate > 0 /\ cfg.RefillInterval > 0
        /\ Cost(cfg) <= cfg.MaxTokens
        => Refilled(cfg, tokens, Intervals(cfg, lastRefillTime, now + ret'[c].retryAfter))
            >= Cost(cfg)
<1>1. ASSUME Base, [Next]_vars PROVE Enough
  <2> SUFFICES ASSUME NEW c \in Callers,
                      pc[c] = "takeLoad", pc'[c] = "idle",
                      frame[c].cfg.RefillRate > 0, frame[c].cfg.RefillInterval > 0,
                      Cost(frame[c].cfg) <= frame[c].cfg.MaxTokens
               PROVE  Refilled(frame[c].cfg, tokens,
                               Intervals(frame[c].cfg, lastRefillTime, now + ret'[c].retryAfter))
                        >= Cost(frame[c].cfg)
    OBVIOUS
  <2>1. /\ frame[c].cfg \in Configs /\ tokens \in Nat
        /\ lastRefillTime \in Nat /\ now \in Nat /\ lastRefillTime <= now
    BY <1>1 DEF Base, TypeOK, Procs
  <2>2. /\ ~Covers(frame[c].cfg, tokens)
        /\ ret'[c].retryAfter = RetryAfter(frame[c].cfg, tokens)
    BY <1>1, LeavesFromTakeLoad
  <2> QED
    BY <2>1, <2>2, RetryAfterCovers
<1> QED
  BY <1>1, BaseInit, BaseStep, PTL DEF Spec, RetryAfterSuffices
-----------------------------------------------------------------------------
(* Reconfiguration.  With several configurations in use the tokens that    *)
(* callers hold are not a multiple of one cost; HeldTokens has one element *)
(* for each of them.                                                       *)

\* The smallest member of a set of naturals.
LEMMA Smallest ==
    ASSUME NEW S \in SUBSET Nat, S # {}
    PROVE  \E x \in S : \A y \in S : x <= y
<1> DEFINE less == {p \in Nat \X Nat : p[1] < p[2]}
<1>1. IsWellFoundedOn(less, Nat)
  <2>1. IsWellFoundedOn(OpToRel(<, Nat), Nat)
    BY NatLessThanWellFounded
  <2> QED
    BY <2>1 DEF OpToRel
<1>2. PICK x \in S : \A y \in S : ~(<<y, x>> \in less)
  BY <1>1, WFMin
<1>3. ASSUME NEW y \in S PROVE x <= y
  <2>1. <<y, x>> \in Nat \X Nat /\ <<y, x>> \notin less
    BY <1>2
  <2>2. ~(<<y, x>>[1] < <<y, x>>[2])
    BY <2>1
  <2> QED
    BY <2>2
<1> QED
  BY <1>3

\* A finite set has a member whose weight is the largest.
LEMMA Heaviest ==
    ASSUME NEW S, IsFiniteSet(S), S # {}, NEW w \in [S -> Nat]
    PROVE  \E x \in S : \A y \in S : w[y] <= w[x]
<1> DEFINE above == [x \in S |-> {y \in S : w[y] > w[x]}]
           sizes == {Cardinality(above[x]) : x \in S}
<1>1. ASSUME NEW x \in S
      PROVE  above[x] \in SUBSET S /\ IsFiniteSet(above[x]) /\ Cardinality(above[x]) \in Nat
  <2>1. above[x] \in SUBSET S
    OBVIOUS
  <2> HIDE DEF above
  <2> QED
    BY <2>1, FS_Subset, FS_CardinalityType
<1>2. \A x, y \in S : y \in above[x] <=> w[y] > w[x]
  OBVIOUS
<1>3. \E x \in S : \A y \in S : Cardinality(above[x]) <= Cardinality(above[y])
  <2> HIDE DEF above
  <2>1. sizes \in SUBSET Nat /\ sizes # {}
    BY <1>1
  <2>2. PICK n \in sizes : \A m \in sizes : n <= m
    <3> HIDE DEF sizes
    <3> QED
      BY <2>1, Smallest
  <2> QED
    BY <2>2
<1>4. PICK x \in S : \A y \in S : Cardinality(above[x]) <= Cardinality(above[y])
  BY <1>3
<1>5. ASSUME NEW y \in S, ~(w[y] <= w[x]) PROVE FALSE
  <2>1. w[y] > w[x] /\ w[x] \in Nat /\ w[y] \in Nat
    BY <1>5
  <2>2. y \in above[x] /\ y \notin above[y]
    BY <1>2, <2>1
  <2>3. above[y] \in SUBSET above[x]
    <3>1. \A z \in S : w[z] > w[y] => w[z] > w[x]
      BY <2>1
    <3> QED
      BY <3>1
  <2> HIDE DEF above
  <2>4. Cardinality(above[y]) <= Cardinality(above[x])
        /\ (Cardinality(above[x]) = Cardinality(above[y]) => above[x] = above[y])
    BY <1>1, <2>3, FS_Subset
  <2>5. Cardinality(above[x]) = Cardinality(above[y])
    BY <1>1, <1>4, <2>4
  <2> QED
    BY <2>2, <2>4, <2>5
<1> QED
  BY <1>5

\* The largest capacity and the largest cost of the configurations in use.
Big == CHOOSE c \in AllCfgs : \A d \in AllCfgs : d.MaxTokens <= c.MaxTokens
Dear == CHOOSE c \in AllCfgs : \A d \in AllCfgs : Cost(d) <= Cost(c)

\* They exist, for the configurations are finitely many.
LEMMA Extremes ==
    /\ Big \in AllCfgs /\ Big.MaxTokens \in Nat
    /\ Dear \in AllCfgs /\ Cost(Dear) \in Nat
    /\ \A c \in AllCfgs : c.MaxTokens <= Big.MaxTokens /\ Cost(c) <= Cost(Dear)
<1>1. AllCfgs \subseteq Configs /\ Cfg \in AllCfgs
  BY NewCfgsAssumption, CfgFacts DEF AllCfgs
<1>2. IsFiniteSet(AllCfgs)
  BY NewCfgsAssumption, FS_AddElement DEF AllCfgs
<1>3. \A c \in AllCfgs : c.MaxTokens \in Nat /\ Cost(c) \in Nat
  BY <1>1, ConfigFacts
<1>4. \E c \in AllCfgs : \A d \in AllCfgs : d.MaxTokens <= c.MaxTokens
  <2> DEFINE w == [c \in AllCfgs |-> c.MaxTokens]
  <2>1. w \in [AllCfgs -> Nat] /\ \A c \in AllCfgs : w[c] = c.MaxTokens
    BY <1>3
  <2> HIDE DEF w
  <2>2. \E c \in AllCfgs : \A d \in AllCfgs : w[d] <= w[c]
    BY <1>1, <1>2, <2>1, Heaviest
  <2> QED
    BY <2>1, <2>2
<1>5. \E c \in AllCfgs : \A d \in AllCfgs : Cost(d) <= Cost(c)
  <2> DEFINE w == [c \in AllCfgs |-> Cost(c)]
  <2>1. w \in [AllCfgs -> Nat] /\ \A c \in AllCfgs : w[c] = Cost(c)
    BY <1>3
  <2> HIDE DEF w
  <2>2. \E c \in AllCfgs : \A d \in AllCfgs : w[d] <= w[c]
    BY <1>1, <1>2, <2>1, Heaviest
  <2> QED
    BY <2>1, <2>2
<1>6. Big \in AllCfgs /\ \A d \in AllCfgs : d.MaxTokens <= Big.MaxTokens
  BY <1>4 DEF Big
<1>7. Dear \in AllCfgs /\ \A d \in AllCfgs : Cost(d) <= Cost(Dear)
  BY <1>5 DEF Dear
<1> QED
  BY <1>3, <1>6, <1>7

\* A configuration within the largest capacity and cost.
Within(cfg) == cfg \in Configs /\ cfg.MaxTokens <= Big.MaxTokens /\ Cost(cfg) <= Cost(Dear)

\* Every configuration in use is.
AllWithin ==
    /\ Within(config)
    /\ \A p \in Procs : Within(frame[p].cfg)
    /\ Within(update.cfg) /\ update = [pc |-> update.pc, cfg |-> update.cfg, calls |-> update.calls]

\* One element for each token that a caller holds.
HeldTokens ==
    {x \in Callers \X (1 .. Cost(Dear)) : x[1] \in Held /\ x[2] <= Cost(frame[x[1]].cfg)}

Room == tokens + Cardinality(HeldTokens) <= Big.MaxTokens + Cost(Dear) * Cardinality(Callers)

RInv == Base /\ CreditedOnce /\ AllWithin /\ Room

\* Callers hold at most the largest cost each.
LEMMA HeldTokensFacts ==
    /\ IsFiniteSet(HeldTokens) /\ Cardinality(HeldTokens) \in Nat
    /\ Cost(Dear) * Cardinality(Callers) \in Nat
    /\ Cardinality(HeldTokens) <= Cost(Dear) * Cardinality(Callers)
<1> DEFINE D == Cost(Dear)
           N == Cardinality(Callers)
<1>1. D \in Nat /\ N \in Nat /\ IsFiniteSet(Callers)
  BY Extremes, HeldFacts, ProcsAssumption
<1> HIDE DEF D
<1>2. IsFiniteSet(1 .. D) /\ Cardinality(1 .. D) = D
  <2>1. 1 \in Int /\ D \in Int
    BY <1>1
  <2>2. IsFiniteSet(1 .. D) /\ Cardinality(1 .. D) = IF 1 > D THEN 0 ELSE D - 1 + 1
    BY <2>1, FS_Interval
  <2> QED
    BY <1>1, <2>2
<1>3. IsFiniteSet(Callers \X (1 .. D)) /\ Cardinality(Callers \X (1 .. D)) = N * D
  BY <1>1, <1>2, FS_Product
<1>4. HeldTokens \in SUBSET (Callers \X (1 .. D))
  BY DEF HeldTokens, D
<1>5. IsFiniteSet(HeldTokens) /\ Cardinality(HeldTokens) <= N * D
  BY <1>3, <1>4, FS_Subset
<1>6. Cardinality(HeldTokens) \in Nat
  BY <1>5, FS_CardinalityType
<1> HIDE DEF N
<1>7. N * D = D * N /\ D * N \in Nat
  BY <1>1
<1> QED
  BY <1>5, <1>6, <1>7 DEF D, N

\* The tokens of one caller.
LEMMA OneCaller ==
    ASSUME NEW c, NEW k \in Nat
    PROVE  IsFiniteSet({c} \X (1 .. k)) /\ Cardinality({c} \X (1 .. k)) = k
<1>1. 1 \in Int /\ k \in Int
  OBVIOUS
<1>2. IsFiniteSet(1 .. k) /\ Cardinality(1 .. k) = k
  <2>1. IsFiniteSet(1 .. k) /\ Cardinality(1 .. k) = IF 1 > k THEN 0 ELSE k - 1 + 1
    BY <1>1, FS_Interval
  <2> QED
    BY <2>1
<1>3. IsFiniteSet({c}) /\ Cardinality({c}) = 1
  BY FS_Singleton
<1>4. IsFiniteSet({c} \X (1 .. k)) /\ Cardinality({c} \X (1 .. k)) = 1 * k
  BY <1>2, <1>3, FS_Product
<1> QED
  BY <1>4

\* A set of tokens and those of one caller who has none among them.
LEMMA OneCallerMore ==
    ASSUME NEW S, IsFiniteSet(S), NEW c, NEW k \in Nat, S \cap ({c} \X (1 .. k)) = {}
    PROVE  Cardinality(S \cup ({c} \X (1 .. k))) = Cardinality(S) + k
<1> DEFINE T == {c} \X (1 .. k)
<1>1. IsFiniteSet(T) /\ Cardinality(T) = k
  BY OneCaller
<1> HIDE DEF T
<1>2. Cardinality(S \cup T) = Cardinality(S) + Cardinality(T) - Cardinality(S \cap T)
  BY <1>1, FS_Union
<1>3. Cardinality(S \cap T) = 0
  BY FS_EmptySet DEF T
<1>4. Cardinality(S) \in Nat
  BY FS_CardinalityType
<1>5. Cardinality(S \cup T) = Cardinality(S) + k
  BY <1>1, <1>2, <1>3, <1>4
<1> QED
  BY <1>5 DEF T

\* Callers that hold what they held, at the cost they loaded.
LEMMA HeldTokensSame ==
    ASSUME Held' = Held, SameCosts(Held)
    PROVE  HeldTokens' = HeldTokens
BY DEF HeldTokens, SameCosts

\* A caller that takes tokens adds the cost it loaded to those held.
LEMMA HeldTokensGrow ==
    ASSUME NEW c \in Callers, Within(frame[c].cfg),
           c \notin Held, Held' = Held \cup {c}, SameCosts(Held')
    PROVE  Cardinality(HeldTokens') = Cardinality(HeldTokens) + Cost(frame[c].cfg)
<1> DEFINE k == Cost(frame[c].cfg)
           T == {c} \X (1 .. k)
<1>1. k \in Nat /\ k <= Cost(Dear) /\ Cost(Dear) \in Nat
  BY ConfigFacts, Extremes DEF Within
<1>2. \A q \in Held' : frame'[q].cfg = frame[q].cfg
  BY DEF SameCosts
<1>3. HeldTokens' = HeldTokens \cup T
  <2> HIDE DEF k
  <2>1. ASSUME NEW x \in HeldTokens' PROVE x \in HeldTokens \cup T
    <3>1. /\ x \in Callers \X (1 .. Cost(Dear)) /\ x[1] \in Held'
          /\ x[2] <= Cost(frame'[x[1]].cfg)
      BY <2>1 DEF HeldTokens
    <3>2. x[2] <= Cost(frame[x[1]].cfg)
      BY <1>2, <3>1
    <3>3. CASE x[1] = c
      BY <3>1, <3>2, <3>3 DEF k
    <3>4. CASE x[1] # c
      BY <3>1, <3>2, <3>4 DEF HeldTokens
    <3> QED
      BY <3>3, <3>4
  <2>2. ASSUME NEW x \in HeldTokens PROVE x \in HeldTokens'
    <3>1. /\ x \in Callers \X (1 .. Cost(Dear)) /\ x[1] \in Held
          /\ x[2] <= Cost(frame[x[1]].cfg)
      BY <2>2 DEF HeldTokens
    <3>2. x[1] \in Held' /\ x[2] <= Cost(frame'[x[1]].cfg)
      BY <1>2, <3>1
    <3> QED
      BY <3>1, <3>2 DEF HeldTokens
  <2>3. ASSUME NEW x \in T PROVE x \in HeldTokens'
    <3>1. x \in Callers \X (1 .. Cost(Dear)) /\ x[1] = c /\ x[2] <= k
      BY <1>1, <2>3
    <3>2. x[1] \in Held' /\ x[2] <= Cost(frame'[x[1]].cfg)
      BY <1>2, <3>1 DEF k
    <3> QED
      BY <3>1, <3>2 DEF HeldTokens
  <2> QED
    BY <2>1, <2>2, <2>3
<1>4. HeldTokens \cap T = {}
  BY DEF HeldTokens
<1>5. IsFiniteSet(HeldTokens)
  BY HeldTokensFacts
<1>6. Cardinality(HeldTokens \cup T) = Cardinality(HeldTokens) + k
  BY <1>1, <1>4, <1>5, OneCallerMore
<1> QED
  BY <1>3, <1>6

\* A caller that grants or refunds them takes it away.
LEMMA HeldTokensShrink ==
    ASSUME NEW c \in Callers, Within(frame[c].cfg),
           c \in Held, Held' = Held \ {c}, SameCosts(Held')
    PROVE  /\ Cardinality(HeldTokens') \in Nat
           /\ Cardinality(HeldTokens) = Cardinality(HeldTokens') + Cost(frame[c].cfg)
<1> DEFINE k == Cost(frame[c].cfg)
           T == {c} \X (1 .. k)
<1>1. k \in Nat /\ k <= Cost(Dear) /\ Cost(Dear) \in Nat
  BY ConfigFacts, Extremes DEF Within
<1>2. \A q \in Held' : frame'[q].cfg = frame[q].cfg
  BY DEF SameCosts
<1>3. HeldTokens = HeldTokens' \cup T
  <2> HIDE DEF k
  <2>1. ASSUME NEW x \in HeldTokens PROVE x \in HeldTokens' \cup T
    <3>1. /\ x \in Callers \X (1 .. Cost(Dear)) /\ x[1] \in Held
          /\ x[2] <= Cost(frame[x[1]].cfg)
      BY <2>1 DEF HeldTokens
    <3>2. CASE x[1] = c
      BY <3>1, <3>2 DEF k
    <3>3. CASE x[1] # c
      <4>1. x[1] \in Held' /\ x[2] <= Cost(frame'[x[1]].cfg)
        BY <1>2, <3>1, <3>3
      <4> QED
        BY <3>1, <4>1 DEF HeldTokens
    <3> QED
      BY <3>2, <3>3
  <2>2. ASSUME NEW x \in HeldTokens' PROVE x \in HeldTokens
    <3>1. /\ x \in Callers \X (1 .. Cost(Dear)) /\ x[1] \in Held'
          /\ x[2] <= Cost(frame'[x[1]].cfg)
      BY <2>2 DEF HeldTokens
    <3>2. x[1] \in Held /\ x[2] <= Cost(frame[x[1]].cfg)
      BY <1>2, <3>1
    <3> QED
      BY <3>1, <3>2 DEF HeldTokens
  <2>3. ASSUME NEW x \in T PROVE x \in HeldTokens
    <3>1. x \in Callers \X (1 .. Cost(Dear)) /\ x[1] = c /\ x[2] <= k
      BY <1>1, <2>3
    <3> QED
      BY <3>1 DEF HeldTokens, k
  <2> QED
    BY <2>1, <2>2, <2>3
<1>4. HeldTokens' \cap T = {}
  BY DEF HeldTokens
<1>5. IsFiniteSet(HeldTokens)
  BY HeldTokensFacts
<1>6. IsFiniteSet(HeldTokens')
  BY <1>3, <1>5, FS_Subset
<1>7. Cardinality(HeldTokens' \cup T) = Cardinality(HeldTokens') + k
  BY <1>1, <1>4, <1>6, OneCallerMore
<1>8. Cardinality(HeldTokens') \in Nat
  BY <1>6, FS_CardinalityType
<1> QED
  BY <1>3, <1>7, <1>8

\* Sums of smaller parts are smaller.
LEMMA SumMonotone ==
    ASSUME NEW a \in Nat, NEW b \in Nat, NEW x \in Nat, NEW y \in Nat, x <= a, y <= b
    PROVE  x + y <= a + b
OBVIOUS

\* A sum stays below a bound when one part shrinks.
LEMMA SumShrinks ==
    ASSUME NEW t \in Nat, NEW h \in Nat, NEW k \in Nat, NEW m \in Nat, t + h <= m, k <= h
    PROVE  t + k <= m
OBVIOUS

\* Of the six effects only the addition of refilled tokens makes the balance and
\* the tokens held larger together, and it stops at a configured capacity.
LEMMA RoomStep ==
    ASSUME Base, Base', AllWithin, Room, [Next]_vars
    PROVE  Room'
<1> DEFINE B == Big.MaxTokens
           M == Cost(Dear) * Cardinality(Callers)
           H == Cardinality(HeldTokens)
<1>1. B \in Nat /\ M \in Nat /\ H \in Nat /\ H <= M
  BY Extremes, HeldTokensFacts
<1>2. tokens \in Nat /\ tokens' \in Nat /\ tokens + H <= B + M
  BY DEF Base, TypeOK, Room
<1>3. \A p \in Procs : Within(frame[p].cfg) /\ Cost(frame[p].cfg) \in Nat
  BY ConfigFacts DEF AllWithin, Within
<1>4. Callers \subseteq Procs
  BY DEF Procs
<1> SUFFICES tokens' + H' <= B + M
  BY DEF Room
<1>5. CASE tokens' = tokens /\ Held' = Held /\ SameCosts(Held)
  <2>1. HeldTokens' = HeldTokens
    BY <1>5, HeldTokensSame
  <2> QED
    BY <1>2, <1>5, <2>1
<1>6. ASSUME NEW p \in Procs, Adds(p, frame[p].cfg) PROVE tokens' + H' <= B + M
  <2>1. HeldTokens' = HeldTokens
    BY <1>6, HeldTokensSame DEF Adds
  <2>2. PICK k \in Nat : tokens' = Refilled(frame[p].cfg, tokens, k)
    BY <1>6 DEF Adds
  <2>3. frame[p].cfg \in Configs /\ frame[p].cfg.MaxTokens \in Nat /\ frame[p].cfg.MaxTokens <= B
    BY <1>3, ConfigFacts DEF Within
  <2>4. tokens' <= frame[p].cfg.MaxTokens
    BY <1>2, <2>2, <2>3, RefilledFacts
  <2> HIDE DEF B, M, H
  <2>5. tokens' <= B
    BY <1>1, <1>2, <2>3, <2>4
  <2>6. H' = H
    BY <2>1 DEF H
  <2>7. tokens' + H <= B + M
    BY <1>1, <1>2, <2>5, SumMonotone
  <2> QED
    BY <2>6, <2>7
<1>7. ASSUME NEW c \in Callers, Takes(c, frame[c].cfg) PROVE tokens' + H' <= B + M
  <2>1. H' = H + Cost(frame[c].cfg)
    BY <1>3, <1>4, <1>7, HeldTokensGrow DEF Takes
  <2>2. tokens' = tokens - Cost(frame[c].cfg) /\ Cost(frame[c].cfg) \in Nat
    BY <1>3, <1>4, <1>7 DEF Takes
  <2> HIDE DEF B, M, H
  <2> QED
    BY <1>1, <1>2, <2>1, <2>2
<1>8. ASSUME NEW c \in Callers, Grants(c, frame[c].cfg) PROVE tokens' + H' <= B + M
  <2>1. H' \in Nat /\ H = H' + Cost(frame[c].cfg)
    BY <1>3, <1>4, <1>8, HeldTokensShrink DEF Grants
  <2>2. tokens' = tokens /\ Cost(frame[c].cfg) \in Nat
    BY <1>3, <1>4, <1>8 DEF Grants
  <2> HIDE DEF B, M, H
  <2>3. H' <= H
    BY <1>1, <2>1, <2>2
  <2>4. B + M \in Nat
    BY <1>1
  <2>5. tokens + H' <= B + M
    BY <1>1, <1>2, <2>1, <2>3, <2>4, SumShrinks
  <2> QED
    BY <2>2, <2>5
<1>9. ASSUME NEW c \in Callers, Refunds(c, frame[c].cfg) PROVE tokens' + H' <= B + M
  <2>1. H' \in Nat /\ H = H' + Cost(frame[c].cfg)
    BY <1>3, <1>4, <1>9, HeldTokensShrink DEF Refunds
  <2>2. tokens' = tokens + Cost(frame[c].cfg) /\ Cost(frame[c].cfg) \in Nat
    BY <1>3, <1>4, <1>9 DEF Refunds
  <2> HIDE DEF B, M, H
  <2> QED
    BY <1>1, <1>2, <2>1, <2>2
<1> HIDE DEF B, M, H
<1> QED
  BY <1>5, <1>6, <1>7, <1>8, <1>9, Effects DEF Bystander, Claims

\* UpdateConfig stores a configuration of the same capacity and cost, and keeps a
\* copy.
LEMMA WithinNormalize ==
    ASSUME NEW cfg \in AllCfgs
    PROVE  Within(normalize(cfg))
<1>1. cfg \in Configs /\ cfg.MaxTokens <= Big.MaxTokens /\ Cost(cfg) <= Cost(Dear)
  BY Extremes, NewCfgsAssumption, CfgFacts DEF AllCfgs
<1>2. normalize(cfg) \in Configs /\ normalize(cfg).MaxTokens = cfg.MaxTokens
  BY <1>1 DEF normalize, Configs
<1>3. Cost(normalize(cfg)) = Cost(cfg)
  BY <1>1 DEF normalize, Cost, Configs
<1> QED
  BY <1>1, <1>2, <1>3 DEF Within

\* New's configuration is one of those.
LEMMA WithinCfg == Within(Cfg)
BY Extremes, CfgFacts DEF Within, AllCfgs

\* A bucket fresh from New satisfies RInv.
LEMMA RInvInit == ReconfigInit => RInv
<1> SUFFICES ASSUME ReconfigInit PROVE RInv
  OBVIOUS
<1>1. Init /\ update = [pc |-> "idle", cfg |-> Cfg, calls |-> 0]
  BY DEF ReconfigInit
<1>2. Base /\ IInv
  BY <1>1, BaseInit, IInvInit
<1>3. CreditedOnce
  BY <1>2 DEF IInv
<1>4. AllWithin
  BY <1>1, WithinCfg, NoFrameFacts DEF AllWithin, Init
<1>5. Room
  <2>1. Held = {}
    BY <1>1 DEF Init, Held, Procs
  <2>2. HeldTokens = {}
    BY <2>1 DEF HeldTokens
  <2>3. Cardinality(HeldTokens) = 0
    BY <2>2, FS_EmptySet
  <2>4. tokens = Cfg.MaxTokens /\ Cfg.MaxTokens \in Nat /\ Cfg.MaxTokens <= Big.MaxTokens
    BY <1>1, CfgFacts, WithinCfg DEF Init, Within
  <2>5. Big.MaxTokens \in Nat /\ Cost(Dear) * Cardinality(Callers) \in Nat
    BY Extremes, HeldTokensFacts
  <2> QED
    BY <2>3, <2>4, <2>5 DEF Room
<1> QED
  BY <1>2, <1>3, <1>4, <1>5 DEF RInv

\* Allow and ScheduledRefill preserve RInv, with any configurations in use.
LEMMA RInvGoroutines ==
    ASSUME RInv, [Next]_vars, UNCHANGED update
    PROVE  RInv'
<1>1. Base /\ CreditedOnce /\ AllWithin /\ Room
  BY DEF RInv
<1>2. Base'
  BY <1>1, BaseStep
<1>3. CreditedOnce'
  BY <1>1, <1>2, CreditedOnceStep
<1>4. Room'
  BY <1>1, <1>2, RoomStep
<1>5. AllWithin'
  <2>1. config' = config /\ \A q \in Procs : frame'[q].cfg \in {frame[q].cfg, config, Cfg}
    BY <1>1, LoadsStep DEF Loads
  <2> QED
    BY <1>1, <2>1, WithinCfg DEF AllWithin
<1> QED
  BY <1>2, <1>3, <1>4, <1>5 DEF RInv

\* What UpdateConfig leaves alone: the goroutines and their accounts.
LEMMA Elsewhere ==
    ASSUME UNCHANGED <<lastRefillTime, now, pc, frame, credited>>
    PROVE  /\ Held' = Held /\ SameCosts(Held) /\ HeldTokens' = HeldTokens
           /\ CreditedOnce' = CreditedOnce
           /\ (\A p \in Procs : FrameInv(p))' = (\A p \in Procs : FrameInv(p))
<1>1. Held' = Held /\ SameCosts(Held)
  BY DEF Held, SameCosts
<1>2. HeldTokens' = HeldTokens
  BY <1>1, HeldTokensSame
<1>3. Claimants' = Claimants /\ \A p : Claim(p)' = Claim(p)
  BY DEF Claimants, Claim
<1>4. CreditedOnce' = CreditedOnce
  BY <1>3 DEF CreditedOnce
<1>5. (\A p \in Procs : FrameInv(p))' = (\A p \in Procs : FrameInv(p))
  BY DEF FrameInv
<1> QED
  BY <1>1, <1>2, <1>4, <1>5

\* The four operations of UpdateConfig preserve RInv, wherever they fall.
LEMMA RInvUpdate ==
    ASSUME RInv, (\E cfg \in NewCfgs : UpdateConfig(cfg)) \/ ClampLoad \/ ClampStore \/ SwapWindow
    PROVE  RInv'
<1>0. /\ Base /\ TypeOK /\ lastRefillTime <= now /\ (\A p \in Procs : FrameInv(p))
      /\ CreditedOnce /\ AllWithin /\ Room
  BY DEF RInv, Base
<1>1. ASSUME NEW cfg \in NewCfgs, UpdateConfig(cfg) PROVE RInv'
  <2>1. UNCHANGED <<tokens, lastRefillTime, now, pc, frame, credited>>
    BY <1>1 DEF UpdateConfig, history
  <2>2. Within(config')
    <3>1. cfg \in AllCfgs /\ config' = normalize(cfg)
      BY <1>1 DEF UpdateConfig, AllCfgs
    <3> QED
      BY <3>1, WithinNormalize
  <2>3. AllWithin'
    <3>1. update' = [pc |-> "clampLoad", cfg |-> config', calls |-> update.calls + 1]
      BY <1>1 DEF UpdateConfig
    <3>2. \A p \in Procs : Within(frame'[p].cfg)
      BY <1>0, <2>1 DEF AllWithin
    <3> QED
      BY <2>2, <3>1, <3>2 DEF AllWithin
  <2>4. TypeOK'
    BY <1>0, <1>1, <2>2 DEF UpdateConfig, TypeOK, history, Within
  <2> QED
    BY <1>0, <2>1, <2>3, <2>4, Elsewhere DEF RInv, Base, Room
<1>2. CASE ClampLoad
  <2>1. UNCHANGED vars /\ update' = [pc |-> update'.pc, cfg |-> update.cfg, calls |-> update.calls]
    <3>1. update = [pc |-> update.pc, cfg |-> update.cfg, calls |-> update.calls]
      BY <1>0 DEF AllWithin
    <3> QED
      BY <1>2, <3>1 DEF ClampLoad
  <2>2. AllWithin'
    BY <1>0, <2>1 DEF AllWithin, vars, shared
  <2>3. TypeOK'
    BY <1>0, <2>1 DEF TypeOK, vars, shared, history
  <2>4. UNCHANGED <<tokens, lastRefillTime, now, pc, frame, credited>>
    BY <2>1 DEF vars, shared, history
  <2> QED
    BY <1>0, <2>2, <2>3, <2>4, Elsewhere DEF RInv, Base, Room
<1>3. CASE ClampStore
  <2>1. /\ UNCHANGED <<config, lastRefillTime, now, pc, frame, credited>>
        /\ tokens' = update.cfg.MaxTokens
    BY <1>3 DEF ClampStore, history
  <2>2. update' = [pc |-> update'.pc, cfg |-> update.cfg, calls |-> update.calls]
    <3>1. update = [pc |-> update.pc, cfg |-> update.cfg, calls |-> update.calls]
      BY <1>0 DEF AllWithin
    <3> QED
      BY <1>3, <3>1 DEF ClampStore
  <2>3. AllWithin'
    BY <1>0, <2>1, <2>2 DEF AllWithin
  <2>4. update.cfg.MaxTokens \in Nat /\ update.cfg.MaxTokens <= Big.MaxTokens
    BY <1>0, ConfigFacts DEF AllWithin, Within
  <2>5. TypeOK'
    BY <1>0, <1>3, <2>4 DEF ClampStore, TypeOK, history
  <2>6. HeldTokens' = HeldTokens /\ CreditedOnce' /\ (\A p \in Procs : FrameInv(p))'
    BY <1>0, <2>1, Elsewhere
  <2>7. Room'
    <3>1. update.cfg.MaxTokens + Cardinality(HeldTokens)
            <= Big.MaxTokens + Cost(Dear) * Cardinality(Callers)
      BY <2>4, Extremes, HeldTokensFacts, SumMonotone
    <3> QED
      BY <2>1, <2>6, <3>1 DEF Room
  <2> QED
    BY <1>0, <2>1, <2>3, <2>5, <2>6, <2>7 DEF RInv, Base
<1>4. CASE SwapWindow
  <2>1. UNCHANGED <<config, tokens, lastRefillTime, now, pc, frame, credited>>
    BY <1>4 DEF SwapWindow, history
  <2>2. update' = [pc |-> update'.pc, cfg |-> update.cfg, calls |-> update.calls]
    <3>1. update = [pc |-> update.pc, cfg |-> update.cfg, calls |-> update.calls]
      BY <1>0 DEF AllWithin
    <3> QED
      BY <1>4, <3>1 DEF SwapWindow
  <2>3. AllWithin'
    BY <1>0, <2>1, <2>2 DEF AllWithin
  <2>4. update.cfg.SlidingWindow \in BOOLEAN
    BY <1>0, ConfigFacts DEF AllWithin, Within
  <2>5. TypeOK'
    BY <1>0, <1>4, <2>4 DEF SwapWindow, TypeOK, history
  <2> QED
    BY <1>0, <2>1, <2>3, <2>5, Elsewhere DEF RInv, Base, Room
<1> QED
  BY <1>1, <1>2, <1>3, <1>4

\* RInv is inductive.
LEMMA RInvStep == RInv /\ [ReconfigNext]_rvars => RInv'
<1> SUFFICES ASSUME RInv, [ReconfigNext]_rvars PROVE RInv'
  OBVIOUS
<1>1. CASE UNCHANGED rvars
  <2>1. [Next]_vars /\ UNCHANGED update
    BY <1>1 DEF rvars
  <2> QED
    BY <2>1, RInvGoroutines
<1>2. CASE Next /\ UNCHANGED update
  BY <1>2, RInvGoroutines
<1> QED
  BY <1>1, <1>2, RInvUpdate DEF ReconfigNext

\* No interval is claimed or credited twice although UpdateConfig changes the
\* interval's length under goroutines that are inside lazyRefill.
THEOREM ReconfigCreditedTheorem == ReconfigSpec => []CreditedOnce
<1>1. RInv => CreditedOnce
  BY DEF RInv
<1> QED
  BY <1>1, RInvInit, RInvStep, PTL DEF ReconfigSpec

\* UpdateConfig's load and store of the balance may fall anywhere between the
\* CASes of Allow and lazyRefill, and the goroutines may go on with any earlier
\* configuration: the balance stays within the largest capacity configured plus
\* one refund of the largest cost for each caller.
THEOREM ReconfigBalanceTheorem == ReconfigSpec => []ReconfigBalance
<1>1. ASSUME RInv PROVE ReconfigBalance
  <2>1. /\ tokens \in Nat /\ Big \in AllCfgs /\ Dear \in AllCfgs /\ Big.MaxTokens \in Nat
        /\ Cardinality(HeldTokens) \in Nat /\ Cost(Dear) * Cardinality(Callers) \in Nat
        /\ tokens + Cardinality(HeldTokens)
             <= Big.MaxTokens + Cost(Dear) * Cardinality(Callers)
    BY <1>1, Extremes, HeldTokensFacts DEF RInv, Base, TypeOK, Room
  <2>2. tokens <= Big.MaxTokens + Cost(Dear) * Cardinality(Callers)
    BY <2>1
  <2> QED
    BY <2>1, <2>2 DEF ReconfigBalance
<1> QED
  BY <1>1, RInvInit, RInvStep, PTL DEF ReconfigSpec
=============================================================================
