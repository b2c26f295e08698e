--------------------------- MODULE BucketReconfig ---------------------------
(***************************************************************************)
(* Bucket.UpdateConfig running beside Allow and ScheduledRefill: a store   *)
(* of configPtr, a load and a separate store of tokens, and a store of     *)
(* windowPtr, while goroutines already inside the bucket go on with the    *)
(* configuration they loaded.                                              *)
(***************************************************************************)
EXTENDS Bucket

CONSTANTS
    NewCfgs,        \* what the bucket may be reconfigured to
    MaxUpdates      \* bound on the number of updates, for TLC

ASSUME NewCfgsAssumption == IsFiniteSet(NewCfgs) /\ NewCfgs \subseteq Configs
ASSUME MaxUpdatesAssumption == MaxUpdates \in Nat

VARIABLE update     \* UpdateConfig: its next operation, its cfg, calls so far

rvars == <<vars, update>>

ReconfigInit == Init /\ update = [pc |-> "idle", cfg |-> Cfg, calls |-> 0]

\* configPtr.Store.
UpdateConfig(cfg) ==
    /\ update.pc = "idle" /\ update.calls < MaxUpdates
    /\ config' = normalize(cfg)
    /\ update' = [pc |-> "clampLoad", cfg |-> config', calls |-> update.calls + 1]
    /\ UNCHANGED <<tokens, lastRefillTime, blocked, lastAccessTime, windowPtr,
                   now, pc, frame, ret, history>>

\* tokens.Load, and whether the balance is to be clamped.
ClampLoad ==
    /\ update.pc = "clampLoad"
    /\ update' = [update EXCEPT !.pc = IF tokens > update.cfg.MaxTokens
                                       THEN "clampStore" ELSE "swapWindow"]
    /\ UNCHANGED vars

\* tokens.Store, not a compare-and-swap.
ClampStore ==
    /\ update.pc = "clampStore"
    /\ tokens' = update.cfg.MaxTokens
    /\ update' = [update EXCEPT !.pc = "swapWindow"]
    /\ UNCHANGED <<config, lastRefillTime, blocked, lastAccessTime, windowPtr,
                   now, pc, frame, ret, history>>

\* windowPtr.Store of a new window, or of nil.
SwapWindow ==
    /\ update.pc = "swapWindow"
    /\ windowPtr' = update.cfg.SlidingWindow
    /\ update' = [update EXCEPT !.pc = "idle"]
    /\ UNCHANGED <<config, tokens, lastRefillTime, blocked, lastAccessTime,
                   now, pc, frame, ret, history>>

ReconfigNext ==
    \/ Next /\ UNCHANGED update
    \/ \E cfg \in NewCfgs : UpdateConfig(cfg)
    \/ ClampLoad \/ ClampStore \/ SwapWindow

ReconfigSpec == ReconfigInit /\ [][ReconfigNext]_rvars

\* Goroutines inside the bucket go on, as in FairSpec.
FairReconfigSpec == ReconfigSpec /\ Fairness
-----------------------------------------------------------------------------
AllCfgs == NewCfgs \cup {Cfg}

\* lazyRefill, the refund and the clamp with an old and a new configuration in
\* use at once: the balance never passes the largest capacity configured plus
\* one refund of the largest cost for each concurrent caller.
ReconfigBalance ==
    \E big, dear \in AllCfgs :
        tokens <= big.MaxTokens + Cost(dear) * Cardinality(Callers)
=============================================================================
