---------------------------- MODULE TokenBucket ----------------------------
(***************************************************************************)
(* What a token bucket promises, with none of the concurrency of           *)
(* internal/bucket: a level of at most Capacity tokens plus refunds,       *)
(* credited with Rate tokens at most once per elapsed Interval, from which *)
(* a request first reserves Price tokens and then either keeps them (it is  *)
(* granted) or gives them back (the sliding window refused it).            *)
(*                                                                         *)
(* Module Bucket, whose actions are the single atomic loads, stores and    *)
(* compare-and-swaps of bucket.go, is shown to implement this module.      *)
(***************************************************************************)
EXTENDS Integers

CONSTANTS
    Capacity,   \* MaxTokens
    Rate,       \* RefillRate
    Interval,   \* RefillInterval; nothing is credited when it is not positive
    Price        \* TokensPerRequest

VARIABLES
    clock,      \* time since the bucket was created
    level,      \* tokens available
    credits,    \* refill intervals credited so far
    held,       \* reservations neither kept nor given back yet
    granted     \* tokens spent on granted requests

tbVars == <<clock, level, credits, held, granted>>

TBInit ==
    /\ clock = 0
    /\ level = Capacity
    /\ credits = 0
    /\ held = 0
    /\ granted = 0

\* Time passes.
TBTick ==
    /\ clock' = clock + 1
    /\ UNCHANGED <<level, credits, held, granted>>

\* k intervals are credited at once; no interval is credited before it has
\* elapsed, none twice, and what does not fit is lost.
TBCredit(k) ==
    /\ Interval > 0
    /\ (credits + k) * Interval <= clock
    /\ credits' = credits + k
    /\ level' = IF level + k * Rate > Capacity THEN Capacity ELSE level + k * Rate
    /\ UNCHANGED <<clock, held, granted>>

\* A request sets its tokens aside: only a covered one may.
TBReserve ==
    /\ level >= Price
    /\ level' = level - Price
    /\ held' = held + 1
    /\ UNCHANGED <<clock, credits, granted>>

\* The reserved tokens are spent.
TBCommit ==
    /\ held > 0
    /\ held' = held - 1
    /\ granted' = granted + Price
    /\ UNCHANGED <<clock, level, credits>>

\* The reserved tokens are returned in full, whatever the level is by now.
TBCancel ==
    /\ held > 0
    /\ held' = held - 1
    /\ level' = level + Price
    /\ UNCHANGED <<clock, credits, granted>>

TBNext ==
    \/ TBTick
    \/ \E k \in 1 .. clock : TBCredit(k)
    \/ TBReserve
    \/ TBCommit
    \/ TBCancel

TBSpec == TBInit /\ [][TBNext]_tbVars
=============================================================================
