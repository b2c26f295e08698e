-------------------------- MODULE MCBucketReconfig --------------------------
(* A small instance of BucketReconfig for TLC.                             *)
EXTENDS BucketReconfig, TLC

CONSTANTS c1, r1

MCCfg ==
    [MaxTokens |-> 3, RefillRate |-> 3, RefillInterval |-> 2,
     TokensPerRequest |-> 1, SlidingWindow |-> FALSE]

\* A smaller bucket with a shorter interval and a window.
MCSmaller ==
    [MaxTokens |-> 1, RefillRate |-> 1, RefillInterval |-> 1,
     TokensPerRequest |-> 0, SlidingWindow |-> TRUE]

\* Refill turned off.
MCOff ==
    [MaxTokens |-> 2, RefillRate |-> 1, RefillInterval |-> 0,
     TokensPerRequest |-> 2, SlidingWindow |-> FALSE]

MCNewCfgs == {MCSmaller, MCOff}
=============================================================================
