------------------------------ MODULE MCBucket ------------------------------
(* A small instance of Bucket for TLC.                                     *)
EXTENDS Bucket, TLC

CONSTANTS c1, c2, r1

\* A request costs more than one interval brings and the rate does not divide
\* it; the window is on, so refunds race refills.
MCCfg ==
    [MaxTokens |-> 3, RefillRate |-> 2, RefillInterval |-> 2,
     TokensPerRequest |-> 3, SlidingWindow |-> TRUE]

Symmetry == Permutations(Callers)
=============================================================================
