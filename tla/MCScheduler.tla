---------------------------- MODULE MCScheduler ----------------------------
(* A small instance of Scheduler and its heap for TLC.                    *)
EXTENDS RefillHeap

CONSTANTS i1, i2, k1, k2
=============================================================================
