----------------------------- MODULE MCRegistry -----------------------------
(* Small instances of ClientRegistry for TLC.                              *)
EXTENDS ClientRegistry, TLC

CONSTANTS kA, kB, gold, free, r1, r2, a1, a2

Symmetry == Permutations(Requests) \cup Permutations(Admins) \cup Permutations(Keys)
=============================================================================
