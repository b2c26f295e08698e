------------------------------ MODULE MCGates ------------------------------
(* Small instances of Gates for TLC.                                       *)
EXTENDS Gates

CONSTANTS ip1, ip2, r1, r2, a1, a2
=============================================================================
