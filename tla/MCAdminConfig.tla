--------------------------- MODULE MCAdminConfig ---------------------------
(* Small instances of AdminConfig for TLC.                                 *)
EXTENDS AdminConfig, TLC

CONSTANTS a1, a2, u1, u2, o1, o2

\* Zero is a rate and an interval that turn refill off; 33 milliseconds wrap
\* around to one and are in range, 16 to a negative interval, which is not; the
\* default interval is not a whole number of milliseconds.
MCValues == [MaxTokens |-> {0, 2}, RefillRate |-> {0, 1}, RefillInterval |-> {0, 33, 16}]
MCDefault == [MaxTokens |-> 1, RefillRate |-> 2, RefillInterval |-> 3,
              TokensPerRequest |-> 0]
MCTokensRange == <<1, 4>>
MCRateRange == <<0, 4>>
MCIntervalRange == <<2, 8>>

Symmetry == Permutations(Admins) \cup Permutations(Users) \cup Permutations(Objects)
=============================================================================
