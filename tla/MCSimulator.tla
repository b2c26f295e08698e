---------------------------- MODULE MCSimulator -----------------------------
(* Small instances of Simulator for TLC.                                   *)
EXTENDS Simulator

CONSTANTS s1, s2, k1, k2, k3, bad, ip1, h0

MCTurns == [c \in Clients |-> IF c = s1 THEN 2 ELSE 0]
MCHandlers == (UNION {{c} \X (1 .. Turns[c]) : c \in Clients}) \cup Others
MCClientKey == [c \in Clients |-> IF c = s1 THEN k1 ELSE k2]
MCMaxTokens == [b \in Buckets |-> IF b \in Keys THEN 1 ELSE 2]

Sends(body, apiKey, tierOK) ==
    [body |-> body, apiKey |-> apiKey, forwardedFor |-> Absent, remote |-> ip1, tierOK |-> tierOK]
\* A good request, and ones with a body, with a malformed key or tier, and without a key.
MCRequests ==
    {Sends(FALSE, k3, TRUE), Sends(TRUE, k3, TRUE), Sends(FALSE, bad, TRUE),
     Sends(FALSE, k3, FALSE), Sends(FALSE, Absent, TRUE)}
=============================================================================
