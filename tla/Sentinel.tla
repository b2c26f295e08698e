----------------------------- MODULE Sentinel -------------------------------
(***************************************************************************)
(* cmd/sentinel: main reads and checks the configuration (module Config)   *)
(* and then runs the servers it asks for until a signal (Lifecycle).       *)
(***************************************************************************)
EXTENDS Config, Lifecycle

vars == <<configVars, lifeVars>>

Init == ConfigInit /\ LifeInit

\* The store takes TierDefaults, and the servers start.  What else the running
\* process does with its configuration is in the other modules, so the parser's
\* variables are cleared.
Launch ==
    /\ boot = "configured" /\ boot' = "started"
    /\ Start(cfg.scalars.metrics.enabled)
    /\ file' = << >> /\ stack' = << >> /\ tree' = << >> /\ cfg' = Nil

Next ==
    \/ ConfigNext /\ UNCHANGED lifeVars
    \/ Launch
    \/ LifeNext /\ UNCHANGED configVars

Spec == Init /\ [][Next]_vars /\ LifeFairness
=============================================================================
