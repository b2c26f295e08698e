----------------------------- MODULE MCSentinel -----------------------------
(* A small instance of Sentinel for TLC.                                   *)
EXTENDS Sentinel

CONSTANTS c1, c2

MCTexts == {"0", "5", "false", "x"}

\* "0" is a number, a duration and a truth value.
MCParse ==
    [int      |-> [t \in MCTexts |-> CASE t = "0" -> 0 [] t = "5" -> 5 [] OTHER -> Nil],
     duration |-> [t \in MCTexts |-> IF t = "0" THEN 0 ELSE Nil],
     bool     |-> [t \in MCTexts |-> IF t \in {"0", "false"} THEN FALSE ELSE Nil],
     float    |-> [t \in MCTexts |-> CASE t = "0" -> 0 [] t = "5" -> 500 [] OTHER -> Nil],
     string   |-> [t \in MCTexts |-> t]]

Line(i, k, t) == [indent |-> i, key |-> k, text |-> t]

\* A default tier, a named tier and one that overrides the default; values out
\* of range and malformed ones; keys at the wrong indentation come about when
\* the lines between are missing.
MCLines ==
    {Line(0, "defaults", Section), Line(0, "tiers", Section), Line(0, "metrics", Section),
     Line(2, "gold", Section), Line(2, "default", Section), Line(2, "sliding_window", Section),
     Line(2, "enabled", "false"), Line(2, "max_tokens", "0"), Line(2, "max_tokens", "5"),
     Line(4, "max_tokens", "0"), Line(4, "max_tokens", "x")}
=============================================================================
