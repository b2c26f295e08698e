\* Two simulated clients, one of which may send a second request while the server
\* is still busy with its first, and another client.
CONSTANTS
    Absent = Absent
    s1 = s1
    s2 = s2
    k1 = k1
    k2 = k2
    k3 = k3
    bad = bad
    ip1 = ip1
    h0 = h0
    Clients = {s1, s2}
    Turns <- MCTurns
    Others = {h0}
    Keys = {k1, k2, k3}
    IPs = {ip1}
    Handlers <- MCHandlers
    ClientKey <- MCClientKey
    MaxTokens <- MCMaxTokens
    Requests <- MCRequests
    Mode = "api_key_with_ip_fallback"
    TrustProxy = TRUE
    Blockable = {k1}
    MaxRefills = 1
SPECIFICATION Spec
INVARIANTS GateLedger DecisionsCounted ReportAgrees
PROPERTIES SimulationEnds
\* Once the report is printed and every request answered, nothing happens.
CHECK_DEADLOCK FALSE
