----------------------------- MODULE Simulator ------------------------------
(***************************************************************************)
(* cmd/simulator against the client API (module Admission): a goroutine    *)
(* for each simulated client sends one request after the other, counts the *)
(* answers and puts its result into a channel, which main reads once all   *)
(* have finished.  A request may fail without reaching the server, or its  *)
(* answer may come too late, in which case its handler goes on alone.      *)
(*                                                                         *)
(* Other clients use the API at the same time.  Pauses between requests    *)
(* and latencies are left out; the burst and the timed loop are one loop   *)
(* that ends when its time is up, or the context's.                        *)
(***************************************************************************)
EXTENDS Admission, Sequences

CONSTANTS
    Clients,        \* the simulated clients
    Turns,          \* how many requests each of them sends at most; a bound, for TLC
    ClientKey,      \* APIKey of each profile
    Others          \* handlers of the requests of other clients

\* The handler of a client's i-th request.
ASSUME HandlersAssumption ==
    Handlers = (UNION {{c} \X (1 .. Turns[c]) : c \in Clients}) \cup Others
ASSUME TurnsAssumption == Turns \in [Clients -> Nat]
\* main numbers the keys of its profiles, and no other client uses one of them.
ASSUME ProfilesAssumption ==
    /\ ClientKey \in [Clients -> Keys]
    /\ \A c, d \in Clients : ClientKey[c] = ClientKey[d] => c = d
    /\ \A c \in Clients : Others \cap ({c} \X (1 .. Turns[c])) = {}
    /\ \A c \in Clients, req \in Requests :
        ~req.body /\ req.tierOK => ClientIdentity(req) # ClientKey[c]

VARIABLES
    sim,        \* each client: its goroutine's step, requests sent and clientResult
    results,    \* the channel
    report      \* main: "waiting", or the results it has read

simVars == <<sim, results, report>>
vars == <<serverVars, simVars>>

NoResult == [Allowed |-> 0, Rejected |-> 0, Errors |-> 0]

Init ==
    /\ ServerInit
    /\ sim = [c \in Clients |-> [at |-> "ready", sent |-> 0, res |-> NoResult]]
    /\ results = << >>
    /\ report = "waiting"
-----------------------------------------------------------------------------
\* The request doRequest sends.
Profile(c) ==
    [body |-> FALSE, apiKey |-> ClientKey[c], forwardedFor |-> Absent,
     remote |-> CHOOSE ip \in IPs : TRUE, tierOK |-> TRUE]

\* client.Do sends a request, and the server takes it.
DoRequest(c) ==
    /\ sim[c].at = "ready" /\ sim[c].sent < Turns[c]
    /\ sim' = [sim EXCEPT ![c].at = "await", ![c].sent = @ + 1]
    /\ HandleRequest(<<c, sim[c].sent + 1>>, Profile(c))
    /\ UNCHANGED <<results, report>>

\* client.Do returns the answer.
BugAnswer(c) ==                         \* counts what is not an error as allowed
    /\ sim[c].at = "await" /\ pc[<<c, sim[c].sent>>] = "done"
    /\ sim' = [sim EXCEPT ![c].at = "ready", ![c].res.Allowed = @ + 1]
    /\ UNCHANGED <<serverVars, results, report>>
Answer(c) ==
    /\ sim[c].at = "await" /\ pc[<<c, sim[c].sent>>] = "done"
    /\ LET ok == frame[<<c, sim[c].sent>>].status = 200 IN
       sim' = [sim EXCEPT ![c].at = "ready",
                          ![c].res.Allowed = IF ok THEN @ + 1 ELSE @,
                          ![c].res.Rejected = IF ok THEN @ ELSE @ + 1]
    /\ UNCHANGED <<serverVars, results, report>>

\* client.Do fails: the request is not sent, or the answer does not come in time.
DoError(c) ==
    /\ \/ /\ sim[c].at = "ready" /\ sim[c].sent < Turns[c]
          /\ sim' = [sim EXCEPT ![c].sent = @ + 1, ![c].res.Errors = @ + 1]
       \/ /\ sim[c].at = "await"
          /\ sim' = [sim EXCEPT ![c].at = "ready", ![c].res.Errors = @ + 1]
    /\ UNCHANGED <<serverVars, results, report>>

\* The channel has room for the result of every client.
BugCapacity == 1
Capacity == Cardinality(Clients)

\* runClient ends, at its deadline or the context's: out <- res.
Deliver(c) ==
    /\ sim[c].at = "ready" /\ Len(results) < Capacity
    /\ results' = Append(results, [client |-> c, res |-> sim[c].res])
    /\ sim' = [sim EXCEPT ![c].at = "done"]
    /\ UNCHANGED <<serverVars, report>>

\* main: wg.Wait returns, and the channel is closed and read.
Report ==
    /\ report = "waiting" /\ \A c \in Clients : sim[c].at = "done"
    /\ report' = "done"
    /\ UNCHANGED <<serverVars, sim, results>>

RunClient(c) == DoRequest(c) \/ Answer(c) \/ DoError(c) \/ Deliver(c)

\* Another client's request.
OtherRequest(h, req) == h \in Others /\ HandleRequest(h, req) /\ UNCHANGED simVars

Next ==
    \/ \E c \in Clients : RunClient(c)
    \/ Report
    \/ \E h \in Others, req \in Requests : OtherRequest(h, req)
    \/ ServerNext /\ UNCHANGED simVars

\* Goroutines go on; a client's loop is bounded by its duration.
Spec ==
    /\ Init /\ [][Next]_vars
    /\ \A c \in Clients : WF_vars(RunClient(c))
    /\ WF_vars(Report)
-----------------------------------------------------------------------------
\* The simulator's report against the server's own books, answers that came too
\* late and requests that were lost included: no allowed request is reported
\* that the client's bucket did not grant, what the bucket granted to a client
\* whose key no one else uses was reported as allowed or as an error, or is
\* still awaited, and every request sent is counted once.
ReportAgrees ==
    \A c \in Clients :
        LET res == sim[c].res
            awaited == IF sim[c].at = "await" THEN 1 ELSE 0
        IN /\ res.Allowed <= taken[ClientKey[c]]
           /\ taken[ClientKey[c]] <= res.Allowed + res.Errors + awaited
           /\ res.Allowed + res.Rejected + res.Errors + awaited = sim[c].sent
           /\ sim[c].at = "done" => \E i \in DOMAIN results :
                results[i] = [client |-> c, res |-> res]

\* runClient and main: the run ends with the result of every client, none of
\* them waiting for room in the channel that main reads only after all are done.
SimulationEnds == <>(report = "done" /\ {results[i].client : i \in DOMAIN results} = Clients)
=============================================================================
