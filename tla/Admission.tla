----------------------------- MODULE Admission ------------------------------
(***************************************************************************)
(* A client request from handleRequest to its response: the checks of its  *)
(* identity, the three gates of store.Allow in their order, the audit      *)
(* record, the counter and the histogram of the metrics registry, and the  *)
(* fairness tracker.  Any number of handlers are under way at a time.      *)
(*                                                                         *)
(* A bucket's Allow is one step: module Bucket shows that it implements    *)
(* the atomic TokenBucket.  The maps that hold the buckets are in Gates    *)
(* and ClientRegistry; here no bucket is evicted, and a client has one     *)
(* tier.  The global limit, the IP limit and the fairness tracker are on.  *)
(* Latencies and the histogram's bounds are left out.                      *)
(***************************************************************************)
EXTENDS Integers, FiniteSets, FiniteSetsExt

CONSTANTS
    Handlers,       \* goroutines, one for each request
    Keys,           \* texts that ValidateAPIKey accepts
    IPs,            \* source addresses, none of which it accepts
    Requests,       \* what clients send: body, apiKey, forwardedFor, remote, tierOK
    Mode,           \* cfg.Security.IdentityMode
    TrustProxy,     \* cfg.Security.TrustProxyHeaders
    MaxTokens,      \* MaxTokens of each bucket
    Blockable,      \* the keys admins block, for TLC
    MaxRefills,     \* bound on the number of refills, for TLC
    Absent          \* a header that is not sent

Global == "__global__"
Buckets == {Global} \cup IPs \cup Keys
Labels == {"allow", "reject", "blocked"}

ASSUME ModeAssumption ==
    Mode \in {"ip", "api_key", "api_key_with_ip_fallback"} /\ TrustProxy \in BOOLEAN
ASSUME MaxAssumption == MaxTokens \in [Buckets -> Nat \ {0}] /\ MaxRefills \in Nat
\* The store keeps the buckets of the three gates apart.
ASSUME NamesAssumption ==
    /\ IsFiniteSet(Handlers) /\ IsFiniteSet(IPs) /\ IsFiniteSet(Keys)
    /\ IPs # {} /\ IPs \cap Keys = {} /\ Global \notin IPs \cup Keys
    /\ Blockable \subseteq Keys
ASSUME RequestsAssumption ==
    \A req \in Requests : req.remote \in IPs /\ req.forwardedFor \in IPs \cup {Absent}

VARIABLES
    tokens,         \* each bucket's balance
    refills,        \* number of refills so far
    blocked,        \* the keys that are blocked
    pc, frame,      \* each handler's progress; its ip, key, label, status
    audit,          \* number of audit records by kind
    requestsTotal,  \* Registry.RequestsTotal: label -> count, for the labels it has
    latencies,      \* Registry.RequestLatency: its count
    consumption,    \* fairness.Tracker: consumption, and
    virtualTime,    \*   virtualTime in units of 1/weight
    taken, refused  \* history: what each bucket granted and refused

store == <<tokens, refills, blocked, taken, refused>>
observers == <<audit, requestsTotal, latencies, consumption, virtualTime>>
serverVars == <<store, pc, frame, observers>>

NoFrame == [ip |-> Absent, key |-> Absent, label |-> "none", status |-> 0]
At(l) == {h \in Handlers : pc[h] = l}
Goto(h, l) == pc' = [pc EXCEPT ![h] = l]

ServerInit ==
    /\ tokens = MaxTokens /\ refills = 0 /\ blocked = {}
    /\ pc = [h \in Handlers |-> "idle"]
    /\ frame = [h \in Handlers |-> NoFrame]
    /\ audit = [anomaly |-> 0, reject |-> 0]
    /\ requestsTotal = << >> /\ latencies = 0
    /\ consumption = [k \in Keys |-> 0] /\ virtualTime = 0
    /\ taken = [b \in Buckets |-> 0] /\ refused = [b \in Buckets |-> 0]
-----------------------------------------------------------------------------
\* The address the request is accounted to; forwardedFor is the first hop of
\* X-Forwarded-For, or X-Real-IP.
SourceIP(req) ==
    IF TrustProxy /\ req.forwardedFor # Absent THEN req.forwardedFor ELSE req.remote

ClientIdentity(req) ==
    CASE Mode = "ip" -> SourceIP(req)
      [] Mode = "api_key" -> req.apiKey
      [] OTHER -> IF req.apiKey # Absent THEN req.apiKey ELSE SourceIP(req)

ValidateAPIKey(key) == key \in Keys

\* handleRequest up to the call of store.Allow: status 400, or the first gate.
HandleRequest(h, req) ==
    LET key == ClientIdentity(req)
        anomaly == ~req.body /\ key # Absent /\ ~ValidateAPIKey(key)
        ok == ~req.body /\ ValidateAPIKey(key) /\ req.tierOK
    IN /\ pc[h] = "idle"
       /\ Goto(h, IF ok THEN "global" ELSE "done")
       /\ frame' = [frame EXCEPT ![h] = IF ok THEN [@ EXCEPT !.ip = SourceIP(req), !.key = key]
                                        ELSE [@ EXCEPT !.status = 400]]
       /\ audit' = IF anomaly THEN [audit EXCEPT !.anomaly = @ + 1] ELSE audit
       /\ UNCHANGED <<store, requestsTotal, latencies, consumption, virtualTime>>

Decide(h, label) == Goto(h, "audit") /\ frame' = [frame EXCEPT ![h].label = label]

\* The Allow of bucket b for handler h, which goes on to the next gate, or has
\* its answer.
Allow(h, b, next) ==
    IF tokens[b] > 0 /\ b \notin blocked
    THEN /\ tokens' = [tokens EXCEPT ![b] = @ - 1]
         /\ taken' = [taken EXCEPT ![b] = @ + 1]
         /\ IF next = "allow" THEN Decide(h, "allow") ELSE Goto(h, next) /\ UNCHANGED frame
         /\ UNCHANGED refused
    ELSE /\ refused' = [refused EXCEPT ![b] = @ + 1]
         /\ Decide(h, "reject")
         /\ UNCHANGED <<tokens, taken>>

GlobalGate(h) ==
    /\ pc[h] = "global" /\ Allow(h, Global, "ip")
    /\ UNCHANGED <<refills, blocked, observers>>

BugIPGate(h) ==                         \* goes on to the client's gate when refused
    /\ pc[h] = "ip"
    /\ LET b == frame[h].ip IN
       IF tokens[b] > 0 THEN tokens' = [tokens EXCEPT ![b] = @ - 1]
                             /\ taken' = [taken EXCEPT ![b] = @ + 1] /\ UNCHANGED refused
       ELSE refused' = [refused EXCEPT ![b] = @ + 1] /\ UNCHANGED <<tokens, taken>>
    /\ Goto(h, "client")
    /\ UNCHANGED <<refills, blocked, observers, frame>>
IPGate(h) ==
    /\ pc[h] = "ip" /\ Allow(h, frame[h].ip, "client")
    /\ UNCHANGED <<refills, blocked, observers>>

\* IsBlocked, and then the client's bucket.
CheckBlocked(h) ==
    /\ pc[h] = "client"
    /\ IF frame[h].key \in blocked
       THEN /\ Decide(h, "blocked")
            /\ refused' = [refused EXCEPT ![frame[h].key] = @ + 1]
       ELSE Goto(h, "bucket") /\ UNCHANGED <<frame, refused>>
    /\ UNCHANGED <<tokens, refills, blocked, taken, observers>>

ClientGate(h) ==
    /\ pc[h] = "bucket" /\ Allow(h, frame[h].key, "allow")
    /\ UNCHANGED <<refills, blocked, observers>>

\* audit.RequestDecision logs every rejection (the sample it takes of allowed
\* requests is left out); then Counter.Inc looks for the label's value under the
\* read lock, and if it has none creates it under the write lock, after a second
\* look.
RequestDecision(h) ==
    /\ pc[h] = "audit"
    /\ audit' = IF frame[h].label # "allow" THEN [audit EXCEPT !.reject = @ + 1] ELSE audit
    /\ Goto(h, IF frame[h].label \in DOMAIN requestsTotal THEN "add" ELSE "create")
    /\ UNCHANGED <<store, frame, requestsTotal, latencies, consumption, virtualTime>>

Add(label) == requestsTotal' = [requestsTotal EXCEPT ![label] = @ + 1]
Create(label) ==
    requestsTotal' = [l \in DOMAIN requestsTotal \cup {label} |->
                        IF l = label THEN 1 ELSE requestsTotal[l]]

IncAdd(h) ==
    /\ pc[h] = "add"
    /\ Add(frame[h].label)
    /\ Goto(h, "finish")
    /\ UNCHANGED <<store, frame, audit, latencies, consumption, virtualTime>>

BugIncCreate(h) ==                      \* without the second look
    /\ pc[h] = "create"
    /\ Create(frame[h].label)
    /\ Goto(h, "finish")
    /\ UNCHANGED <<store, frame, audit, latencies, consumption, virtualTime>>
IncCreate(h) ==
    /\ pc[h] = "create"
    /\ IF frame[h].label \in DOMAIN requestsTotal THEN Add(frame[h].label)
       ELSE Create(frame[h].label)
    /\ Goto(h, "finish")
    /\ UNCHANGED <<store, frame, audit, latencies, consumption, virtualTime>>

\* Tracker.RecordConsumption; every client has the default weight.
RecordConsumption(key, n) ==
    /\ consumption' = [consumption EXCEPT ![key] = @ + n]
    /\ virtualTime' = virtualTime + n

\* Histogram.Observe, Tracker.RecordConsumption if the request was allowed, and
\* the response.  Each only adds to numbers under a mutex of its own, so they are
\* one step.
Finish(h) ==
    LET allowed == frame[h].label = "allow" IN
    /\ pc[h] = "finish"
    /\ latencies' = latencies + 1
    /\ RecordConsumption(frame[h].key, IF allowed THEN 1 ELSE 0)
    /\ frame' = [frame EXCEPT ![h].status = IF allowed THEN 200 ELSE 429]
    /\ Goto(h, "done")
    /\ UNCHANGED <<store, audit, requestsTotal>>

\* A refill and the admin's Block and Unblock.
Refill(b) ==
    /\ refills < MaxRefills /\ tokens[b] < MaxTokens[b]
    /\ refills' = refills + 1
    /\ tokens' = [tokens EXCEPT ![b] = MaxTokens[b]]
    /\ UNCHANGED <<blocked, taken, refused, pc, frame, observers>>
Block(k) ==
    /\ blocked' = blocked \cup {k}
    /\ UNCHANGED <<tokens, refills, taken, refused, pc, frame, observers>>
Unblock(k) ==
    /\ blocked' = blocked \ {k}
    /\ UNCHANGED <<tokens, refills, taken, refused, pc, frame, observers>>

Handle(h) ==
    \/ GlobalGate(h) \/ IPGate(h) \/ CheckBlocked(h) \/ ClientGate(h)
    \/ RequestDecision(h) \/ IncAdd(h) \/ IncCreate(h) \/ Finish(h)

ServerNext ==
    \/ \E h \in Handlers : Handle(h)
    \/ \E b \in Buckets : Refill(b)
    \/ \E k \in Blockable : Block(k) \/ Unblock(k)
-----------------------------------------------------------------------------
SumOver(f, S) == MapThenSumSet(LAMBDA x : f[x], S)
Labelled(label, steps) == {h \in Handlers : frame[h].label = label /\ pc[h] \in steps}
NotCounted == {"audit", "add", "create"}
Count(label) == IF label \in DOMAIN requestsTotal THEN requestsTotal[label] ELSE 0
Decided(label) == Count(label) + Cardinality(Labelled(label, NotCounted))

\* store.Allow has no refund between gates: each token that a gate takes belongs
\* to a request that then asked the next one, whatever that answered, so a
\* request is allowed only with a token of every gate, and one that a later gate
\* refuses has cost the earlier ones theirs.
GateLedger ==
    /\ taken[Global] = SumOver(taken, IPs) + SumOver(refused, IPs) + Cardinality(At("ip"))
    /\ SumOver(taken, IPs) = SumOver(taken, Keys) + SumOver(refused, Keys)
                         + Cardinality(At("client") \cup At("bucket"))

\* Counter.Inc, Histogram.Observe, RecordConsumption and the audit log lose and
\* invent nothing, whatever first uses of a label race: every decision is or will
\* be counted once under its label, every counted one is observed, the tracker
\* has what the clients' buckets granted, and each refusal leaves a record.
DecisionsCounted ==
    /\ Decided("allow") = SumOver(taken, Keys)
    /\ Decided("reject") + Decided("blocked") = SumOver(refused, Buckets)
    /\ SumOver(requestsTotal, DOMAIN requestsTotal) = latencies + Cardinality(At("finish"))
    /\ \A k \in Keys :
        taken[k] = consumption[k]
                   + Cardinality({h \in Labelled("allow", NotCounted \cup {"finish"}) :
                                    frame[h].key = k})
    /\ virtualTime = SumOver(consumption, Keys)
    /\ SumOver(refused, Buckets) = audit.reject
                               + Cardinality({h \in At("audit") : frame[h].label # "allow"})
=============================================================================
