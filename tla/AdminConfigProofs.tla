------------------------- MODULE AdminConfigProofs -------------------------
(***************************************************************************)
(* The properties of AdminConfig for any number of admins, client requests,*)
(* objects and values, and any ranges.  InForceIsValid is not inductive: an*)
(* update is validated when it is merged and applied later, perhaps to an  *)
(* object that is in force no more, so what the handlers carry and what    *)
(* every object holds must be valid too (Carried).  While nothing has      *)
(* disturbed the updates every goroutine holds the client in the map, a    *)
(* request that is about to configure the defaults finds nothing else      *)
(* there, what the one handler under way has read is still in force (Alone)*)
(* and the audit records lead up to it (Chained).                          *)
(***************************************************************************)
EXTENDS AdminConfig, SequenceTheorems, TLAPS

\* The handler's checks of a merged configuration.
Valid(cfg) ==
    /\ ValidateBucketConfig(cfg)
    /\ InRange(cfg["RefillInterval"], <<MinRefillInterval, MaxRefillInterval>>)

Labels == {"idle", "read", "ensure", "apply", "audit", "test", "configure"}
Frames == [cb : Objects \cup {Nil}, patch : Patch, before : Configs, after : Configs]

\* What ensureTier and getOrCreateClient leave in a tier.
Fresh == {Nil, Normalize(Default)}

\* The inductive invariant: what any object holds and what is about to be
\* applied is valid, and a client is at hand wherever one is configured.
Carried ==
    /\ client \in Objects \cup {Nil}
    /\ tiers \in [Objects -> Configs \cup {Nil}]
    /\ unused \subseteq Objects
    /\ pc \in [Procs -> Labels]
    /\ frame \in [Procs -> Frames]
    /\ \A a \in Admins : pc[a] \notin {"test", "configure"}
    /\ \A u \in Users : pc[u] \in {"idle", "test", "configure"}
    /\ \A p \in Procs : pc[p] \in {"apply", "test", "configure"} => frame[p].cb # Nil
    /\ \A o \in Objects : tiers[o] \notin Fresh => Valid(tiers[o])
    /\ \A a \in Admins : pc[a] \in {"ensure", "apply"} => Valid(frame[a].after)

\* bucket.New's normalize keeps the fields that are validated.
LEMMA NormalizeKeeps ==
    ASSUME NEW cfg \in Configs
    PROVE  /\ Normalize(cfg) \in Configs
           /\ \A f \in Fields : Normalize(cfg)[f] = cfg[f]
BY DEF Normalize, Configs, Fields

\* Validity is about the fields of a request only.
LEMMA ValidFields ==
    ASSUME NEW c, NEW d, \A f \in Fields : c[f] = d[f], Valid(d)
    PROVE  Valid(c)
BY DEF Valid, ValidateBucketConfig, Fields

\* A wrapped integer is one.
LEMMA WrapType ==
    ASSUME NEW x \in Int
    PROVE  Wrap(x) \in Int
<1> DEFINE h == 2 ^ (Width - 1)
           m == 2 ^ Width
<1>1. h \in Nat /\ m \in Nat \ {0}
  BY PowerAssumption
<1> HIDE DEF h, m
<1>2. (x + h) % m \in Int
  BY <1>1
<1>3. ((x + h) % m) - h \in Int
  BY <1>1, <1>2
<1>4. QED
  BY <1>3 DEF Wrap, h, m

\* The merge gives a configuration, whether or not an interval wraps around.
LEMMA MergeType ==
    ASSUME NEW before \in Configs, NEW patch, \A f \in Fields : patch[f] \in Values[f] \cup {Nil}
    PROVE  Merge(before, patch) \in Configs
<1> DEFINE laid == [f \in DOMAIN before |->
        IF f \in Fields /\ patch[f] # Nil THEN Requested(patch, f) ELSE before[f]]
<1>1. DOMAIN before = Fields \cup {"TokensPerRequest"}
  BY DEF Configs
<1>2. ASSUME NEW f \in Fields, patch[f] # Nil PROVE Requested(patch, f) \in Int
  <2>1. patch[f] \in Int
    BY <1>2, ValuesAssumption
  <2>2. patch[f] * Millisecond \in Int
    BY <2>1, UnitAssumption
  <2>3. Wrap(patch[f] * Millisecond) \in Int
    BY <2>2, WrapType
  <2>4. QED
    BY <2>1, <2>3 DEF Requested
<1>3. \A f \in Fields \cup {"TokensPerRequest"} : before[f] \in Int
  BY DEF Configs
<1>4. laid \in Configs
  BY <1>1, <1>2, <1>3 DEF Configs
<1> HIDE DEF laid
<1>5. QED
  BY <1>4, NormalizeKeeps DEF Merge, laid

\* TierConfig is a configuration, whatever client it has looked up.
LEMMA TierConfigType ==
    ASSUME Carried, NEW cb \in Objects \cup {Nil}
    PROVE  TierConfig(cb) \in Configs
BY DefaultAssumption DEF Carried, TierConfig

\* What is in force is what the client's object holds, or the defaults.
LEMMA CarriedValid == Carried => InForceIsValid
BY DEF Carried, InForceIsValid, InForce, TierConfig, Valid, Fresh

\* A goroutine that moves on leaves the others where they are.
LEMMA Moves ==
    ASSUME Carried, NEW p \in Procs, NEW l, Goto(p, l)
    PROVE  pc'[p] = l /\ \A q \in Procs : q # p => pc'[q] = pc[q]
BY DEF Carried, Goto

\* So does one that returns, and it holds nothing any more.
LEMMA Returns ==
    ASSUME Carried, NEW p \in Procs, Return(p)
    PROVE  /\ pc'[p] = "idle" /\ frame'[p] = NoFrame
           /\ pc' \in [Procs -> Labels]
           /\ frame' \in [Procs -> Frames]
           /\ \A q \in Procs : q # p => pc'[q] = pc[q] /\ frame'[q] = frame[q]
<1>1. NoFrame \in Frames
  BY DefaultAssumption DEF NoFrame, Frames, Patch
<1>2. QED
  BY <1>1 DEF Carried, Return, Goto, Labels

\* getOrCreateClient hands out the client in the map; one that it has put there
\* holds the defaults at most.
LEMMA Gets ==
    ASSUME Carried, NEW p \in Procs, GetOrCreateClient(p)
    PROVE  /\ client' \in Objects /\ unused' \subseteq Objects
           /\ tiers' \in [Objects -> Configs \cup {Nil}]
           /\ frame' \in [Procs -> Frames]
           /\ client' # Nil /\ frame'[p].cb = client' /\ frame'[p].after = frame[p].after
           /\ frame'[p].patch = frame[p].patch /\ frame'[p].before = frame[p].before
           /\ \A q \in Procs : q # p => frame'[q] = frame[q]
           /\ client # Nil => UNCHANGED <<client, tiers>>
           /\ client = Nil => tiers'[client'] \in Fresh
           /\ \A o \in Objects : o # client' => tiers'[o] = tiers[o]
<1>1. CASE client # Nil
  <2>1. frame' = [frame EXCEPT ![p].cb = client] /\ UNCHANGED <<client, tiers, unused>>
    BY <1>1 DEF GetOrCreateClient
  <2>2. /\ client \in Objects /\ frame' \in [Procs -> Frames]
        /\ frame'[p] = [frame[p] EXCEPT !.cb = client]
        /\ \A q \in Procs : q # p => frame'[q] = frame[q]
    BY <1>1, <2>1 DEF Carried, Frames
  <2>3. frame[p] \in Frames
    BY DEF Carried
  <2>4. QED
    BY <1>1, <2>1, <2>2, <2>3 DEF Carried, Frames
<1>2. CASE client = Nil
  <2>1. PICK o \in unused :
            /\ client' = o /\ unused' = unused \ {o}
            /\ tiers' = [tiers EXCEPT ![o] = IF default THEN Normalize(Default) ELSE Nil]
            /\ frame' = [frame EXCEPT ![p].cb = o]
    BY <1>2 DEF GetOrCreateClient
  <2>2. Normalize(Default) \in Configs
    BY DefaultAssumption, NormalizeKeeps
  <2>3. o \in Objects
    BY <2>1 DEF Carried
  <2>4. tiers' \in [Objects -> Configs \cup {Nil}] /\ tiers'[o] \in Fresh
        /\ \A q \in Objects : q # o => tiers'[q] = tiers[q]
    BY <2>1, <2>2, <2>3 DEF Carried, Fresh
  <2>5. /\ frame' \in [Procs -> Frames] /\ frame'[p] = [frame[p] EXCEPT !.cb = o]
        /\ \A q \in Procs : q # p => frame'[q] = frame[q]
    BY <2>1, <2>3 DEF Carried, Frames
  <2>6. frame[p] \in Frames /\ o # Nil
    BY <2>3, NilAssumption DEF Carried
  <2>7. QED
    BY <1>2, <2>1, <2>3, <2>4, <2>5, <2>6 DEF Carried, Frames
<1>3. QED
  BY <1>1, <1>2

\* It keeps the invariant, whether an update or a request calls it.
LEMMA GetKeeps ==
    ASSUME Carried, NEW p \in Procs, GetOrCreateClient(p),
           pc' \in [Procs -> Labels], \A q \in Procs : q # p => pc'[q] = pc[q],
           p \in Admins => pc'[p] = "apply" /\ Valid(frame[p].after),
           p \in Users => pc'[p] = "test"
    PROVE  Carried'
<1>1. /\ \A a \in Admins : a \in Procs /\ a \notin Users
      /\ \A u \in Users : u \in Procs /\ u \notin Admins
  BY ProcsAssumption DEF Procs
<1>2. \A a \in Admins : pc'[a] \notin {"test", "configure"}
  BY <1>1 DEF Carried
<1>3. \A u \in Users : pc'[u] \in {"idle", "test", "configure"}
  BY <1>1 DEF Carried
<1>4. \A q \in Procs : pc'[q] \in {"apply", "test", "configure"} => frame'[q].cb # Nil
  BY Gets DEF Carried
<1>5. \A o \in Objects : tiers'[o] \notin Fresh => Valid(tiers'[o])
  BY Gets DEF Carried
<1>6. \A a \in Admins : pc'[a] \in {"ensure", "apply"} => Valid(frame'[a].after)
  BY <1>1, Gets DEF Carried
<1>7. client' \in Objects /\ unused' \subseteq Objects
      /\ tiers' \in [Objects -> Configs \cup {Nil}] /\ frame' \in [Procs -> Frames]
  BY Gets
<1>8. QED
  BY <1>2, <1>3, <1>4, <1>5, <1>6, <1>7 DEF Carried, Fresh, Valid, ValidateBucketConfig, InRange

\* ClientBuckets.Configure replaces one tier.
LEMMA Configures ==
    ASSUME Carried, NEW p \in Procs, frame[p].cb # Nil, NEW cfg \in Configs, Configure(p, cfg)
    PROVE  /\ frame[p].cb \in Objects
           /\ tiers' \in [Objects -> Configs \cup {Nil}]
           /\ tiers'[frame[p].cb] = Normalize(cfg)
           /\ \A o \in Objects : o # frame[p].cb => tiers'[o] = tiers[o]
<1>1. frame[p].cb \in Objects
  BY DEF Carried, Frames
<1>2. Normalize(cfg) \in Configs
  BY NormalizeKeeps
<1>3. QED
  BY <1>1, <1>2 DEF Carried, Configure

\* Each step of a handler, a request and an eviction keep the invariant.
LEMMA StepKeeps == Carried /\ [Next]_vars => Carried'
<1> SUFFICES ASSUME Carried, [Next]_vars PROVE Carried'
  OBVIOUS
<1>0. \A a \in Admins : a \in Procs /\ a \notin Users
  BY ProcsAssumption DEF Procs
<1>00. \A u \in Users : u \in Procs /\ u \notin Admins
  BY ProcsAssumption DEF Procs
<1>1. ASSUME NEW a \in Admins, HandleUpdateConfig(a) PROVE Carried'
  <2>1. /\ frame' = [frame EXCEPT ![a].cb = client] /\ pc' = [pc EXCEPT ![a] = "read"]
        /\ UNCHANGED <<client, tiers, unused>>
    BY <1>1 DEF HandleUpdateConfig, Goto, registry
  <2>2. /\ frame' \in [Procs -> Frames]
        /\ \A q \in Procs : q # a => frame'[q] = frame[q]
    BY <1>0, <2>1 DEF Carried, Frames
  <2>3. /\ pc'[a] = "read" /\ \A q \in Procs : q # a => pc'[q] = pc[q]
        /\ pc' \in [Procs -> Labels]
    BY <1>0, <2>1 DEF Carried, Labels
  <2>4. QED
    BY <1>0, <1>00, <2>1, <2>2, <2>3 DEF Carried, Fresh
<1>2. ASSUME NEW a \in Admins, NEW patch \in Patch, MergePatch(a, patch),
             \A f \in Fields : patch[f] \in Values[f] \cup {Nil}
      PROVE  Carried'
  <2> DEFINE before == TierConfig(frame[a].cb)
  <2>1. UNCHANGED <<client, tiers, unused>>
    BY <1>2 DEF MergePatch, registry
  <2>2. before \in Configs
    BY <1>0, TierConfigType DEF Carried, Frames
  <2>3. CASE Accepts(before, patch)
    <3>1. /\ pc' = [pc EXCEPT ![a] = "ensure"]
          /\ frame' = [frame EXCEPT ![a] = [cb |-> Nil, patch |-> patch, before |-> before,
                                            after |-> Merge(before, patch)]]
      BY <1>2, <2>3 DEF MergePatch, Goto
    <3>2. Merge(before, patch) \in Configs
      BY <1>2, <2>2, MergeType
    <3>3. Valid(Merge(before, patch))
      BY <2>3 DEF Accepts, Valid
    <3> HIDE DEF before
    <3>4. /\ frame' \in [Procs -> Frames] /\ frame'[a].after = Merge(before, patch)
          /\ \A q \in Procs : q # a => frame'[q] = frame[q]
      BY <1>0, <2>2, <3>1, <3>2 DEF Carried, Frames
    <3>5. /\ pc'[a] = "ensure" /\ \A q \in Procs : q # a => pc'[q] = pc[q]
          /\ pc' \in [Procs -> Labels]
      BY <1>0, <3>1 DEF Carried, Labels
    <3>6. \A b \in Admins : pc'[b] \in {"ensure", "apply"} => Valid(frame'[b].after)
      BY <1>0, <3>3, <3>4, <3>5 DEF Carried
    <3>7. QED
      BY <1>0, <1>00, <2>1, <3>4, <3>5, <3>6 DEF Carried, Fresh, Valid, ValidateBucketConfig, InRange
  <2>4. CASE ~Accepts(before, patch)
    <3>1. Return(a)
      BY <1>2, <2>4 DEF MergePatch
    <3>2. QED
      BY <1>0, <1>00, <2>1, <3>1, Returns DEF Carried, Fresh
  <2>5. QED
    BY <2>3, <2>4
<1>3. ASSUME NEW a \in Admins, EnsureClient(a) PROVE Carried'
  <2>1. GetOrCreateClient(a) /\ pc[a] = "ensure" /\ pc' = [pc EXCEPT ![a] = "apply"]
    BY <1>3 DEF EnsureClient, Goto
  <2>2. /\ pc'[a] = "apply" /\ \A q \in Procs : q # a => pc'[q] = pc[q]
        /\ pc' \in [Procs -> Labels]
    BY <1>0, <2>1 DEF Carried, Labels
  <2>3. Valid(frame[a].after)
    BY <2>1 DEF Carried
  <2>4. a \in Procs /\ a \notin Users
    BY <1>0
  <2>5. QED
    BY <2>1, <2>2, <2>3, <2>4, GetKeeps
<1>4. ASSUME NEW a \in Admins, UpdateClientConfig(a) PROVE Carried'
  <2>1. /\ Configure(a, frame[a].after) /\ pc[a] = "apply"
        /\ pc' = [pc EXCEPT ![a] = "audit"] /\ UNCHANGED <<client, unused, frame>>
    BY <1>4 DEF UpdateClientConfig, Goto
  <2>2. /\ frame[a].after \in Configs /\ Valid(frame[a].after) /\ frame[a].cb # Nil
    BY <1>0, <2>1 DEF Carried, Frames
  <2>3. Valid(Normalize(frame[a].after))
    BY <2>2, NormalizeKeeps, ValidFields
  <2>4. /\ tiers' \in [Objects -> Configs \cup {Nil}]
        /\ \A o \in Objects : tiers'[o] = tiers[o] \/ tiers'[o] = Normalize(frame[a].after)
    BY <1>0, <2>1, <2>2, Configures
  <2>5. /\ pc'[a] = "audit" /\ \A q \in Procs : q # a => pc'[q] = pc[q]
        /\ pc' \in [Procs -> Labels]
    BY <1>0, <2>1 DEF Carried, Labels
  <2>6. \A o \in Objects : tiers'[o] \notin Fresh => Valid(tiers'[o])
    BY <2>3, <2>4 DEF Carried
  <2>7. QED
    BY <1>0, <1>00, <2>1, <2>4, <2>5, <2>6 DEF Carried, Fresh, Valid, ValidateBucketConfig, InRange
<1>5. ASSUME NEW a \in Admins, AdminChange(a) PROVE Carried'
  <2>1. Return(a) /\ UNCHANGED <<client, tiers, unused>>
    BY <1>5 DEF AdminChange, registry
  <2>2. QED
    BY <1>0, <1>00, <2>1, Returns DEF Carried, Fresh
<1>6. ASSUME NEW u \in Users, Request(u) PROVE Carried'
  <2>1. GetOrCreateClient(u) /\ pc' = [pc EXCEPT ![u] = "test"]
    BY <1>6 DEF Request, Goto
  <2>2. /\ pc'[u] = "test" /\ \A q \in Procs : q # u => pc'[q] = pc[q]
        /\ pc' \in [Procs -> Labels]
    BY <1>00, <2>1 DEF Carried, Labels
  <2>3. u \in Procs /\ u \notin Admins
    BY <1>00
  <2>4. QED
    BY <2>1, <2>2, <2>3, GetKeeps
<1>7. ASSUME NEW u \in Users, TestTier(u) PROVE Carried'
  <2>1. pc[u] = "test" /\ UNCHANGED <<client, tiers, unused>>
    BY <1>7 DEF TestTier, registry
  <2>2. CASE Return(u)
    BY <1>0, <1>00, <2>1, <2>2, Returns DEF Carried, Fresh
  <2>3. CASE pc' = [pc EXCEPT ![u] = "configure"] /\ UNCHANGED frame
    <3>1. /\ pc'[u] = "configure" /\ \A q \in Procs : q # u => pc'[q] = pc[q]
          /\ pc' \in [Procs -> Labels]
      BY <1>00, <2>3 DEF Carried, Labels
    <3>2. QED
      BY <1>0, <1>00, <2>1, <2>3, <3>1 DEF Carried, Fresh
  <2>4. QED
    BY <1>7, <2>2, <2>3 DEF TestTier, Goto
<1>8. ASSUME NEW u \in Users, ConfigureTier(u) PROVE Carried'
  <2>1. /\ Configure(u, Default) /\ pc[u] = "configure" /\ Return(u)
        /\ UNCHANGED <<client, unused>>
    BY <1>8 DEF ConfigureTier
  <2>2. /\ tiers' \in [Objects -> Configs \cup {Nil}]
        /\ \A o \in Objects : tiers'[o] = tiers[o] \/ tiers'[o] \in Fresh
    BY <1>00, <2>1, Configures, DefaultAssumption DEF Carried, Fresh
  <2>3. QED
    BY <1>0, <1>00, <2>1, <2>2, Returns DEF Carried, Fresh
<1>9. CASE Evict
  BY <1>9 DEF Evict, Carried, Fresh
<1>10. CASE UNCHANGED vars
  BY <1>10 DEF vars, registry, Carried, Fresh
<1>11. QED
  BY <1>1, <1>2, <1>3, <1>4, <1>5, <1>6, <1>7, <1>8, <1>9, <1>10 DEF Next

\* Nothing is held or in force at the start.
LEMMA InitCarried == Init => Carried
<1>1. NoFrame \in Frames
  BY DefaultAssumption DEF NoFrame, Frames, Patch
<1>2. ASSUME Init PROVE \A p \in Procs : pc[p] = "idle"
  BY <1>2 DEF Init
<1>3. ASSUME Init PROVE /\ client = Nil /\ unused = Objects /\ tiers \in [Objects -> Configs \cup {Nil}]
                        /\ pc \in [Procs -> Labels] /\ frame \in [Procs -> Frames]
                        /\ \A o \in Objects : tiers[o] = Nil
  BY <1>1, <1>3 DEF Init, Labels
<1>4. QED
  BY <1>2, <1>3 DEF Carried, Fresh, Procs

\* handleUpdateConfig, ValidateBucketConfig: every configuration in force is the
\* tier's default or passes the validation and the configured limits, for any
\* number of overlapping updates, requests and evictions.
THEOREM InForceTheorem == Spec => []InForceIsValid
<1>1. QED
  BY InitCarried, StepKeeps, CarriedValid, PTL DEF Spec
-----------------------------------------------------------------------------
(* Updates that nothing disturbs.                                          *)

\* Two configurations that differ in TokensPerRequest at most.
Agree(c, d) == \A f \in Fields : c[f] = d[f]

\* The handlers carry what they merged, and the log is a sequence.
Merged ==
    /\ disturbed \in BOOLEAN
    /\ \A a \in Admins : pc[a] \in {"ensure", "apply"} =>
        frame[a].after = Merge(frame[a].before, frame[a].patch)
    /\ Len(log) \in Nat /\ log = [i \in 1 .. Len(log) |-> log[i]]

\* While nothing has disturbed the updates one handler at most is under way;
\* goroutines hold the client in the map; a request that is about to configure
\* the defaults replaces nothing but defaults; what the handler has read is in
\* force until it applies its merge, and the merge from then on.
Alone ==
    /\ \A a, b \in Admins : pc[a] # "idle" /\ pc[b] # "idle" => a = b
    /\ \A p \in Procs : pc[p] \in {"apply", "test", "configure"} => frame[p].cb = client
    /\ \A u \in Users : pc[u] = "configure" => tiers[client] \in Fresh
    /\ \A a \in Admins : pc[a] = "read" => Agree(TierConfig(frame[a].cb), InForce)
    /\ \A a \in Admins : pc[a] \in {"ensure", "apply"} => Agree(frame[a].before, InForce)
    /\ \A a \in Admins : pc[a] = "audit" => Agree(frame[a].after, InForce)

\* The latest record leads to what is in force, or, when an update is applied
\* and not recorded, to what that update has replaced.
Chained ==
    /\ \A i \in 1 .. Len(log) : i > 1 => log[i].before = log[i - 1].after
    /\ \A a \in Admins : pc[a] = "audit" /\ Len(log) > 0 =>
        log[Len(log)].after = Snapshot(frame[a].before)
    /\ (\A a \in Admins : pc[a] # "audit") /\ Len(log) > 0 =>
        log[Len(log)].after = Snapshot(InForce)

ChainInv == Carried /\ Merged /\ (~disturbed => Alone /\ Chained)

\* A snapshot shows the fields of a request only.
LEMMA SnapshotAgrees ==
    ASSUME NEW c, NEW d, Agree(c, d)
    PROVE  Snapshot(c) = Snapshot(d)
<1>1. Restrict(c, Fields) = Restrict(d, Fields)
  BY DEF Agree, Restrict
<1>2. QED
  BY <1>1 DEF Snapshot

\* A merge keeps the fields the request left out.
LEMMA MergeOmitted ==
    ASSUME NEW before \in Configs, NEW patch, NEW f \in Fields, patch[f] = Nil,
           Merge(before, patch) \in Configs
    PROVE  Merge(before, patch)[f] = before[f]
<1> DEFINE laid == [g \in DOMAIN before |->
        IF g \in Fields /\ patch[g] # Nil THEN Requested(patch, g) ELSE before[g]]
<1>1. DOMAIN before = Fields \cup {"TokensPerRequest"} /\ f # "TokensPerRequest"
  BY DEF Configs, Fields
<1>2. DOMAIN laid = DOMAIN before /\ laid[f] = before[f]
  BY <1>1
<1>3. Merge(before, patch) = Normalize(laid)
  BY DEF Merge
<1> HIDE DEF laid
<1>4. Normalize(laid)[f] = laid[f]
  BY <1>1, <1>2 DEF Normalize
<1>5. QED
  BY <1>2, <1>3, <1>4

\* A record appended to the log.
LEMMA LogGrows ==
    ASSUME Len(log) \in Nat, log = [i \in 1 .. Len(log) |-> log[i]], NEW r
    PROVE  /\ Len(Append(log, r)) = Len(log) + 1
           /\ Append(log, r) = [i \in 1 .. Len(log) + 1 |-> Append(log, r)[i]]
           /\ Append(log, r)[Len(log) + 1] = r
           /\ \A i \in 1 .. Len(log) : Append(log, r)[i] = log[i]
<1> DEFINE S == {log[i] : i \in 1 .. Len(log)} \cup {r}
<1>1. log \in [1 .. Len(log) -> S]
  OBVIOUS
<1>2. r \in S
  OBVIOUS
<1> HIDE DEF S
<1>3. log \in Seq(S)
  BY <1>1, SeqDef
<1>4. /\ Append(log, r) \in Seq(S) /\ Len(Append(log, r)) = Len(log) + 1
      /\ Append(log, r)[Len(log) + 1] = r
      /\ \A i \in 1 .. Len(log) : Append(log, r)[i] = log[i]
  BY <1>2, <1>3, AppendProperties
<1>5. ASSUME NEW q \in Seq(S) PROVE q = [i \in 1 .. Len(q) |-> q[i]]
  <2>1. q \in [1 .. Len(q) -> S]
    BY LenProperties
  <2>2. QED
    BY <2>1
<1>6. QED
  BY <1>4, <1>5

\* The processes are admins or users.
LEMMA Kinds == /\ \A a \in Admins : a \in Procs /\ a \notin Users
               /\ \A u \in Users : u \in Procs /\ u \notin Admins
BY ProcsAssumption DEF Procs

\* The defaults, normalised or not, agree.
LEMMA FreshAgrees ==
    ASSUME NEW c, c \in Fresh, NEW d, d = IF c # Nil THEN c ELSE Default
    PROVE  Agree(d, Default)
BY DefaultAssumption, NormalizeKeeps DEF Agree, Fresh

\* A step that writes no record and after which what is in force agrees with
\* what was keeps the chain.
LEMMA QuietChained ==
    ASSUME Chained, Agree(InForce', InForce), log' = log,
           \A a \in Admins : pc'[a] = "audit" <=> pc[a] = "audit",
           \A a \in Admins : pc[a] = "audit" => frame'[a].before = frame[a].before
    PROVE  Chained'
<1>1. Snapshot(InForce') = Snapshot(InForce)
  BY SnapshotAgrees
<1>2. Snapshot(InForce)' = Snapshot(InForce)
  BY <1>1 DEF Snapshot
<1>3. \A a \in Admins : pc[a] = "audit" => Snapshot(frame[a].before)' = Snapshot(frame[a].before)
  BY DEF Snapshot
<1>4. QED
  BY <1>2, <1>3 DEF Chained

\* handleUpdateConfig looks the client up.
LEMMA ChainHandle ==
    ASSUME ChainInv, Carried', NEW a \in Admins, HandleUpdateConfig(a)
    PROVE  ChainInv'
<1>1. /\ UNCHANGED <<client, tiers, log>> /\ pc[a] = "idle"
      /\ disturbed' = (disturbed \/ \E b \in Admins : pc[b] # "idle")
      /\ frame' = [frame EXCEPT ![a].cb = client] /\ pc' = [pc EXCEPT ![a] = "read"]
  BY DEF HandleUpdateConfig, Goto, registry
<1>2. /\ pc'[a] = "read" /\ frame'[a].cb = client
      /\ \A q \in Procs : q # a => pc'[q] = pc[q] /\ frame'[q] = frame[q]
  BY <1>1, Kinds DEF ChainInv, Carried, Frames
<1>3. InForce' = InForce /\ TierConfig(frame[a].cb)' = InForce
  BY <1>1, <1>2 DEF InForce, TierConfig
<1>4. Merged'
  BY <1>1, <1>2, Kinds DEF ChainInv, Merged
<1>5. ASSUME ~disturbed' PROVE Alone' /\ Chained'
  <2>1. ~disturbed /\ \A b \in Admins : pc[b] = "idle"
    BY <1>1, <1>5
  <2>2. Alone'
    BY <1>1, <1>2, <1>3, <2>1, Kinds DEF ChainInv, Alone, Agree, Fresh
  <2>3. Agree(InForce', InForce)
    BY <1>3 DEF Agree
  <2>4. Chained'
    BY <1>1, <1>2, <2>1, <2>3, Kinds, QuietChained DEF ChainInv
  <2>5. QED
    BY <2>2, <2>4
<1>6. QED
  BY <1>4, <1>5 DEF ChainInv

\* handleUpdateConfig from TierConfig's reading to the validation.
LEMMA ChainMerge ==
    ASSUME ChainInv, Carried', NEW a \in Admins, NEW patch, MergePatch(a, patch)
    PROVE  ChainInv'
<1> DEFINE before == TierConfig(frame[a].cb)
<1>1. UNCHANGED <<client, tiers, log, disturbed>> /\ pc[a] = "read"
  BY DEF MergePatch, registry
<1>2. InForce' = InForce /\ Agree(InForce', InForce)
  BY <1>1 DEF InForce, TierConfig, Agree
<1>3. CASE Accepts(before, patch)
  <2>1. /\ pc' = [pc EXCEPT ![a] = "ensure"]
        /\ frame' = [frame EXCEPT ![a] = [cb |-> Nil, patch |-> patch, before |-> before,
                                          after |-> Merge(before, patch)]]
    BY <1>3 DEF MergePatch, Goto
  <2> HIDE DEF before
  <2>2. /\ pc'[a] = "ensure" /\ frame'[a].before = before /\ frame'[a].patch = patch
        /\ frame'[a].after = Merge(before, patch)
        /\ \A q \in Procs : q # a => pc'[q] = pc[q] /\ frame'[q] = frame[q]
    BY <2>1, Kinds DEF ChainInv, Carried
  <2>3. Merged'
    BY <1>1, <2>2, Kinds DEF ChainInv, Merged
  <2>4. ASSUME ~disturbed PROVE Alone' /\ Chained'
    <3>1. \A b \in Admins : b # a => pc'[b] = "idle"
      BY <1>1, <2>2, <2>4, Kinds DEF ChainInv, Alone
    <3>2. Agree(before, InForce)
      BY <1>1, <2>4 DEF ChainInv, Alone, before
    <3>3. Alone'
      BY <1>1, <1>2, <2>2, <2>4, <3>1, <3>2, Kinds DEF ChainInv, Alone, Agree, Fresh
    <3>4. Chained'
      BY <1>1, <1>2, <2>2, <2>4, Kinds, QuietChained DEF ChainInv
    <3>5. QED
      BY <3>3, <3>4
  <2>5. QED
    BY <1>1, <2>3, <2>4 DEF ChainInv
<1>4. CASE ~Accepts(before, patch)
  <2>1. Return(a)
    BY <1>4 DEF MergePatch
  <2>2. /\ pc'[a] = "idle" /\ \A q \in Procs : q # a => pc'[q] = pc[q] /\ frame'[q] = frame[q]
    BY <2>1, Kinds, Returns DEF ChainInv
  <2>3. Merged'
    BY <1>1, <2>2, Kinds DEF ChainInv, Merged
  <2>4. ASSUME ~disturbed PROVE Alone' /\ Chained'
    <3>1. \A b \in Admins : pc'[b] = "idle"
      BY <1>1, <2>2, <2>4, Kinds DEF ChainInv, Alone
    <3>2. Alone'
      BY <1>1, <1>2, <2>2, <2>4, <3>1, Kinds DEF ChainInv, Alone, Agree, Fresh
    <3>3. Chained'
      BY <1>1, <1>2, <2>2, <2>4, <3>1, Kinds, QuietChained DEF ChainInv
    <3>4. QED
      BY <3>2, <3>3
  <2>5. QED
    BY <1>1, <2>3, <2>4 DEF ChainInv
<1>5. QED
  BY <1>3, <1>4

\* getOrCreateClient, called by an update or a request: what it puts in force is
\* what the updates took to be in force.
LEMMA ChainGet ==
    ASSUME ChainInv, Carried', NEW p \in Procs, GetOrCreateClient(p),
           \A q \in Procs : q # p => pc'[q] = pc[q],
           p \in Admins => pc[p] = "ensure" /\ pc'[p] = "apply",
           p \in Users => pc'[p] = "test",
           UNCHANGED <<log, disturbed>>
    PROVE  ChainInv'
<1> USE DEF ChainInv
<1>1. Agree(InForce', InForce)
  <2>1. CASE client # Nil
    BY <2>1, Gets DEF InForce, TierConfig, Agree
  <2>2. CASE client = Nil
    <3>1. InForce = Default /\ client' # Nil /\ tiers'[client'] \in Fresh
      BY <2>2, Gets DEF InForce, TierConfig
    <3>2. InForce' = IF tiers'[client'] # Nil THEN tiers'[client'] ELSE Default
      BY <3>1 DEF InForce, TierConfig
    <3>3. QED
      BY <3>1, <3>2, FreshAgrees
  <2>3. QED
    BY <2>1, <2>2
<1>2. /\ frame'[p].cb = client' /\ frame'[p].after = frame[p].after
      /\ frame'[p].patch = frame[p].patch /\ frame'[p].before = frame[p].before
      /\ \A q \in Procs : q # p => frame'[q] = frame[q]
  BY Gets
<1>3. Merged'
  BY <1>2, Kinds DEF Merged
<1>4. ASSUME ~disturbed PROVE Alone' /\ Chained'
  <2>1. Alone
    BY <1>4
  <2>2. \A q \in Procs : q # p /\ pc[q] \in {"apply", "test", "configure"} =>
            client # Nil /\ frame[q].cb = client /\ UNCHANGED <<client, tiers>>
    BY <2>1, Gets DEF Alone, Carried
  <2>3. \A a, b \in Admins : pc'[a] # "idle" /\ pc'[b] # "idle" => a = b
    BY <2>1, Kinds DEF Alone
  <2>4. \A q \in Procs : pc'[q] \in {"apply", "test", "configure"} => frame'[q].cb = client'
    BY <1>2, <2>2
  <2>5. \A u \in Users : pc'[u] = "configure" => tiers'[client'] \in Fresh
    BY <2>1, <2>2, Kinds DEF Alone
  <2>6. ASSUME NEW a \in Admins, pc'[a] = "read" PROVE Agree(TierConfig(frame[a].cb)', InForce')
    <3>1. pc[a] = "read" /\ frame'[a] = frame[a] /\ Agree(TierConfig(frame[a].cb), InForce)
      BY <1>2, <2>1, <2>6, Kinds DEF Alone
    <3>2. CASE frame[a].cb = client'
      BY <3>1, <3>2 DEF InForce, TierConfig, Agree
    <3>3. CASE frame[a].cb # client'
      <4>1. frame[a].cb \in Objects \cup {Nil}
        BY Kinds DEF Carried, Frames
      <4>2. TierConfig(frame[a].cb)' = TierConfig(frame[a].cb)
        BY <3>1, <3>3, <4>1, Gets DEF TierConfig
      <4>3. QED
        BY <1>1, <3>1, <4>2 DEF Agree
    <3>4. QED
      BY <3>2, <3>3
  <2>7. \A a \in Admins : pc'[a] \in {"ensure", "apply"} => Agree(frame'[a].before, InForce')
    BY <1>1, <1>2, <2>1, Kinds DEF Alone, Agree
  <2>8. \A a \in Admins : pc'[a] = "audit" => Agree(frame'[a].after, InForce')
    BY <1>1, <1>2, <2>1, Kinds DEF Alone, Agree
  <2>9. Alone'
    BY <2>3, <2>4, <2>5, <2>6, <2>7, <2>8 DEF Alone, Agree, Fresh
  <2>10. Chained'
    BY <1>1, <1>2, <1>4, Kinds, QuietChained
  <2>11. QED
    BY <2>9, <2>10
<1>5. QED
  BY <1>3, <1>4

\* UpdateClientConfig, once it has the client.
LEMMA ChainUpdate ==
    ASSUME ChainInv, Carried', NEW a \in Admins, UpdateClientConfig(a)
    PROVE  ChainInv'
<1>1. /\ Configure(a, frame[a].after) /\ pc[a] = "apply"
      /\ pc' = [pc EXCEPT ![a] = "audit"] /\ UNCHANGED <<client, frame, log>>
      /\ disturbed' = (disturbed \/ \E u \in Users : pc[u] = "configure")
  BY DEF UpdateClientConfig, Goto
<1>2. pc'[a] = "audit" /\ \A q \in Procs : q # a => pc'[q] = pc[q]
  BY <1>1, Kinds DEF ChainInv, Carried
<1>3. frame[a].after \in Configs /\ frame[a].cb # Nil
  BY <1>1, Kinds DEF ChainInv, Carried, Frames
<1>4. Normalize(frame[a].after) \in Configs /\ Agree(Normalize(frame[a].after), frame[a].after)
  BY <1>3, NormalizeKeeps DEF Agree
<1>5. Merged'
  BY <1>1, <1>2, Kinds DEF ChainInv, Merged
<1>6. ASSUME ~disturbed' PROVE Alone' /\ Chained'
  <2>1. ~disturbed /\ \A u \in Users : pc[u] # "configure"
    BY <1>1, <1>6
  <2>2. \A b \in Admins : b # a => pc[b] = "idle" /\ pc'[b] = "idle"
    BY <1>1, <1>2, <2>1, Kinds DEF ChainInv, Alone
  <2>3. InForce' = Normalize(frame[a].after)
    <3>1. frame[a].cb = client
      BY <1>1, <2>1, Kinds DEF ChainInv, Alone
    <3>2. tiers'[client] = Normalize(frame[a].after)
      BY <1>1, <1>3, <3>1, Kinds, Configures DEF ChainInv
    <3>3. QED
      BY <1>1, <1>3, <1>4, <3>1, <3>2, NilAssumption DEF InForce, TierConfig
  <2>4. \A q \in Procs : pc'[q] \in {"apply", "test", "configure"} => frame'[q].cb = client'
    BY <1>1, <1>2, <2>1 DEF ChainInv, Alone
  <2>5. \A u \in Users : pc'[u] # "configure"
    BY <1>2, <2>1, Kinds
  <2>6. Alone'
    BY <1>1, <1>2, <1>4, <2>2, <2>3, <2>4, <2>5 DEF Alone, Agree
  <2>7. Len(log) > 0 => log[Len(log)].after = Snapshot(frame[a].before)
    <3>1. Snapshot(frame[a].before) = Snapshot(InForce)
      BY <1>1, <2>1, SnapshotAgrees DEF ChainInv, Alone
    <3>2. \A b \in Admins : pc[b] # "audit"
      BY <1>1, <2>2
    <3>3. QED
      BY <2>1, <3>1, <3>2 DEF ChainInv, Chained
  <2>8. Chained'
    BY <1>1, <1>2, <2>1, <2>2, <2>7 DEF ChainInv, Chained, Snapshot
  <2>9. QED
    BY <2>6, <2>8
<1>7. QED
  BY <1>5, <1>6 DEF ChainInv

\* AdminChange.
LEMMA ChainAudit ==
    ASSUME ChainInv, Carried', NEW a \in Admins, AdminChange(a)
    PROVE  ChainInv'
<1> DEFINE r == [before |-> Snapshot(frame[a].before), after |-> Snapshot(frame[a].after)]
<1>1. /\ UNCHANGED <<client, tiers, disturbed>> /\ pc[a] = "audit"
      /\ log' = Append(log, r) /\ Return(a)
  BY DEF AdminChange, registry
<1>2. /\ pc'[a] = "idle"
      /\ \A b \in Procs : b # a => pc'[b] = pc[b] /\ frame'[b] = frame[b]
  BY <1>1, Kinds, Returns DEF ChainInv
<1>3. InForce' = InForce
  BY <1>1 DEF InForce, TierConfig
<1>4. r.before = Snapshot(frame[a].before) /\ r.after = Snapshot(frame[a].after)
  OBVIOUS
<1>5. Len(log) \in Nat /\ log = [i \in 1 .. Len(log) |-> log[i]]
  BY DEF ChainInv, Merged
<1> HIDE DEF r
<1>6. /\ Len(log') = Len(log) + 1 /\ log' = [i \in 1 .. Len(log) + 1 |-> log'[i]]
      /\ log'[Len(log) + 1] = r /\ \A i \in 1 .. Len(log) : log'[i] = log[i]
  BY <1>1, <1>5, LogGrows
<1>7. Merged'
  <2>1. Len(log') \in Nat /\ log' = [i \in 1 .. Len(log') |-> log'[i]]
    BY <1>5, <1>6
  <2>2. QED
    BY <1>1, <1>2, <2>1, Kinds DEF ChainInv, Merged
<1>8. ASSUME ~disturbed PROVE Alone' /\ Chained'
  <2>1. \A b \in Admins : b # a => pc[b] = "idle"
    BY <1>1, <1>8 DEF ChainInv, Alone
  <2>2. \A b \in Admins : pc'[b] = "idle"
    BY <1>2, <2>1, Kinds
  <2>3. Alone'
    BY <1>1, <1>2, <1>8, <2>2, Kinds DEF ChainInv, Alone, Fresh
  <2>4. log'[Len(log')].after = Snapshot(InForce)
    <3>1. Snapshot(frame[a].after) = Snapshot(InForce)
      BY <1>1, <1>8, SnapshotAgrees DEF ChainInv, Alone
    <3>2. QED
      BY <1>4, <1>6, <3>1
  <2>5. Snapshot(InForce)' = Snapshot(InForce)
    BY <1>3 DEF Snapshot
  <2>6. ASSUME NEW i \in 1 .. Len(log'), i > 1 PROVE log'[i].before = log'[i - 1].after
    <3>1. CASE i \in 1 .. Len(log)
      <4>1. i - 1 \in 1 .. Len(log)
        BY <1>5, <2>6, <3>1
      <4>2. QED
        BY <1>6, <1>8, <2>6, <3>1, <4>1 DEF ChainInv, Chained
    <3>2. CASE i = Len(log) + 1
      <4>1. Len(log) \in 1 .. Len(log) /\ Len(log) > 0 /\ i - 1 = Len(log)
        BY <1>5, <2>6, <3>2
      <4>2. log[Len(log)].after = Snapshot(frame[a].before)
        BY <1>1, <1>8, <4>1 DEF ChainInv, Chained
      <4>3. QED
        BY <1>4, <1>6, <3>2, <4>1, <4>2
    <3>3. i \in 1 .. Len(log) \/ i = Len(log) + 1
      BY <1>5, <1>6
    <3>4. QED
      BY <3>1, <3>2, <3>3
  <2>7. Chained'
    BY <2>2, <2>4, <2>5, <2>6 DEF Chained
  <2>8. QED
    BY <2>3, <2>7
<1>9. QED
  BY <1>1, <1>7, <1>8 DEF ChainInv

\* ensureTier's test.
LEMMA ChainTest ==
    ASSUME ChainInv, Carried', NEW u \in Users, TestTier(u)
    PROVE  ChainInv'
<1>1. UNCHANGED <<client, tiers, log, disturbed>> /\ pc[u] = "test" /\ u \in Procs /\ u \notin Admins
  BY Kinds DEF TestTier, registry
<1>2. InForce' = InForce /\ Agree(InForce', InForce)
  BY <1>1 DEF InForce, TierConfig, Agree
<1>3. /\ \A q \in Procs : q # u => pc'[q] = pc[q] /\ frame'[q] = frame[q]
      /\ \/ pc'[u] = "idle"
         \/ pc'[u] = "configure" /\ frame'[u] = frame[u] /\ tiers[frame[u].cb] = Nil
  <2>1. CASE Return(u)
    BY <1>1, <2>1, Returns DEF ChainInv
  <2>2. CASE Goto(u, "configure") /\ UNCHANGED frame /\ tiers[frame[u].cb] = Nil
    BY <1>1, <2>2, Moves DEF ChainInv
  <2>3. QED
    BY <2>1, <2>2 DEF TestTier
<1>4. \A a \in Admins : pc'[a] = pc[a] /\ frame'[a] = frame[a]
  BY <1>1, <1>3, Kinds
<1>5. Merged'
  BY <1>1, <1>4 DEF ChainInv, Merged
<1>6. ASSUME ~disturbed PROVE Alone' /\ Chained'
  <2>1. Alone
    BY <1>6 DEF ChainInv
  <2>2. \A q \in Procs : pc'[q] \in {"apply", "test", "configure"} => frame'[q].cb = client'
    BY <1>1, <1>3, <2>1 DEF Alone
  <2>3. \A v \in Users : pc'[v] = "configure" => tiers'[client'] \in Fresh
    BY <1>1, <1>3, <2>1, Kinds DEF Alone, Fresh
  <2>4. \A a \in Admins : pc[a] = "read" => TierConfig(frame[a].cb)' = TierConfig(frame[a].cb)
    BY <1>1, <1>4 DEF TierConfig
  <2>5. Alone'
    BY <1>1, <1>2, <1>4, <2>1, <2>2, <2>3, <2>4 DEF Alone, Agree, Fresh
  <2>6. Chained'
    BY <1>1, <1>2, <1>4, <1>6, QuietChained DEF ChainInv
  <2>7. QED
    BY <2>5, <2>6
<1>7. QED
  BY <1>1, <1>5, <1>6 DEF ChainInv

\* ensureTier's Configure puts in force what the updates took to be in force.
LEMMA ChainConfigure ==
    ASSUME ChainInv, Carried', NEW u \in Users, ConfigureTier(u)
    PROVE  ChainInv'
<1>1. /\ Configure(u, Default) /\ Return(u) /\ UNCHANGED <<client, log, disturbed>>
      /\ pc[u] = "configure" /\ u \in Procs /\ u \notin Admins
  BY Kinds DEF ConfigureTier
<1>2. /\ pc'[u] = "idle" /\ \A q \in Procs : q # u => pc'[q] = pc[q] /\ frame'[q] = frame[q]
  BY <1>1, Returns DEF ChainInv
<1>3. \A a \in Admins : pc'[a] = pc[a] /\ frame'[a] = frame[a]
  BY <1>1, <1>2, Kinds
<1>4. frame[u].cb # Nil
  BY <1>1 DEF ChainInv, Carried
<1>5. /\ frame[u].cb \in Objects /\ tiers'[frame[u].cb] = Normalize(Default)
      /\ \A o \in Objects : o # frame[u].cb => tiers'[o] = tiers[o]
  BY <1>1, <1>4, Configures, DefaultAssumption DEF ChainInv
<1>6. Merged'
  BY <1>1, <1>3 DEF ChainInv, Merged
<1>7. ASSUME ~disturbed PROVE Alone' /\ Chained'
  <2>1. Alone /\ frame[u].cb = client /\ tiers[client] \in Fresh
    BY <1>1, <1>7 DEF ChainInv, Alone
  <2>2. /\ Agree(InForce, Default) /\ Agree(InForce', Default)
    <3>1. InForce = IF tiers[client] # Nil THEN tiers[client] ELSE Default
      BY <1>4, <2>1 DEF InForce, TierConfig
    <3>2. tiers'[client'] \in Fresh
      BY <1>1, <1>5, <2>1 DEF Fresh
    <3>3. InForce' = IF tiers'[client'] # Nil THEN tiers'[client'] ELSE Default
      BY <1>1, <1>4, <2>1 DEF InForce, TierConfig
    <3>4. QED
      BY <2>1, <3>1, <3>2, <3>3, FreshAgrees
  <2>3. Agree(InForce', InForce)
    BY <2>2 DEF Agree
  <2>4. \A q \in Procs : pc'[q] \in {"apply", "test", "configure"} => frame'[q].cb = client'
    BY <1>1, <1>2, <2>1 DEF Alone
  <2>5. tiers'[client'] \in Fresh
    BY <1>1, <1>5, <2>1 DEF Fresh
  <2>6. ASSUME NEW a \in Admins, pc'[a] = "read" PROVE Agree(TierConfig(frame[a].cb)', InForce')
    <3>1. pc[a] = "read" /\ frame'[a] = frame[a] /\ Agree(TierConfig(frame[a].cb), InForce)
      BY <1>3, <2>1, <2>6 DEF Alone
    <3>2. CASE frame[a].cb = client
      BY <1>1, <3>1, <3>2 DEF InForce, TierConfig, Agree
    <3>3. CASE frame[a].cb # client
      <4>1. frame[a].cb \in Objects \cup {Nil}
        BY Kinds DEF ChainInv, Carried, Frames
      <4>2. TierConfig(frame[a].cb)' = TierConfig(frame[a].cb)
        BY <1>5, <2>1, <3>1, <3>3, <4>1 DEF TierConfig
      <4>3. QED
        BY <2>3, <3>1, <4>2 DEF Agree
    <3>4. QED
      BY <3>2, <3>3
  <2>7. Alone'
    BY <1>3, <2>1, <2>3, <2>4, <2>5, <2>6 DEF Alone, Agree, Fresh
  <2>8. Chained'
    BY <1>1, <1>3, <1>7, <2>3, QuietChained DEF ChainInv
  <2>9. QED
    BY <2>7, <2>8
<1>8. QED
  BY <1>1, <1>6, <1>7 DEF ChainInv

\* Every step keeps the chain.
LEMMA ChainStep == ChainInv /\ [Next]_vars => ChainInv'
<1> SUFFICES ASSUME ChainInv, [Next]_vars PROVE ChainInv'
  OBVIOUS
<1>1. Carried'
  BY StepKeeps DEF ChainInv
<1>2. ASSUME NEW a \in Admins, EnsureClient(a) PROVE ChainInv'
  <2>1. /\ GetOrCreateClient(a) /\ pc[a] = "ensure" /\ Goto(a, "apply")
        /\ UNCHANGED <<log, disturbed>> /\ a \in Procs /\ a \notin Users
    BY <1>2, Kinds DEF EnsureClient
  <2>2. pc'[a] = "apply" /\ \A q \in Procs : q # a => pc'[q] = pc[q]
    BY <2>1, Moves DEF ChainInv
  <2>3. QED
    BY <1>1, <2>1, <2>2, ChainGet
<1>3. ASSUME NEW u \in Users, Request(u) PROVE ChainInv'
  <2>1. /\ GetOrCreateClient(u) /\ Goto(u, "test")
        /\ UNCHANGED <<log, disturbed>> /\ u \in Procs /\ u \notin Admins
    BY <1>3, Kinds DEF Request
  <2>2. pc'[u] = "test" /\ \A q \in Procs : q # u => pc'[q] = pc[q]
    BY <2>1, Moves DEF ChainInv
  <2>3. QED
    BY <1>1, <2>1, <2>2, ChainGet
<1>4. CASE Evict
  <2>1. disturbed' = TRUE /\ UNCHANGED <<pc, frame, log>>
    BY <1>4 DEF Evict
  <2>2. QED
    BY <1>1, <2>1 DEF ChainInv, Merged
<1>5. CASE UNCHANGED vars
  BY <1>1, <1>5 DEF vars, registry, ChainInv, Merged, Alone, Chained, Agree, InForce, TierConfig,
                    Snapshot, Fresh
<1>6. QED
  BY <1>1, <1>2, <1>3, <1>4, <1>5, ChainHandle, ChainMerge, ChainUpdate, ChainAudit,
     ChainTest, ChainConfigure DEF Next

\* The invariant holds always.
LEMMA ChainInvariance == Spec => []ChainInv
<1>1. Init => ChainInv
  <2> SUFFICES ASSUME Init PROVE ChainInv
    OBVIOUS
  <2>1. log = << >> /\ disturbed = FALSE /\ \A p \in Procs : pc[p] = "idle"
    BY DEF Init
  <2>2. Len(log) = 0
    BY <2>1
  <2>3. log = [i \in 1 .. 0 |-> log[i]]
    BY <2>1
  <2>4. Merged
    BY <2>1, <2>2, <2>3, Kinds DEF Merged
  <2>5. Alone /\ Chained
    BY <2>1, <2>2, Kinds DEF Alone, Chained
  <2>6. QED
    BY <2>4, <2>5, InitCarried DEF ChainInv
<1>2. QED
  BY <1>1, ChainStep, PTL DEF Spec

\* audit.AdminChange: unless updates overlap, the client is evicted or an update
\* comes between ensureTier's test and its Configure, the recorded diffs form a
\* chain that ends in the configuration in force.
THEOREM AuditTheorem == Spec => []AuditChain
<1>1. ChainInv => AuditChain
  <2> SUFFICES ASSUME ChainInv, ~disturbed, \A a \in Admins : pc[a] = "idle"
               PROVE  /\ \A i \in DOMAIN log : i > 1 => log[i].before = log[i - 1].after
                      /\ log # << >> => Snapshot(InForce) = log[Len(log)].after
    BY DEF AuditChain
  <2>1. DOMAIN log = 1 .. Len(log) /\ Len(log) \in Nat
    BY DEF ChainInv, Merged
  <2>2. log # << >> => Len(log) > 0
    <3>1. ASSUME Len(log) = 0 PROVE log = << >>
      <4>1. log = [i \in 1 .. 0 |-> log[i]]
        BY <3>1 DEF ChainInv, Merged
      <4>2. QED
        BY <4>1
    <3>2. QED
      BY <2>1, <3>1
  <2>3. QED
    BY <2>1, <2>2 DEF ChainInv, Chained
<1>2. QED
  BY <1>1, ChainInvariance, PTL

\* handleUpdateConfig, merge patch: under the same conditions the step that
\* applies an update leaves every omitted field at the value in force just then.
THEOREM OmittedTheorem == Spec => OmittedKeptAlone
<1>1. ChainInv /\ [Next]_vars => [~disturbed => KeepsOmitted]_vars
  <2> SUFFICES ASSUME ChainInv, Next, ~disturbed,
                      NEW a \in Admins, pc[a] = "apply", pc'[a] = "audit",
                      NEW f \in Fields, frame[a].patch[f] = Nil
               PROVE  InForce'[f] = InForce[f]
    BY DEF KeepsOmitted
  <2>1. UpdateClientConfig(a)
    <3>1. pc \in [Procs -> Labels] /\ a \in Procs
      BY Kinds DEF ChainInv, Carried
    <3>2. QED
      BY <3>1 DEF Next, HandleUpdateConfig, MergePatch, EnsureClient, UpdateClientConfig,
                  AdminChange, Request, TestTier, ConfigureTier, Evict, Goto, Return
  <2>2. frame[a].after \in Configs /\ frame[a].before \in Configs /\ frame[a].cb # Nil
    BY Kinds DEF ChainInv, Carried, Frames
  <2>3. frame[a].cb = client
    BY Kinds DEF ChainInv, Alone
  <2>4. client' = client /\ tiers'[client] = Normalize(frame[a].after)
    BY <2>1, <2>2, <2>3, Kinds, Configures DEF ChainInv, UpdateClientConfig
  <2>5. InForce' = Normalize(frame[a].after)
    BY <2>2, <2>3, <2>4, NormalizeKeeps, NilAssumption DEF InForce, TierConfig
  <2>6. InForce'[f] = frame[a].after[f]
    BY <2>2, <2>5, NormalizeKeeps
  <2>7. frame[a].after[f] = frame[a].before[f]
    BY <2>2, MergeOmitted DEF ChainInv, Merged
  <2>8. frame[a].before[f] = InForce[f]
    BY DEF ChainInv, Alone, Agree
  <2>9. QED
    BY <2>6, <2>7, <2>8
<1>2. QED
  BY <1>1, ChainInvariance, PTL DEF Spec, OmittedKeptAlone
=============================================================================
