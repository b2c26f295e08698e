-------------------------- MODULE SimulatorProofs ---------------------------
(***************************************************************************)
(* GateLedger and DecisionsCounted of Admission, and ReportAgrees of       *)
(* Simulator, for any clients, handlers, keys and addresses.               *)
(*                                                                         *)
(* First the theory of the finite sums and cardinalities in the            *)
(* properties, by induction over subsets.  Then every action is reduced to *)
(* one of a few kinds of steps of a handler (Enters, Passes, Takes,        *)
(* Refuses, Logs, Counts, Finishes), and each equation of the properties   *)
(* is shown to be kept by each kind.  ReportAgrees needs an invariant that *)
(* follows a client's answers from the bucket to the channel (ReportInv).  *)
(***************************************************************************)
EXTENDS Simulator, FiniteSetTheorems, SequenceTheorems, WellFoundedInduction, TLAPS

\* The smallest member of a set of naturals.
LEMMA Smallest ==
    ASSUME NEW S \in SUBSET Nat, S # {}
    PROVE  \E x \in S : \A y \in S : x <= y
<1> DEFINE less == {p \in Nat \X Nat : p[1] < p[2]}
<1>1. IsWellFoundedOn(less, Nat)
  <2>1. IsWellFoundedOn(OpToRel(<, Nat), Nat)
    BY NatLessThanWellFounded
  <2> QED
    BY <2>1 DEF OpToRel
<1>2. PICK x \in S : \A y \in S : ~(<<y, x>> \in less)
  BY <1>1, WFMin
<1>3. ASSUME NEW y \in S PROVE x <= y
  <2>1. <<y, x>> \in Nat \X Nat /\ <<y, x>> \notin less
    BY <1>2
  <2>2. ~(<<y, x>>[1] < <<y, x>>[2])
    BY <2>1
  <2> QED
    BY <2>2
<1> QED
  BY <1>3

\* Induction over the naturals, for a set of them.
LEMMA NatSetInduction ==
    ASSUME NEW P \in SUBSET Nat, 0 \in P, \A n \in P : n + 1 \in P
    PROVE  \A n \in Nat : n \in P
<1>1. ASSUME NEW m \in Nat \ P PROVE FALSE
  <2>1. Nat \ P \in SUBSET Nat /\ Nat \ P # {}
    BY <1>1
  <2>2. PICK n \in Nat \ P : \A k \in Nat \ P : n <= k
    BY <2>1, Smallest
  <2>3. n \in Nat /\ n # 0 /\ n - 1 \in Nat
    BY <2>2
  <2>4. n - 1 \in P
    BY <2>2, <2>3
  <2>5. (n - 1) + 1 = n
    BY <2>3
  <2> QED
    BY <2>2, <2>4, <2>5
<1> QED
  BY <1>1

\* Induction over the subsets of a finite set, for a set of them.
LEMMA SubsetInduction ==
    ASSUME NEW S, IsFiniteSet(S), NEW P \in SUBSET (SUBSET S),
           \A s \in SUBSET S : (\A t \in SUBSET s : t # s => t \in P) => s \in P
    PROVE  \A s \in SUBSET S : s \in P
<1> DEFINE bad == {s \in SUBSET S : s \notin P}
           sizes == {Cardinality(s) : s \in bad}
<1>0. \A s \in SUBSET S : IsFiniteSet(s) /\ Cardinality(s) \in Nat
  BY FS_Subset, FS_CardinalityType
<1>1. ASSUME bad # {} PROVE FALSE
  <2>1. sizes \in SUBSET Nat /\ sizes # {}
    BY <1>0, <1>1
  <2>2. PICK n \in sizes : \A m \in sizes : n <= m
    <3> HIDE DEF sizes
    <3> QED
      BY <2>1, Smallest
  <2>3. PICK s \in bad : n = Cardinality(s)
    BY <2>2
  <2>4. ASSUME NEW t \in SUBSET s, t # s PROVE t \in P
    <3>1. t \in SUBSET S /\ s \in SUBSET S
      BY <2>3, <2>4
    <3>2. Cardinality(t) <= Cardinality(s) /\ (Cardinality(s) = Cardinality(t) => s = t)
      BY <1>0, <2>4, <3>1, FS_Subset
    <3>3. ~(Cardinality(s) <= Cardinality(t))
      BY <1>0, <2>4, <3>1, <3>2
    <3>4. t \notin bad
      BY <2>2, <2>3, <3>3
    <3> QED
      BY <3>1, <3>4
  <2> QED
    BY <2>3, <2>4
<1> QED
  BY <1>1

\* The recursion of MapThenSumSet.
Pick(s) == CHOOSE x \in s : TRUE
Adds(it, f, s) == IF s = {} THEN 0 ELSE f[Pick(s)] + it[s \ {Pick(s)}]
IsSum(it, f, S) == it = [s \in SUBSET S |-> Adds(it, f, s)]

\* A set that is not empty has the member it is taken from.
LEMMA PickFacts ==
    ASSUME NEW s, s # {}
    PROVE  Pick(s) \in s
BY DEF Pick

\* SumOver is a solution of it.
LEMMA SumUnfold ==
    ASSUME NEW f, NEW S
    PROVE  SumOver(f, S) = (CHOOSE it : IsSum(it, f, S))[S]
BY DEF SumOver, MapThenSumSet, MapThenFoldSet, IsSum, Adds, Pick

\* The recursion has a solution.
LEMMA SumExists ==
    ASSUME NEW S, IsFiniteSet(S), NEW f, \A x \in S : f[x] \in Nat
    PROVE  \E it \in [SUBSET S -> Nat] : IsSum(it, f, S)
<1> DEFINE Good(g, n) == \A t \in SUBSET S : Cardinality(t) <= n => g[t] = Adds(g, f, t)
           P == {n \in Nat : \E g \in [SUBSET S -> Nat] : Good(g, n)}
<1>0. \A t \in SUBSET S : IsFiniteSet(t) /\ Cardinality(t) \in Nat
  BY FS_Subset, FS_CardinalityType
<1>1. 0 \in P
  <2> DEFINE g == [t \in SUBSET S |-> 0]
  <2>1. g \in [SUBSET S -> Nat]
    OBVIOUS
  <2>2. ASSUME NEW t \in SUBSET S, Cardinality(t) <= 0 PROVE g[t] = Adds(g, f, t)
    <3>1. Cardinality(t) = 0
      BY <1>0, <2>2
    <3>2. t = {}
      BY <1>0, <3>1, FS_EmptySet
    <3> QED
      BY <3>2 DEF Adds
  <2> QED
    BY <2>1, <2>2
<1>2. ASSUME NEW n \in P PROVE n + 1 \in P
  <2>1. n \in Nat
    OBVIOUS
  <2>2. PICK g \in [SUBSET S -> Nat] : Good(g, n)
    OBVIOUS
  <2> DEFINE h == [t \in SUBSET S |-> Adds(g, f, t)]
  <2>3. ASSUME NEW t \in SUBSET S PROVE Adds(g, f, t) \in Nat
    <3>1. CASE t = {}
      BY <3>1 DEF Adds
    <3>2. CASE t # {}
      <4>1. Pick(t) \in S /\ t \ {Pick(t)} \in SUBSET S
        BY <3>2, PickFacts
      <4>2. f[Pick(t)] \in Nat /\ g[t \ {Pick(t)}] \in Nat
        BY <4>1
      <4> QED
        BY <3>2, <4>2 DEF Adds
    <3> QED
      BY <3>1, <3>2
  <2>4. h \in [SUBSET S -> Nat]
    BY <2>3
  <2>5. ASSUME NEW t \in SUBSET S, Cardinality(t) <= n + 1 PROVE h[t] = Adds(h, f, t)
    <3>1. CASE t = {}
      BY <3>1 DEF Adds
    <3>2. CASE t # {}
      <4> DEFINE u == t \ {Pick(t)}
      <4>1. Pick(t) \in t /\ u \in SUBSET S
        BY <3>2, PickFacts
      <4>2. Cardinality(u) = Cardinality(t) - 1
        BY <1>0, <4>1, FS_RemoveElement
      <4>3. Cardinality(u) <= n
        <5> HIDE DEF u
        <5> QED
          BY <1>0, <2>1, <2>5, <4>1, <4>2
      <4>4. g[u] = Adds(g, f, u)
        BY <2>2, <4>1, <4>3
      <4>5. h[u] = g[u]
        BY <4>1, <4>4
      <4>6. h[t] = Adds(g, f, t)
        OBVIOUS
      <4> HIDE DEF h
      <4> QED
        BY <3>2, <4>5, <4>6 DEF Adds
    <3> QED
      BY <3>1, <3>2
  <2>6. Good(h, n + 1)
    BY <2>5
  <2>7. n + 1 \in Nat
    BY <2>1
  <2> HIDE DEF h, Good
  <2>8. \E k \in [SUBSET S -> Nat] : Good(k, n + 1)
    BY <2>4, <2>6
  <2> QED
    BY <2>7, <2>8
<1>3. Cardinality(S) \in P
  <2>1. P \in SUBSET Nat
    OBVIOUS
  <2> HIDE DEF P
  <2> QED
    BY <1>0, <1>1, <1>2, <2>1, NatSetInduction
<1>4. PICK g \in [SUBSET S -> Nat] : Good(g, Cardinality(S))
  BY <1>3
<1>5. \A t \in SUBSET S : g[t] = Adds(g, f, t)
  BY <1>0, <1>4, FS_Subset
<1> QED
  BY <1>5 DEF IsSum

\* The sums of subsets: one function for all of them.
Sums(it, f, S) ==
    /\ it \in [SUBSET S -> Nat]
    /\ \A s \in SUBSET S : it[s] = Adds(it, f, s)
    /\ \A s \in SUBSET S : SumOver(f, s) = it[s]

\* There is one.
LEMMA SubsetSums ==
    ASSUME NEW S, IsFiniteSet(S), NEW f, \A x \in S : f[x] \in Nat
    PROVE  \E it : Sums(it, f, S)
<1>1. PICK it \in [SUBSET S -> Nat] : IsSum(it, f, S)
  BY SumExists
<1>2. \A s \in SUBSET S : it[s] = Adds(it, f, s)
  BY <1>1 DEF IsSum
<1>3. ASSUME NEW T \in SUBSET S PROVE SumOver(f, T) = it[T]
  <2> DEFINE jt == CHOOSE j : IsSum(j, f, T)
  <2>1. IsSum(jt, f, T)
    <3>1. IsFiniteSet(T) /\ \A x \in T : f[x] \in Nat
      BY FS_Subset
    <3>2. \E j : IsSum(j, f, T)
      BY <3>1, SumExists
    <3> QED
      BY <3>2
  <2>2. SumOver(f, T) = jt[T]
    BY SumUnfold
  <2> HIDE DEF jt
  <2>3. \A s \in SUBSET T : jt[s] = Adds(jt, f, s)
    BY <2>1 DEF IsSum
  <2> DEFINE P == {s \in SUBSET T : jt[s] = it[s]}
  <2>4. ASSUME NEW s \in SUBSET T, \A t \in SUBSET s : t # s => t \in P PROVE s \in P
    <3>1. jt[s] = Adds(jt, f, s) /\ it[s] = Adds(it, f, s)
      BY <1>2, <2>3
    <3>2. CASE s = {}
      BY <3>1, <3>2 DEF Adds
    <3>3. CASE s # {}
      <4>1. Pick(s) \in s
        BY <3>3, PickFacts
      <4>2. s \ {Pick(s)} \in P
        BY <2>4, <4>1
      <4>3. jt[s \ {Pick(s)}] = it[s \ {Pick(s)}]
        BY <4>2
      <4> QED
        BY <3>1, <3>3, <4>3 DEF Adds
    <3> QED
      BY <3>2, <3>3
  <2>5. P \in SUBSET (SUBSET T) /\ IsFiniteSet(T)
    BY FS_Subset
  <2>6. T \in P
    <3> HIDE DEF P
    <3> QED
      BY <2>4, <2>5, SubsetInduction
  <2> QED
    BY <2>2, <2>6
<1>4. Sums(it, f, S)
  BY <1>2, <1>3 DEF Sums
<1> QED
  BY <1>4

\* A sum is a number.
LEMMA SumType ==
    ASSUME NEW S, IsFiniteSet(S), NEW f, \A x \in S : f[x] \in Nat
    PROVE  SumOver(f, S) \in Nat
<1>1. PICK it : Sums(it, f, S)
  BY SubsetSums
<1> QED
  BY <1>1 DEF Sums

\* The empty sum.
LEMMA SumEmpty ==
    ASSUME NEW f
    PROVE  SumOver(f, {}) = 0
<1>1. IsFiniteSet({}) /\ {} \in SUBSET {}
  BY FS_EmptySet
<1>2. \A x \in {} : f[x] \in Nat
  OBVIOUS
<1>3. PICK it : Sums(it, f, {})
  BY <1>1, <1>2, SubsetSums
<1>4. it[{}] = Adds(it, f, {}) /\ SumOver(f, {}) = it[{}]
  BY <1>1, <1>3 DEF Sums
<1> QED
  BY <1>4 DEF Adds

\* Any member may be taken out first.
LEMMA SumRemove ==
    ASSUME NEW S, IsFiniteSet(S), NEW f, \A x \in S : f[x] \in Nat, NEW y \in S
    PROVE  SumOver(f, S) = f[y] + SumOver(f, S \ {y})
<1>0. PICK it : Sums(it, f, S)
  BY SubsetSums
<1>1. /\ it \in [SUBSET S -> Nat]
      /\ \A s \in SUBSET S : it[s] = Adds(it, f, s)
      /\ \A s \in SUBSET S : SumOver(f, s) = it[s]
  BY <1>0 DEF Sums
<1> DEFINE P == {s \in SUBSET S : \A x \in s : it[s] = f[x] + it[s \ {x}]}
<1>2. ASSUME NEW s \in SUBSET S, \A t \in SUBSET s : t # s => t \in P PROVE s \in P
  <2> SUFFICES ASSUME NEW x \in s PROVE it[s] = f[x] + it[s \ {x}]
    OBVIOUS
  <2> DEFINE c == Pick(s)
  <2>1. c \in s
    BY PickFacts
  <2>2. it[s] = f[c] + it[s \ {c}]
    BY <1>1 DEF Adds
  <2> HIDE DEF c
  <2>3. CASE x = c
    BY <2>2, <2>3
  <2>4. CASE x # c
    <3>1. s \ {c} \in P /\ s \ {x} \in P
      BY <1>2, <2>1
    <3>2. it[s \ {c}] = f[x] + it[(s \ {c}) \ {x}] /\ it[s \ {x}] = f[c] + it[(s \ {x}) \ {c}]
      BY <2>1, <2>4, <3>1
    <3>3. (s \ {c}) \ {x} = (s \ {x}) \ {c}
      OBVIOUS
    <3>4. f[x] \in Nat /\ f[c] \in Nat /\ it[(s \ {x}) \ {c}] \in Nat
      BY <1>1, <2>1
    <3>5. it[s] = f[c] + (f[x] + it[(s \ {x}) \ {c}])
      BY <2>2, <3>2, <3>3
    <3> QED
      BY <3>2, <3>4, <3>5
  <2> QED
    BY <2>3, <2>4
<1>3. P \in SUBSET (SUBSET S)
  OBVIOUS
<1>4. S \in P
  <2> HIDE DEF P
  <2> QED
    BY <1>2, <1>3, SubsetInduction
<1>5. it[S] = f[y] + it[S \ {y}]
  BY <1>4
<1>6. S \in SUBSET S /\ S \ {y} \in SUBSET S
  OBVIOUS
<1> QED
  BY <1>1, <1>5, <1>6

\* Equal summands, equal sums.
LEMMA SumSame ==
    ASSUME NEW S, IsFiniteSet(S), NEW f, NEW g, \A x \in S : f[x] \in Nat /\ g[x] = f[x]
    PROVE  SumOver(g, S) = SumOver(f, S)
<1> DEFINE P == {s \in SUBSET S : SumOver(g, s) = SumOver(f, s)}
<1>1. ASSUME NEW s \in SUBSET S, \A t \in SUBSET s : t # s => t \in P PROVE s \in P
  <2>1. CASE s = {}
    BY <2>1, SumEmpty
  <2>2. CASE s # {}
    <3>1. PICK y \in s : TRUE
      BY <2>2
    <3>2. s \ {y} \in P
      BY <1>1
    <3>3. IsFiniteSet(s) /\ (\A x \in s : f[x] \in Nat) /\ (\A x \in s : g[x] \in Nat)
      BY FS_Subset
    <3>4. SumOver(f, s) = f[y] + SumOver(f, s \ {y})
      BY <3>3, SumRemove
    <3>5. SumOver(g, s) = g[y] + SumOver(g, s \ {y})
      BY <3>3, SumRemove
    <3>6. g[y] = f[y] /\ SumOver(g, s \ {y}) = SumOver(f, s \ {y})
      BY <3>2
    <3>7. SumOver(g, s) = SumOver(f, s)
      BY <3>4, <3>5, <3>6
    <3> QED
      BY <3>7
  <2> QED
    BY <2>1, <2>2
<1>2. P \in SUBSET (SUBSET S)
  OBVIOUS
<1>3. S \in P
  <2> HIDE DEF P
  <2> QED
    BY <1>1, <1>2, SubsetInduction
<1> QED
  BY <1>3

\* One more of one summand, one more in all.
LEMMA SumMore ==
    ASSUME NEW S, IsFiniteSet(S), NEW f, \A x \in S : f[x] \in Nat, NEW y \in S, NEW n \in Nat,
           NEW g, g[y] = f[y] + n, \A x \in S : x # y => g[x] = f[x]
    PROVE  SumOver(g, S) = SumOver(f, S) + n
<1>1. IsFiniteSet(S \ {y}) /\ (\A x \in S \ {y} : f[x] \in Nat /\ g[x] = f[x])
  BY FS_Subset
<1>2. \A x \in S : g[x] \in Nat
  OBVIOUS
<1>3. SumOver(f, S) = f[y] + SumOver(f, S \ {y})
  BY SumRemove
<1>4. SumOver(g, S) = g[y] + SumOver(g, S \ {y})
  BY <1>2, SumRemove
<1>5. SumOver(g, S \ {y}) = SumOver(f, S \ {y}) /\ SumOver(f, S \ {y}) \in Nat
  BY <1>1, SumSame, SumType
<1> QED
  BY <1>3, <1>4, <1>5
-----------------------------------------------------------------------------
(* Types, and what a handler's step says of its locals.                    *)

Steps == {"idle", "global", "ip", "client", "bucket", "audit", "add", "create", "finish", "done"}
Frames ==
    [ip : IPs \cup {Absent}, key : Keys \cup {Absent}, label : Labels \cup {"none"},
     status : {0, 200, 400, 429}]

Named(h) == frame[h].ip \in IPs /\ frame[h].key \in Keys
Local(h) ==
    /\ pc[h] = "idle" => frame[h].label = "none" /\ frame[h].status = 0
    /\ pc[h] \in {"global", "ip", "client", "bucket"} =>
        Named(h) /\ frame[h].label = "none" /\ frame[h].status = 0
    /\ pc[h] \in {"audit", "add", "create", "finish"} =>
        Named(h) /\ frame[h].label \in Labels /\ frame[h].status = 0
    /\ pc[h] = "done" =>
        \/ frame[h].status = 400 /\ frame[h].label = "none"
        \/ /\ Named(h) /\ frame[h].label \in Labels
           /\ frame[h].status = IF frame[h].label = "allow" THEN 200 ELSE 429
    /\ pc[h] = "add" => frame[h].label \in DOMAIN requestsTotal

StoreType == taken \in [Buckets -> Nat] /\ refused \in [Buckets -> Nat]
ObserversType ==
    /\ audit \in [anomaly : Nat, reject : Nat]
    /\ requestsTotal \in [DOMAIN requestsTotal -> Nat] /\ DOMAIN requestsTotal \subseteq Labels
    /\ latencies \in Nat /\ consumption \in [Keys -> Nat] /\ virtualTime \in Nat
HandlersType ==
    /\ pc \in [Handlers -> Steps] /\ frame \in [Handlers -> Frames]
    /\ \A h \in Handlers : Local(h)
ServerInv == StoreType /\ ObserversType /\ HandlersType

\* A server that has not seen a request.
LEMMA ServerInvInit == ServerInit => ServerInv
<1> SUFFICES ASSUME ServerInit PROVE ServerInv
  OBVIOUS
<1>1. StoreType
  BY DEF ServerInit, StoreType
<1>2. ObserversType
  BY DEF ServerInit, ObserversType
<1>3. HandlersType
  BY DEF ServerInit, HandlersType, Steps, Frames, NoFrame, Local
<1> QED
  BY <1>1, <1>2, <1>3 DEF ServerInv
-----------------------------------------------------------------------------
(* What a step does to one handler, and to the books.                      *)

\* h moves from one step to another with a label; the other handlers stay.
Moves(h, from, to, label) ==
    /\ pc[h] = from /\ pc' = [pc EXCEPT ![h] = to]
    /\ frame' \in [Handlers -> Frames]
    /\ \A g \in Handlers : g # h => frame'[g] = frame[g]
    /\ frame'[h].label = label

\* Where h is, and its books.
Stays(h) == frame'[h].ip = frame[h].ip /\ frame'[h].key = frame[h].key

SameBooks == UNCHANGED <<taken, refused, requestsTotal, latencies, consumption, virtualTime>>
             /\ audit'.reject = audit.reject

\* The seven kinds of step.
Enters(h) ==
    /\ SameBooks /\ audit' \in [anomaly : Nat, reject : Nat]
    /\ \/ /\ Moves(h, "idle", "global", "none") /\ frame'[h].status = 0
          /\ frame'[h].ip \in IPs /\ frame'[h].key \in Keys
       \/ Moves(h, "idle", "done", "none") /\ frame'[h].status = 400
Passes(h) ==
    /\ SameBooks /\ audit' = audit
    /\ Moves(h, "client", "bucket", "none") /\ Stays(h) /\ frame'[h].status = 0
Takes(h, b) ==
    /\ taken' = [taken EXCEPT ![b] = @ + 1]
    /\ UNCHANGED <<refused, observers>>
    /\ Stays(h) /\ frame'[h].status = 0
    /\ \/ b = Global /\ Moves(h, "global", "ip", "none")
       \/ b = frame[h].ip /\ Moves(h, "ip", "client", "none")
       \/ b = frame[h].key /\ Moves(h, "bucket", "audit", "allow")
Refuses(h, b) ==
    /\ refused' = [refused EXCEPT ![b] = @ + 1]
    /\ UNCHANGED <<taken, observers>>
    /\ Stays(h) /\ frame'[h].status = 0
    /\ \/ b = Global /\ Moves(h, "global", "audit", "reject")
       \/ b = frame[h].ip /\ Moves(h, "ip", "audit", "reject")
       \/ b = frame[h].key /\ Moves(h, "bucket", "audit", "reject")
       \/ b = frame[h].key /\ Moves(h, "client", "audit", "blocked")
Logs(h) ==
    /\ UNCHANGED <<taken, refused, requestsTotal, latencies, consumption, virtualTime>>
    /\ audit' \in [anomaly : Nat, reject : Nat]
    /\ audit'.reject = IF frame[h].label # "allow" THEN audit.reject + 1 ELSE audit.reject
    /\ frame' = frame
    /\ \/ frame[h].label \in DOMAIN requestsTotal /\ Moves(h, "audit", "add", frame[h].label)
       \/ Moves(h, "audit", "create", frame[h].label)
Counts(h) ==
    /\ UNCHANGED <<taken, refused, audit, latencies, consumption, virtualTime>>
    /\ frame' = frame
    /\ \/ Moves(h, "add", "finish", frame[h].label) /\ Add(frame[h].label)
                                                   /\ frame[h].label \in DOMAIN requestsTotal
       \/ Moves(h, "create", "finish", frame[h].label) /\ Add(frame[h].label)
                                                   /\ frame[h].label \in DOMAIN requestsTotal
       \/ Moves(h, "create", "finish", frame[h].label) /\ Create(frame[h].label)
                                                   /\ frame[h].label \notin DOMAIN requestsTotal
Finishes(h) ==
    /\ UNCHANGED <<taken, refused, audit, requestsTotal>>
    /\ latencies' = latencies + 1
    /\ RecordConsumption(frame[h].key, IF frame[h].label = "allow" THEN 1 ELSE 0)
    /\ Stays(h)
    /\ frame'[h].status = IF frame[h].label = "allow" THEN 200 ELSE 429
    /\ Moves(h, "finish", "done", frame[h].label)
Idles == SameBooks /\ UNCHANGED <<pc, frame, audit>>

WorkStep ==
    \/ Idles
    \/ \E h \in Handlers :
        \/ Passes(h) \/ Logs(h) \/ Counts(h) \/ Finishes(h)
        \/ \E b \in Buckets : Takes(h, b) \/ Refuses(h, b)
ServerStep == WorkStep \/ \E h \in Handlers : Enters(h)

\* HandleRequest notes the address and the key in the handler's frame.
LEMMA FrameAddressed ==
    ASSUME NEW f \in Frames, NEW i \in IPs, NEW k \in Keys
    PROVE  LET r == [f EXCEPT !.ip = i, !.key = k]
           IN  /\ r \in Frames /\ r.label = f.label /\ r.status = f.status
               /\ r.ip \in IPs /\ r.key \in Keys
<1> DEFINE g == [f EXCEPT !.ip = i]
           r == [g EXCEPT !.key = k]
<1>1. g \in Frames /\ g.ip = i /\ g.label = f.label /\ g.status = f.status
  BY DEF Frames
<1>2. [f EXCEPT !.ip = i, !.key = k] = r
  OBVIOUS
<1> HIDE DEF g
<1>3. r \in Frames /\ r.ip = g.ip /\ r.key = k /\ r.label = g.label /\ r.status = g.status
  BY <1>1 DEF Frames
<1> HIDE DEF r
<1> QED
  BY <1>1, <1>2, <1>3

\* A handler that enters has an address, and a key that was validated, or fails.
LEMMA StepHandleRequest ==
    ASSUME ServerInv, NEW h \in Handlers, NEW req, SourceIP(req) \in IPs, HandleRequest(h, req)
    PROVE  Enters(h)
<1>0. /\ audit \in [anomaly : Nat, reject : Nat] /\ Local(h)
      /\ frame \in [Handlers -> Frames] /\ frame[h] \in Frames
  BY DEF ServerInv, HandlersType, ObserversType
<1>1. audit' \in [anomaly : Nat, reject : Nat] /\ audit'.reject = audit.reject
  BY <1>0 DEF HandleRequest
<1>2. SameBooks
  BY <1>1 DEF HandleRequest, SameBooks, store
<1> DEFINE key == ClientIdentity(req)
           ok == ~req.body /\ ValidateAPIKey(key) /\ req.tierOK
           r1 == [frame[h] EXCEPT !.ip = SourceIP(req), !.key = key]
           r2 == [frame[h] EXCEPT !.status = 400]
<1>3. pc[h] = "idle" /\ frame[h].label = "none" /\ frame[h].status = 0
  BY <1>0 DEF HandleRequest, Local
<1>4. /\ ok => pc' = [pc EXCEPT ![h] = "global"] /\ frame' = [frame EXCEPT ![h] = r1]
      /\ ~ok => pc' = [pc EXCEPT ![h] = "done"] /\ frame' = [frame EXCEPT ![h] = r2]
  BY DEF HandleRequest, Goto
<1>5. ok => key \in Keys
  BY DEF ValidateAPIKey
<1> HIDE DEF key, ok
<1>6. ok => /\ r1 \in Frames /\ r1.label = frame[h].label /\ r1.status = frame[h].status
            /\ r1.ip \in IPs /\ r1.key \in Keys
  BY <1>0, <1>5, FrameAddressed
<1>7. r2 \in Frames /\ r2.label = frame[h].label /\ r2.status = 400
  BY <1>0 DEF Frames
<1> HIDE DEF r1, r2
<1>8. CASE ok
  <2>1. frame'[h] = r1 /\ frame' \in [Handlers -> Frames]
        /\ \A g \in Handlers : g # h => frame'[g] = frame[g]
    BY <1>0, <1>4, <1>6, <1>8
  <2>2. frame'[h].label = "none" /\ frame'[h].status = 0 /\ frame'[h].ip \in IPs
        /\ frame'[h].key \in Keys
    BY <1>3, <1>6, <1>8, <2>1
  <2>3. Moves(h, "idle", "global", "none")
    BY <1>3, <1>4, <1>8, <2>1, <2>2 DEF Moves
  <2> QED
    BY <1>1, <1>2, <2>2, <2>3 DEF Enters
<1>9. CASE ~ok
  <2>1. frame'[h] = r2 /\ frame' \in [Handlers -> Frames]
        /\ \A g \in Handlers : g # h => frame'[g] = frame[g]
    BY <1>0, <1>4, <1>7, <1>9
  <2>2. frame'[h].label = "none" /\ frame'[h].status = 400
    BY <1>3, <1>7, <2>1
  <2>3. Moves(h, "idle", "done", "none")
    BY <1>3, <1>4, <1>9, <2>1, <2>2 DEF Moves
  <2> QED
    BY <1>1, <1>2, <2>2, <2>3 DEF Enters
<1> QED
  BY <1>8, <1>9

\* A handler that gets its answer.
LEMMA DecideMoves ==
    ASSUME HandlersType, NEW h \in Handlers, NEW l \in Labels, Decide(h, l)
    PROVE  Moves(h, pc[h], "audit", l) /\ Stays(h) /\ frame'[h].status = frame[h].status
<1> DEFINE r == [frame[h] EXCEPT !.label = l]
<1>1. pc' = [pc EXCEPT ![h] = "audit"] /\ frame' = [frame EXCEPT ![h] = r]
  BY DEF Decide, Goto
<1>2. frame[h] \in Frames /\ frame \in [Handlers -> Frames]
  BY DEF HandlersType
<1>3. r \in Frames /\ r.label = l /\ r.ip = frame[h].ip /\ r.key = frame[h].key
      /\ r.status = frame[h].status
  BY <1>2 DEF Frames
<1> HIDE DEF r
<1>4. frame'[h] = r /\ frame' \in [Handlers -> Frames]
      /\ \A g \in Handlers : g # h => frame'[g] = frame[g]
  BY <1>1, <1>2, <1>3
<1> QED
  BY <1>1, <1>3, <1>4 DEF Moves, Stays

\* A handler that goes on.
LEMMA GotoMoves ==
    ASSUME HandlersType, NEW h \in Handlers, NEW l, Goto(h, l), frame' = frame
    PROVE  Moves(h, pc[h], l, frame[h].label) /\ Stays(h) /\ frame'[h].status = frame[h].status
BY DEF HandlersType, Goto, Moves, Stays

\* A bucket's answer.
LEMMA StepAllow ==
    ASSUME ServerInv, NEW h \in Handlers, NEW b, NEW next, Allow(h, b, next),
           UNCHANGED observers, frame[h].label = "none", frame[h].status = 0
    PROVE  \/ /\ taken' = [taken EXCEPT ![b] = @ + 1]
              /\ UNCHANGED <<refused, observers>> /\ Stays(h) /\ frame'[h].status = 0
              /\ IF next = "allow" THEN Moves(h, pc[h], "audit", "allow")
                 ELSE Moves(h, pc[h], next, "none")
           \/ /\ refused' = [refused EXCEPT ![b] = @ + 1]
              /\ UNCHANGED <<taken, observers>> /\ Stays(h) /\ frame'[h].status = 0
              /\ Moves(h, pc[h], "audit", "reject")
<1>0. HandlersType /\ "allow" \in Labels /\ "reject" \in Labels
  BY DEF ServerInv, Labels
<1>1. CASE tokens[b] > 0 /\ b \notin blocked
  <2>1. taken' = [taken EXCEPT ![b] = @ + 1] /\ refused' = refused
        /\ IF next = "allow" THEN Decide(h, "allow") ELSE Goto(h, next) /\ frame' = frame
    BY <1>1 DEF Allow
  <2>2. CASE next = "allow"
    BY <1>0, <2>1, <2>2, DecideMoves
  <2>3. CASE next # "allow"
    BY <1>0, <2>1, <2>3, GotoMoves
  <2> QED
    BY <2>2, <2>3
<1>2. CASE ~(tokens[b] > 0 /\ b \notin blocked)
  <2>1. refused' = [refused EXCEPT ![b] = @ + 1] /\ taken' = taken /\ Decide(h, "reject")
    BY <1>2 DEF Allow
  <2> QED
    BY <1>0, <2>1, DecideMoves
<1> QED
  BY <1>1, <1>2

\* Every step of a handler is one of the kinds.
LEMMA StepHandle ==
    ASSUME ServerInv, NEW h \in Handlers, Handle(h)
    PROVE  WorkStep
<1>0. HandlersType /\ ObserversType /\ Local(h)
  BY DEF ServerInv, HandlersType
<1>1. CASE GlobalGate(h)
  <2>1. /\ pc[h] = "global" /\ Allow(h, Global, "ip") /\ UNCHANGED observers
        /\ frame[h].label = "none" /\ frame[h].status = 0
    BY <1>0, <1>1 DEF GlobalGate, Local, observers
  <2>2. Takes(h, Global) \/ Refuses(h, Global)
    BY <2>1, StepAllow DEF Takes, Refuses
  <2>3. Global \in Buckets
    BY DEF Buckets
  <2> QED
    BY <2>2, <2>3 DEF WorkStep
<1>2. CASE IPGate(h)
  <2>1. /\ pc[h] = "ip" /\ Allow(h, frame[h].ip, "client") /\ UNCHANGED observers
        /\ frame[h].label = "none" /\ frame[h].status = 0
    BY <1>0, <1>2 DEF IPGate, Local, observers
  <2>2. Takes(h, frame[h].ip) \/ Refuses(h, frame[h].ip)
    BY <2>1, StepAllow DEF Takes, Refuses
  <2>3. frame[h].ip \in Buckets
    BY <1>0, <2>1 DEF Buckets, Local, Named
  <2> QED
    BY <2>2, <2>3 DEF WorkStep
<1>3. CASE CheckBlocked(h)
  <2>1. /\ pc[h] = "client" /\ UNCHANGED <<taken, observers>>
        /\ frame[h].label = "none" /\ frame[h].status = 0 /\ frame[h].key \in Buckets
    BY <1>0, <1>3 DEF CheckBlocked, Local, observers, Named, Buckets
  <2>2. CASE frame[h].key \in blocked
    <3>1. Decide(h, "blocked") /\ refused' = [refused EXCEPT ![frame[h].key] = @ + 1]
      BY <1>3, <2>2 DEF CheckBlocked
    <3>2. "blocked" \in Labels
      BY DEF Labels
    <3>3. Moves(h, pc[h], "audit", "blocked") /\ Stays(h) /\ frame'[h].status = frame[h].status
      BY <1>0, <3>1, <3>2, DecideMoves
    <3>4. Refuses(h, frame[h].key)
      BY <2>1, <3>1, <3>3 DEF Refuses
    <3> QED
      BY <2>1, <3>4 DEF WorkStep
  <2>3. CASE frame[h].key \notin blocked
    <3>1. Goto(h, "bucket") /\ frame' = frame /\ refused' = refused
      BY <1>3, <2>3 DEF CheckBlocked
    <3>2. Moves(h, pc[h], "bucket", frame[h].label) /\ Stays(h)
          /\ frame'[h].status = frame[h].status
      BY <1>0, <3>1, GotoMoves
    <3>3. Passes(h)
      BY <2>1, <3>1, <3>2 DEF Passes, SameBooks, observers
    <3> QED
      BY <3>3 DEF WorkStep
  <2> QED
    BY <2>2, <2>3
<1>4. CASE ClientGate(h)
  <2>1. /\ pc[h] = "bucket" /\ Allow(h, frame[h].key, "allow") /\ UNCHANGED observers
        /\ frame[h].label = "none" /\ frame[h].status = 0
    BY <1>0, <1>4 DEF ClientGate, Local, observers
  <2>2. Takes(h, frame[h].key) \/ Refuses(h, frame[h].key)
    BY <2>1, StepAllow DEF Takes, Refuses
  <2>3. frame[h].key \in Buckets
    BY <1>0, <2>1 DEF Buckets, Local, Named
  <2> QED
    BY <2>2, <2>3 DEF WorkStep
<1>5. CASE RequestDecision(h)
  <2>1. /\ pc[h] = "audit" /\ frame' = frame
        /\ Goto(h, IF frame[h].label \in DOMAIN requestsTotal THEN "add" ELSE "create")
        /\ UNCHANGED <<taken, refused, requestsTotal, latencies, consumption, virtualTime>>
    BY <1>5 DEF RequestDecision, store
  <2>2. audit' = IF frame[h].label # "allow" THEN [audit EXCEPT !.reject = @ + 1] ELSE audit
    BY <1>5 DEF RequestDecision
  <2>3. /\ audit' \in [anomaly : Nat, reject : Nat]
        /\ audit'.reject = IF frame[h].label # "allow" THEN audit.reject + 1 ELSE audit.reject
    BY <1>0, <2>2 DEF ObserversType
  <2>4. \/ frame[h].label \in DOMAIN requestsTotal /\ Moves(h, "audit", "add", frame[h].label)
        \/ Moves(h, "audit", "create", frame[h].label)
    BY <1>0, <2>1, GotoMoves
  <2>5. Logs(h)
    BY <2>1, <2>3, <2>4 DEF Logs
  <2> QED
    BY <2>5 DEF WorkStep
<1>6. CASE IncAdd(h)
  <2>1. /\ pc[h] = "add" /\ frame' = frame /\ Goto(h, "finish") /\ Add(frame[h].label)
        /\ UNCHANGED <<taken, refused, audit, latencies, consumption, virtualTime>>
        /\ frame[h].label \in DOMAIN requestsTotal
    BY <1>0, <1>6 DEF IncAdd, store, Local
  <2>2. Moves(h, "add", "finish", frame[h].label)
    BY <1>0, <2>1, GotoMoves
  <2>3. Counts(h)
    BY <2>1, <2>2 DEF Counts
  <2> QED
    BY <2>3 DEF WorkStep
<1>7. CASE IncCreate(h)
  <2>1. /\ pc[h] = "create" /\ frame' = frame /\ Goto(h, "finish")
        /\ UNCHANGED <<taken, refused, audit, latencies, consumption, virtualTime>>
        /\ \/ frame[h].label \in DOMAIN requestsTotal /\ Add(frame[h].label)
           \/ frame[h].label \notin DOMAIN requestsTotal /\ Create(frame[h].label)
    BY <1>7 DEF IncCreate, store
  <2>2. Moves(h, "create", "finish", frame[h].label)
    BY <1>0, <2>1, GotoMoves
  <2>3. Counts(h)
    BY <2>1, <2>2 DEF Counts
  <2> QED
    BY <2>3 DEF WorkStep
<1>8. CASE Finish(h)
  <2> DEFINE s == IF frame[h].label = "allow" THEN 200 ELSE 429
             r == [frame[h] EXCEPT !.status = s]
  <2>1. /\ pc[h] = "finish" /\ pc' = [pc EXCEPT ![h] = "done"]
        /\ frame' = [frame EXCEPT ![h] = r]
        /\ UNCHANGED <<taken, refused, audit, requestsTotal>> /\ latencies' = latencies + 1
        /\ RecordConsumption(frame[h].key, IF frame[h].label = "allow" THEN 1 ELSE 0)
    BY <1>8 DEF Finish, Goto, store
  <2>2. frame \in [Handlers -> Frames] /\ frame[h] \in Frames
    BY <1>0 DEF HandlersType
  <2>3. s \in {200, 429}
    OBVIOUS
  <2> HIDE DEF s
  <2>4. /\ r \in Frames /\ r.label = frame[h].label /\ r.status = s
        /\ r.ip = frame[h].ip /\ r.key = frame[h].key
    BY <2>2, <2>3 DEF Frames
  <2> HIDE DEF r
  <2>5. frame'[h] = r /\ frame' \in [Handlers -> Frames]
        /\ \A g \in Handlers : g # h => frame'[g] = frame[g]
    BY <2>1, <2>2, <2>4
  <2>6. Moves(h, "finish", "done", frame[h].label) /\ Stays(h) /\ frame'[h].status = s
    BY <2>1, <2>4, <2>5 DEF Moves, Stays
  <2>7. Finishes(h)
    BY <2>1, <2>6 DEF Finishes, s
  <2> QED
    BY <2>7 DEF WorkStep
<1> QED
  BY <1>1, <1>2, <1>3, <1>4, <1>5, <1>6, <1>7, <1>8 DEF Handle

\* Every step of the server is one of the kinds.
LEMMA StepServer ==
    ASSUME ServerInv, ServerNext \/ UNCHANGED serverVars
    PROVE  WorkStep
<1>1. ASSUME NEW b \in Buckets, Refill(b) PROVE Idles
  BY <1>1 DEF Refill, Idles, SameBooks, observers
<1>2. ASSUME NEW k, Block(k) \/ Unblock(k) PROVE Idles
  BY <1>2 DEF Block, Unblock, Idles, SameBooks, observers
<1>3. CASE UNCHANGED serverVars
  <2>1. Idles
    BY <1>3 DEF serverVars, store, observers, Idles, SameBooks
  <2> QED
    BY <2>1 DEF WorkStep
<1>4. Idles => WorkStep
  BY DEF WorkStep
<1> QED
  BY <1>1, <1>2, <1>3, <1>4, StepHandle DEF ServerNext

\* The handlers that do not move keep what they know.
LEMMA HandlersMove ==
    ASSUME HandlersType, NEW h \in Handlers, NEW from, NEW to \in Steps, NEW l, Moves(h, from, to, l),
           DOMAIN requestsTotal \subseteq DOMAIN requestsTotal', Local(h)'
    PROVE  HandlersType'
<1>1. pc \in [Handlers -> Steps] /\ \A g \in Handlers : Local(g)
  BY DEF HandlersType
<1>2. pc' \in [Handlers -> Steps] /\ \A g \in Handlers : g # h => pc'[g] = pc[g]
  BY <1>1 DEF Moves
<1>3. frame' \in [Handlers -> Frames] /\ \A g \in Handlers : g # h => frame'[g] = frame[g]
  BY DEF Moves
<1>4. ASSUME NEW g \in Handlers PROVE Local(g)'
  <2>1. CASE g = h
    BY <2>1
  <2>2. CASE g # h
    <3>1. pc'[g] = pc[g] /\ frame'[g] = frame[g] /\ Local(g)
      BY <1>1, <1>2, <1>3, <2>2
    <3> QED
      BY <3>1 DEF Local, Named
  <2> QED
    BY <2>1, <2>2
<1> QED
  BY <1>2, <1>3, <1>4 DEF HandlersType

\* The counter's map of labels.
LEMMA CounterFacts ==
    ASSUME ObserversType, NEW l \in Labels
    PROVE  /\ l \in DOMAIN requestsTotal /\ Add(l) =>
                /\ DOMAIN requestsTotal' = DOMAIN requestsTotal
                /\ requestsTotal' \in [DOMAIN requestsTotal' -> Nat]
                /\ requestsTotal'[l] = requestsTotal[l] + 1
                /\ \A m \in DOMAIN requestsTotal : m # l => requestsTotal'[m] = requestsTotal[m]
           /\ l \notin DOMAIN requestsTotal /\ Create(l) =>
                /\ DOMAIN requestsTotal' = DOMAIN requestsTotal \cup {l}
                /\ requestsTotal' \in [DOMAIN requestsTotal' -> Nat]
                /\ requestsTotal'[l] = 1
                /\ \A m \in DOMAIN requestsTotal : m # l => requestsTotal'[m] = requestsTotal[m]
<1>1. requestsTotal \in [DOMAIN requestsTotal -> Nat]
  BY DEF ObserversType
<1>2. CASE l \in DOMAIN requestsTotal /\ Add(l)
  BY <1>1, <1>2 DEF Add
<1>3. CASE l \notin DOMAIN requestsTotal /\ Create(l)
  BY <1>1, <1>3 DEF Create
<1> QED
  BY <1>2, <1>3

\* Every kind of step keeps the types.
LEMMA ServerInvStep ==
    ASSUME ServerInv, ServerStep
    PROVE  ServerInv'
<1>0. /\ StoreType /\ ObserversType /\ HandlersType
      /\ \A h \in Handlers : Local(h)
      /\ pc \in [Handlers -> Steps] /\ frame \in [Handlers -> Frames]
  BY DEF ServerInv, HandlersType
<1>1. CASE Idles
  BY <1>0, <1>1 DEF Idles, SameBooks, ServerInv, StoreType, ObserversType, HandlersType, Local,
     Named
<1>2. ASSUME NEW h \in Handlers, Enters(h) PROVE ServerInv'
  <2>1. SameBooks /\ audit' \in [anomaly : Nat, reject : Nat]
    BY <1>2 DEF Enters
  <2>2. StoreType' /\ ObserversType' /\ DOMAIN requestsTotal \subseteq DOMAIN requestsTotal'
    BY <1>0, <2>1 DEF SameBooks, StoreType, ObserversType
  <2>3. CASE /\ Moves(h, "idle", "global", "none") /\ frame'[h].status = 0
             /\ frame'[h].ip \in IPs /\ frame'[h].key \in Keys
    <3>1. pc'[h] = "global" /\ frame'[h].label = "none"
      BY <1>0, <2>3 DEF Moves
    <3>2. Local(h)'
      BY <2>3, <3>1 DEF Local, Named
    <3>3. "global" \in Steps
      BY DEF Steps
    <3> QED
      BY <1>0, <2>2, <2>3, <3>2, <3>3, HandlersMove DEF ServerInv
  <2>4. CASE Moves(h, "idle", "done", "none") /\ frame'[h].status = 400
    <3>1. pc'[h] = "done" /\ frame'[h].label = "none"
      BY <1>0, <2>4 DEF Moves
    <3>2. Local(h)'
      BY <2>4, <3>1 DEF Local, Named
    <3>3. "done" \in Steps
      BY DEF Steps
    <3> QED
      BY <1>0, <2>2, <2>4, <3>2, <3>3, HandlersMove DEF ServerInv
  <2> QED
    BY <1>2, <2>3, <2>4 DEF Enters
<1>3. ASSUME NEW h \in Handlers, Passes(h) PROVE ServerInv'
  <2>1. SameBooks /\ audit' = audit
    BY <1>3 DEF Passes
  <2>2. StoreType' /\ ObserversType' /\ DOMAIN requestsTotal \subseteq DOMAIN requestsTotal'
    BY <1>0, <2>1 DEF SameBooks, StoreType, ObserversType
  <2>3. /\ Moves(h, "client", "bucket", "none") /\ Stays(h) /\ frame'[h].status = 0
        /\ pc[h] = "client" /\ pc'[h] = "bucket" /\ frame'[h].label = "none"
    BY <1>0, <1>3 DEF Passes, Moves
  <2>4. Local(h)'
    BY <1>0, <2>3 DEF Local, Named, Stays
  <2>5. "bucket" \in Steps
    BY DEF Steps
  <2> QED
    BY <1>0, <2>2, <2>3, <2>4, <2>5, HandlersMove DEF ServerInv
<1>4. ASSUME NEW h \in Handlers, NEW b \in Buckets, Takes(h, b) PROVE ServerInv'
  <2>1. StoreType'
    BY <1>0, <1>4 DEF Takes, StoreType
  <2>2. ObserversType' /\ requestsTotal' = requestsTotal
    BY <1>0, <1>4 DEF Takes, ObserversType, observers
  <2>3. Stays(h) /\ frame'[h].status = 0
    BY <1>4 DEF Takes
  <2>4. \E from, to \in Steps, l \in {"none", "allow"} :
          Moves(h, from, to, l) /\ Local(h)'
    <3>1. CASE Moves(h, "global", "ip", "none")
      <4>1. pc[h] = "global" /\ pc'[h] = "ip" /\ frame'[h].label = "none"
        BY <1>0, <3>1 DEF Moves
      <4>2. Local(h)'
        BY <1>0, <2>3, <4>1 DEF Local, Named, Stays
      <4> QED
        BY <3>1, <4>2 DEF Steps
    <3>2. CASE Moves(h, "ip", "client", "none")
      <4>1. pc[h] = "ip" /\ pc'[h] = "client" /\ frame'[h].label = "none"
        BY <1>0, <3>2 DEF Moves
      <4>2. Local(h)'
        BY <1>0, <2>3, <4>1 DEF Local, Named, Stays
      <4> QED
        BY <3>2, <4>2 DEF Steps
    <3>3. CASE Moves(h, "bucket", "audit", "allow")
      <4>1. pc[h] = "bucket" /\ pc'[h] = "audit" /\ frame'[h].label = "allow"
        BY <1>0, <3>3 DEF Moves
      <4>2. Local(h)'
        BY <1>0, <2>3, <4>1 DEF Local, Named, Stays, Labels
      <4> QED
        BY <3>3, <4>2 DEF Steps
    <3> QED
      BY <1>4, <3>1, <3>2, <3>3 DEF Takes
  <2> QED
    BY <1>0, <2>1, <2>2, <2>4, HandlersMove DEF ServerInv
<1>5. ASSUME NEW h \in Handlers, NEW b \in Buckets, Refuses(h, b) PROVE ServerInv'
  <2>1. StoreType'
    BY <1>0, <1>5 DEF Refuses, StoreType
  <2>2. ObserversType' /\ requestsTotal' = requestsTotal
    BY <1>0, <1>5 DEF Refuses, ObserversType, observers
  <2>3. Stays(h) /\ frame'[h].status = 0
    BY <1>5 DEF Refuses
  <2>4. PICK from \in {"global", "ip", "bucket", "client"}, l \in {"reject", "blocked"} :
          Moves(h, from, "audit", l)
    BY <1>5 DEF Refuses
  <2>5. pc[h] = from /\ pc'[h] = "audit" /\ frame'[h].label = l
    BY <1>0, <2>4 DEF Moves
  <2>6. Local(h)'
    BY <1>0, <2>3, <2>4, <2>5 DEF Local, Named, Stays, Labels
  <2>7. "audit" \in Steps
    BY DEF Steps
  <2> QED
    BY <1>0, <2>1, <2>2, <2>4, <2>6, <2>7, HandlersMove DEF ServerInv
<1>6. ASSUME NEW h \in Handlers, Logs(h) PROVE ServerInv'
  <2>1. StoreType' /\ ObserversType' /\ requestsTotal' = requestsTotal
    BY <1>0, <1>6 DEF Logs, StoreType, ObserversType
  <2>2. PICK to \in {"add", "create"} :
          /\ Moves(h, "audit", to, frame[h].label)
          /\ to = "add" => frame[h].label \in DOMAIN requestsTotal
    BY <1>6 DEF Logs
  <2>3. pc[h] = "audit" /\ pc'[h] = to /\ frame'[h] = frame[h]
    BY <1>0, <1>6, <2>2 DEF Moves, Logs
  <2>4. Local(h)'
    BY <1>0, <2>1, <2>2, <2>3 DEF Local, Named
  <2>5. to \in Steps
    BY <2>2 DEF Steps
  <2> QED
    BY <1>0, <2>1, <2>2, <2>4, <2>5, HandlersMove DEF ServerInv
<1>7. ASSUME NEW h \in Handlers, Counts(h) PROVE ServerInv'
  <2>1. PICK from \in {"add", "create"} : Moves(h, from, "finish", frame[h].label)
    BY <1>7 DEF Counts
  <2>2. pc[h] = from /\ pc'[h] = "finish" /\ frame'[h] = frame[h]
    BY <1>0, <1>7, <2>1 DEF Moves, Counts
  <2>3. frame[h].label \in Labels
    BY <1>0, <2>1, <2>2 DEF Local
  <2>4. /\ requestsTotal' \in [DOMAIN requestsTotal' -> Nat]
        /\ DOMAIN requestsTotal \subseteq DOMAIN requestsTotal' /\ DOMAIN requestsTotal' \subseteq Labels
    <3>1. DOMAIN requestsTotal \subseteq Labels
      BY <1>0 DEF ObserversType
    <3> QED
      BY <1>0, <1>7, <2>3, <3>1, CounterFacts DEF Counts
  <2>5. StoreType' /\ ObserversType'
    BY <1>0, <1>7, <2>4 DEF Counts, StoreType, ObserversType
  <2>6. Local(h)'
    BY <1>0, <2>1, <2>2 DEF Local, Named
  <2>7. "finish" \in Steps
    BY DEF Steps
  <2> QED
    BY <1>0, <2>1, <2>4, <2>5, <2>6, <2>7, HandlersMove DEF ServerInv
<1>8. ASSUME NEW h \in Handlers, Finishes(h) PROVE ServerInv'
  <2>1. /\ Moves(h, "finish", "done", frame[h].label) /\ Stays(h)
        /\ frame'[h].status = IF frame[h].label = "allow" THEN 200 ELSE 429
        /\ requestsTotal' = requestsTotal
    BY <1>8 DEF Finishes
  <2>2. pc[h] = "finish" /\ pc'[h] = "done" /\ frame'[h].label = frame[h].label
    BY <1>0, <2>1 DEF Moves
  <2>3. frame[h].key \in Keys
    BY <1>0, <2>2 DEF Local, Named
  <2>4. StoreType' /\ ObserversType'
    BY <1>0, <1>8, <2>3 DEF Finishes, RecordConsumption, StoreType, ObserversType
  <2>5. Local(h)'
    BY <1>0, <2>1, <2>2 DEF Local, Named, Stays
  <2>6. "done" \in Steps
    BY DEF Steps
  <2> QED
    BY <1>0, <2>1, <2>4, <2>5, <2>6, HandlersMove DEF ServerInv
<1> QED
  BY <1>1, <1>2, <1>3, <1>4, <1>5, <1>6, <1>7, <1>8 DEF ServerStep, WorkStep
-----------------------------------------------------------------------------
(* The books: how each kind of step changes the sums and the sets.         *)

Bit(p) == IF p THEN 1 ELSE 0

\* A set of handlers of which only h may have joined or left.
LEMMA SetChange ==
    ASSUME NEW S \in SUBSET Handlers, NEW T \in SUBSET Handlers, NEW h \in Handlers,
           \A g \in Handlers : g # h => (g \in T <=> g \in S)
    PROVE  /\ Cardinality(S) \in Nat /\ Cardinality(T) \in Nat
           /\ Cardinality(T) = Cardinality(S) + Bit(h \in T) - Bit(h \in S)
<1>1. IsFiniteSet(S) /\ IsFiniteSet(T) /\ Cardinality(S) \in Nat /\ Cardinality(T) \in Nat
  BY NamesAssumption, FS_Subset, FS_CardinalityType
<1>2. CASE h \in S /\ h \notin T
  <2>1. T = S \ {h}
    BY <1>2
  <2>2. Cardinality(T) = Cardinality(S) - 1
    BY <1>1, <1>2, <2>1, FS_RemoveElement
  <2> QED
    BY <1>1, <1>2, <2>2 DEF Bit
<1>3. CASE h \notin S /\ h \in T
  <2>1. T = S \cup {h}
    BY <1>3
  <2>2. Cardinality(T) = Cardinality(S) + 1
    BY <1>1, <1>3, <2>1, FS_AddElement
  <2> QED
    BY <1>1, <1>3, <2>2 DEF Bit
<1>4. CASE h \in S <=> h \in T
  <2>1. T = S
    BY <1>4
  <2> QED
    BY <1>1, <2>1 DEF Bit
<1> QED
  BY <1>2, <1>3, <1>4

\* Nothing granted or refused, nothing in the sum.
LEMMA SumZero ==
    ASSUME NEW S, IsFiniteSet(S), NEW f, \A x \in S : f[x] = 0
    PROVE  SumOver(f, S) = 0
<1> DEFINE P == {s \in SUBSET S : SumOver(f, s) = 0}
<1>1. ASSUME NEW s \in SUBSET S, \A t \in SUBSET s : t # s => t \in P PROVE s \in P
  <2>1. CASE s = {}
    BY <2>1, SumEmpty
  <2>2. CASE s # {}
    <3>1. PICK y \in s : TRUE
      BY <2>2
    <3>2. SumOver(f, s \ {y}) = 0
      BY <1>1
    <3>3. SumOver(f, s) = f[y] + SumOver(f, s \ {y})
      <4>1. IsFiniteSet(s) /\ \A x \in s : f[x] \in Nat
        BY FS_Subset
      <4> QED
        BY <4>1, SumRemove
    <3>4. SumOver(f, s) = 0
      BY <3>2, <3>3
    <3> QED
      BY <3>4
  <2> QED
    BY <2>1, <2>2
<1>2. P \in SUBSET (SUBSET S)
  OBVIOUS
<1>3. S \in P
  <2> HIDE DEF P
  <2> QED
    BY <1>1, <1>2, SubsetInduction
<1> QED
  BY <1>3

\* The buckets, and any set of them, are finite.
LEMMA BucketsFinite ==
    ASSUME NEW S \in SUBSET Buckets
    PROVE  IsFiniteSet(S)
<1>1. IsFiniteSet({Global})
  BY FS_Singleton
<1>2. IsFiniteSet(({Global} \cup IPs) \cup Keys)
  BY <1>1, NamesAssumption, FS_Union
<1> QED
  BY <1>2, FS_Subset DEF Buckets

\* A bucket's number goes up by one.
LEMMA SumBump ==
    ASSUME NEW f \in [Buckets -> Nat], NEW b \in Buckets, NEW S \in SUBSET Buckets
    PROVE  /\ SumOver(f, S) \in Nat
           /\ SumOver([f EXCEPT ![b] = @ + 1], S) = SumOver(f, S) + Bit(b \in S)
<1> DEFINE g == [f EXCEPT ![b] = @ + 1]
<1>1. IsFiniteSet(S)
  BY BucketsFinite
<1>2. (\A x \in S : f[x] \in Nat) /\ (\A x \in S : x # b => g[x] = f[x]) /\ g[b] = f[b] + 1
  OBVIOUS
<1> HIDE DEF g
<1>3. CASE b \in S
  <2>1. SumOver(g, S) = SumOver(f, S) + 1 /\ SumOver(f, S) \in Nat
    BY <1>1, <1>2, <1>3, SumMore, SumType
  <2> QED
    BY <1>3, <2>1 DEF Bit, g
<1>4. CASE b \notin S
  <2>1. \A x \in S : f[x] \in Nat /\ g[x] = f[x]
    BY <1>2, <1>4
  <2>2. SumOver(g, S) = SumOver(f, S) /\ SumOver(f, S) \in Nat
    BY <1>1, <2>1, SumSame, SumType
  <2> QED
    BY <1>4, <2>2 DEF Bit, g
<1> QED
  BY <1>3, <1>4

\* The three kinds of bucket.
LEMMA BucketKinds ==
    /\ IPs \in SUBSET Buckets /\ Keys \in SUBSET Buckets /\ Global \in Buckets
    /\ Buckets \in SUBSET Buckets
    /\ Global \notin IPs /\ Global \notin Keys
    /\ \A ip \in IPs : ip # Global /\ ip \notin Keys
    /\ \A k \in Keys : k # Global /\ k \notin IPs
BY NamesAssumption DEF Buckets

\* The handlers at some of the steps, when h moves.
LEMMA MovesCount ==
    ASSUME HandlersType, NEW h \in Handlers, NEW from, NEW to, NEW l, Moves(h, from, to, l),
           NEW P
    PROVE  Cardinality({g \in Handlers : pc'[g] \in P})
              = Cardinality({g \in Handlers : pc[g] \in P}) + Bit(to \in P) - Bit(from \in P)
<1> DEFINE S == {g \in Handlers : pc[g] \in P}
           T == {g \in Handlers : pc'[g] \in P}
<1>1. pc \in [Handlers -> Steps]
  BY DEF HandlersType
<1>2. pc[h] = from /\ pc'[h] = to /\ \A g \in Handlers : g # h => pc'[g] = pc[g]
  BY <1>1 DEF Moves
<1>3. S \in SUBSET Handlers /\ T \in SUBSET Handlers
  OBVIOUS
<1>4. \A g \in Handlers : g # h => (g \in T <=> g \in S)
  BY <1>2
<1>5. (h \in T <=> to \in P) /\ (h \in S <=> from \in P)
  BY <1>2
<1> HIDE DEF S, T
<1>6. Cardinality(T) = Cardinality(S) + Bit(h \in T) - Bit(h \in S)
  BY <1>3, <1>4, SetChange
<1>7. Bit(h \in T) = Bit(to \in P) /\ Bit(h \in S) = Bit(from \in P)
  BY <1>5 DEF Bit
<1> QED
  BY <1>6, <1>7 DEF S, T
-----------------------------------------------------------------------------
(* GateLedger.                                                             *)

\* The handlers before a client's gate.
BeforeClient(l) == l \in {"client", "bucket"}
AtClient == At("client") \cup At("bucket")

\* The numbers of GateLedger are naturals.
LEMMA LedgerType ==
    ASSUME ServerInv
    PROVE  /\ taken[Global] \in Nat /\ SumOver(taken, IPs) \in Nat /\ SumOver(refused, IPs) \in Nat
           /\ SumOver(taken, Keys) \in Nat /\ SumOver(refused, Keys) \in Nat
           /\ Cardinality(At("ip")) \in Nat
           /\ Cardinality(AtClient) \in Nat
<1>1. taken \in [Buckets -> Nat] /\ refused \in [Buckets -> Nat]
  BY DEF ServerInv, StoreType
<1>2. taken[Global] \in Nat
  BY <1>1, BucketKinds
<1>3. SumOver(taken, IPs) \in Nat /\ SumOver(refused, IPs) \in Nat
  BY <1>1, BucketKinds, SumBump
<1>4. SumOver(taken, Keys) \in Nat /\ SumOver(refused, Keys) \in Nat
  BY <1>1, BucketKinds, SumBump
<1>5. At("ip") \in SUBSET Handlers /\ AtClient \in SUBSET Handlers
  BY DEF At, AtClient
<1>6. \A S \in SUBSET Handlers : Cardinality(S) \in Nat
  BY NamesAssumption, FS_Subset, FS_CardinalityType
<1> QED
  BY <1>2, <1>3, <1>4, <1>5, <1>6

\* By how much a step changes the numbers: the tokens of the global bucket, those
\* taken from and refused by addresses, and by clients, and the handlers before an
\* address's gate and before a client's.
Ledger(tg, ti, ri, tk, rk, ni, nk) ==
    /\ taken'[Global] = taken[Global] + tg
    /\ SumOver(taken', IPs) = SumOver(taken, IPs) + ti
    /\ SumOver(refused', IPs) = SumOver(refused, IPs) + ri
    /\ SumOver(taken', Keys) = SumOver(taken, Keys) + tk
    /\ SumOver(refused', Keys) = SumOver(refused, Keys) + rk
    /\ Cardinality(At("ip")') = Cardinality(At("ip")) + ni
    /\ Cardinality(AtClient')
         = Cardinality(AtClient) + nk

\* Changes that balance keep the equations.
LEMMA Balanced ==
    ASSUME ServerInv, GateLedger,
           NEW tg \in Int, NEW ti \in Int, NEW ri \in Int, NEW tk \in Int, NEW rk \in Int,
           NEW ni \in Int, NEW nk \in Int, Ledger(tg, ti, ri, tk, rk, ni, nk),
           tg = ti + ri + ni, ti = tk + rk + nk
    PROVE  GateLedger'
<1>1. /\ taken[Global] \in Nat /\ SumOver(taken, IPs) \in Nat /\ SumOver(refused, IPs) \in Nat
      /\ SumOver(taken, Keys) \in Nat /\ SumOver(refused, Keys) \in Nat
      /\ Cardinality(At("ip")) \in Nat
      /\ Cardinality(AtClient) \in Nat
  BY LedgerType
<1>2. taken'[Global] = SumOver(taken', IPs) + SumOver(refused', IPs) + Cardinality(At("ip")')
  BY <1>1 DEF Ledger, GateLedger, AtClient
<1>3. SumOver(taken', IPs) = SumOver(taken', Keys) + SumOver(refused', Keys)
                         + Cardinality(AtClient')
  BY <1>1 DEF Ledger, GateLedger, AtClient
<1> QED
  BY <1>2, <1>3 DEF GateLedger, AtClient

\* The handlers before the gates.
LEMMA GateSets ==
    ASSUME HandlersType, NEW h \in Handlers, NEW from, NEW to, NEW l, Moves(h, from, to, l)
    PROVE  /\ Cardinality(At("ip")') = Cardinality(At("ip")) + (Bit(to = "ip") - Bit(from = "ip"))
           /\ Cardinality(AtClient')
                = Cardinality(AtClient)
                  + (Bit(BeforeClient(to)) - Bit(BeforeClient(from)))
<1> DEFINE S(P) == {g \in Handlers : pc[g] \in P}
           T(P) == {g \in Handlers : pc'[g] \in P}
<1>1. /\ At("ip") = S({"ip"}) /\ At("ip")' = T({"ip"})
      /\ AtClient = S({"client", "bucket"})
      /\ AtClient' = T({"client", "bucket"})
  BY DEF At, AtClient
<1>2. ASSUME NEW P
      PROVE  Cardinality(T(P)) = Cardinality(S(P)) + (Bit(to \in P) - Bit(from \in P))
  <2>1. Cardinality(T(P)) = Cardinality(S(P)) + Bit(to \in P) - Bit(from \in P)
    BY MovesCount
  <2>2. Cardinality(S(P)) \in Nat
    <3>1. S(P) \in SUBSET Handlers
      OBVIOUS
    <3> HIDE DEF S
    <3> QED
      BY <3>1, NamesAssumption, FS_Subset, FS_CardinalityType
  <2>3. Bit(to \in P) \in Int /\ Bit(from \in P) \in Int
    BY DEF Bit
  <2> HIDE DEF S, T
  <2> QED
    BY <2>1, <2>2, <2>3
<1>3. Bit(to \in {"ip"}) = Bit(to = "ip") /\ Bit(from \in {"ip"}) = Bit(from = "ip")
  BY DEF Bit
<1>4. /\ Cardinality(T({"ip"})) = Cardinality(S({"ip"})) + (Bit(to \in {"ip"}) - Bit(from \in {"ip"}))
      /\ Cardinality(T({"client", "bucket"}))
           = Cardinality(S({"client", "bucket"}))
             + (Bit(BeforeClient(to)) - Bit(BeforeClient(from)))
  BY <1>2 DEF BeforeClient
<1> HIDE DEF S, T
<1> QED
  BY <1>1, <1>3, <1>4

\* The buckets' sums, when bucket b grants or refuses.
Bumped(f, b, g) ==
    /\ g[Global] = f[Global] + Bit(b = Global)
    /\ SumOver(g, IPs) = SumOver(f, IPs) + Bit(b \in IPs)
    /\ SumOver(g, Keys) = SumOver(f, Keys) + Bit(b \in Keys)
    /\ SumOver(g, Buckets) = SumOver(f, Buckets) + 1

\* One of the summands goes up by one.
LEMMA BucketSums ==
    ASSUME NEW f \in [Buckets -> Nat], NEW b \in Buckets, NEW g, g = [f EXCEPT ![b] = @ + 1]
    PROVE  Bumped(f, b, g)
<1>1. g[Global] = f[Global] + Bit(b = Global)
  BY BucketKinds DEF Bit
<1>2. Bit(b \in Buckets) = 1
  BY DEF Bit
<1>3. ASSUME NEW S \in SUBSET Buckets
      PROVE  SumOver(g, S) = SumOver(f, S) + Bit(b \in S)
  BY SumBump
<1>4. IPs \in SUBSET Buckets /\ Keys \in SUBSET Buckets /\ Buckets \in SUBSET Buckets
  BY BucketKinds
<1>5. /\ SumOver(g, IPs) = SumOver(f, IPs) + Bit(b \in IPs)
      /\ SumOver(g, Keys) = SumOver(f, Keys) + Bit(b \in Keys)
      /\ SumOver(g, Buckets) = SumOver(f, Buckets) + 1
  BY <1>2, <1>3, <1>4
<1> QED
  BY <1>1, <1>5 DEF Bumped

\* A step that keeps the buckets' numbers, and moves no handler to or from a gate.
LEMMA LedgerKept ==
    ASSUME HandlersType, UNCHANGED <<taken, refused>>, NEW h \in Handlers, NEW from, NEW to, NEW l,
           Moves(h, from, to, l), NEW n \in Int, NEW m \in Int,
           n = Bit(to = "ip") - Bit(from = "ip"),
           m = Bit(BeforeClient(to)) - Bit(BeforeClient(from)),
           ServerInv
    PROVE  Ledger(0, 0, 0, 0, 0, n, m)
<1>1. /\ taken[Global] \in Nat /\ SumOver(taken, IPs) \in Nat /\ SumOver(refused, IPs) \in Nat
      /\ SumOver(taken, Keys) \in Nat /\ SumOver(refused, Keys) \in Nat
  BY LedgerType
<1>2. /\ taken'[Global] = taken[Global] /\ SumOver(taken', IPs) = SumOver(taken, IPs)
      /\ SumOver(refused', IPs) = SumOver(refused, IPs)
      /\ SumOver(taken', Keys) = SumOver(taken, Keys)
      /\ SumOver(refused', Keys) = SumOver(refused, Keys)
  OBVIOUS
<1>3. Cardinality(At("ip")') = Cardinality(At("ip")) + n
  BY GateSets
<1>4. Cardinality(AtClient')
        = Cardinality(AtClient) + m
  BY GateSets
<1> QED
  BY <1>1, <1>2, <1>3, <1>4 DEF Ledger

\* Every kind of step balances.
LEMMA GateLedgerStep ==
    ASSUME ServerInv, GateLedger, ServerStep
    PROVE  GateLedger'
<1>0. /\ StoreType /\ HandlersType /\ \A h \in Handlers : Local(h)
      /\ taken \in [Buckets -> Nat] /\ refused \in [Buckets -> Nat]
  BY DEF ServerInv, HandlersType, StoreType
<1>1. /\ taken[Global] \in Nat /\ SumOver(taken, IPs) \in Nat /\ SumOver(refused, IPs) \in Nat
      /\ SumOver(taken, Keys) \in Nat /\ SumOver(refused, Keys) \in Nat
  BY LedgerType
<1>2. CASE Idles
  BY <1>2 DEF Idles, SameBooks, GateLedger, At
<1>3. ASSUME NEW h \in Handlers, UNCHANGED <<taken, refused>>,
             NEW from \in {"idle", "audit", "add", "create", "finish"},
             NEW to \in {"global", "done", "add", "create", "finish"},
             NEW l, Moves(h, from, to, l)
      PROVE  GateLedger'
  <2>1. 0 = Bit(to = "ip") - Bit(from = "ip")
        /\ 0 = Bit(BeforeClient(to)) - Bit(BeforeClient(from))
    BY DEF Bit, BeforeClient
  <2>2. Ledger(0, 0, 0, 0, 0, 0, 0)
    BY <1>0, <1>3, <2>1, LedgerKept
  <2> QED
    BY <2>2, Balanced
<1>4. ASSUME NEW h \in Handlers, Passes(h) PROVE GateLedger'
  <2>1. UNCHANGED <<taken, refused>> /\ Moves(h, "client", "bucket", "none")
    BY <1>4 DEF Passes, SameBooks
  <2>2. 0 = Bit("bucket" = "ip") - Bit("client" = "ip")
        /\ 0 = Bit(BeforeClient("bucket")) - Bit(BeforeClient("client"))
    BY DEF Bit, BeforeClient
  <2>3. Ledger(0, 0, 0, 0, 0, 0, 0)
    BY <1>0, <2>1, <2>2, LedgerKept
  <2> QED
    BY <2>3, Balanced
<1>5. ASSUME NEW h \in Handlers, NEW b \in Buckets, Takes(h, b) PROVE GateLedger'
  <2>1. taken' = [taken EXCEPT ![b] = @ + 1] /\ refused' = refused
    BY <1>5 DEF Takes
  <2>2. /\ taken'[Global] = taken[Global] + Bit(b = Global)
        /\ SumOver(taken', IPs) = SumOver(taken, IPs) + Bit(b \in IPs)
        /\ SumOver(taken', Keys) = SumOver(taken, Keys) + Bit(b \in Keys)
    <3>1. Bumped(taken, b, taken')
      BY <1>0, <2>1, BucketSums
    <3> QED
      BY <3>1 DEF Bumped
  <2>3. SumOver(refused', IPs) = SumOver(refused, IPs) + 0
        /\ SumOver(refused', Keys) = SumOver(refused, Keys) + 0
    BY <1>1, <2>1
  <2>4. CASE b = Global /\ Moves(h, "global", "ip", "none")
    <3>1. Bit(b = Global) = 1 /\ Bit(b \in IPs) = 0 /\ Bit(b \in Keys) = 0
      BY <2>4, BucketKinds DEF Bit
    <3>2. /\ Bit("ip" = "ip") - Bit("global" = "ip") = 1
          /\ Bit(BeforeClient("ip")) - Bit(BeforeClient("global")) = 0
      BY DEF Bit, BeforeClient
    <3>3. Ledger(1, 0, 0, 0, 0, 1, 0)
      <4>1. Cardinality(At("ip")') = Cardinality(At("ip")) + (1)
        BY <1>0, <2>4, <3>2, GateSets
      <4>2. Cardinality(AtClient')
              = Cardinality(AtClient) + (0)
        BY <1>0, <2>4, <3>2, GateSets
      <4> QED
        BY <2>2, <2>3, <3>1, <4>1, <4>2 DEF Ledger
    <3> QED
      BY <3>3, Balanced
  <2>5. CASE b = frame[h].ip /\ Moves(h, "ip", "client", "none")
    <3>0. b \in IPs
      <4>1. pc[h] = "ip" /\ Local(h)
        BY <1>0, <2>5 DEF Moves
      <4> QED
        BY <2>5, <4>1 DEF Local, Named
    <3>1. Bit(b = Global) = 0 /\ Bit(b \in IPs) = 1 /\ Bit(b \in Keys) = 0
      BY <3>0, BucketKinds DEF Bit
    <3>2. /\ Bit("client" = "ip") - Bit("ip" = "ip") = -1
          /\ Bit(BeforeClient("client")) - Bit(BeforeClient("ip")) = 1
      BY DEF Bit, BeforeClient
    <3>3. Ledger(0, 1, 0, 0, 0, -1, 1)
      <4>1. Cardinality(At("ip")') = Cardinality(At("ip")) + (-1)
        BY <1>0, <2>5, <3>2, GateSets
      <4>2. Cardinality(AtClient')
              = Cardinality(AtClient) + (1)
        BY <1>0, <2>5, <3>2, GateSets
      <4> QED
        BY <2>2, <2>3, <3>1, <4>1, <4>2 DEF Ledger
    <3> QED
      BY <3>3, Balanced
  <2>6. CASE b = frame[h].key /\ Moves(h, "bucket", "audit", "allow")
    <3>0. b \in Keys
      <4>1. pc[h] = "bucket" /\ Local(h)
        BY <1>0, <2>6 DEF Moves
      <4> QED
        BY <2>6, <4>1 DEF Local, Named
    <3>1. Bit(b = Global) = 0 /\ Bit(b \in IPs) = 0 /\ Bit(b \in Keys) = 1
      BY <3>0, BucketKinds DEF Bit
    <3>2. /\ Bit("audit" = "ip") - Bit("bucket" = "ip") = 0
          /\ Bit(BeforeClient("audit")) - Bit(BeforeClient("bucket")) = -1
      BY DEF Bit, BeforeClient
    <3>3. Ledger(0, 0, 0, 1, 0, 0, -1)
      <4>1. Cardinality(At("ip")') = Cardinality(At("ip")) + (0)
        BY <1>0, <2>6, <3>2, GateSets
      <4>2. Cardinality(AtClient')
              = Cardinality(AtClient) + (-1)
        BY <1>0, <2>6, <3>2, GateSets
      <4> QED
        BY <2>2, <2>3, <3>1, <4>1, <4>2 DEF Ledger
    <3> QED
      BY <3>3, Balanced
  <2> QED
    BY <1>5, <2>4, <2>5, <2>6 DEF Takes
<1>6. ASSUME NEW h \in Handlers, NEW b \in Buckets, Refuses(h, b) PROVE GateLedger'
  <2>1. refused' = [refused EXCEPT ![b] = @ + 1] /\ taken' = taken
    BY <1>6 DEF Refuses
  <2>2. /\ SumOver(refused', IPs) = SumOver(refused, IPs) + Bit(b \in IPs)
        /\ SumOver(refused', Keys) = SumOver(refused, Keys) + Bit(b \in Keys)
    <3>1. Bumped(refused, b, refused')
      BY <1>0, <2>1, BucketSums
    <3> QED
      BY <3>1 DEF Bumped
  <2>3. /\ taken'[Global] = taken[Global] + 0
        /\ SumOver(taken', IPs) = SumOver(taken, IPs) + 0
        /\ SumOver(taken', Keys) = SumOver(taken, Keys) + 0
    BY <1>1, <2>1
  <2>4. CASE b = Global /\ Moves(h, "global", "audit", "reject")
    <3>1. Bit(b \in IPs) = 0 /\ Bit(b \in Keys) = 0
      BY <2>4, BucketKinds DEF Bit
    <3>2. /\ Bit("audit" = "ip") - Bit("global" = "ip") = 0
          /\ Bit(BeforeClient("audit")) - Bit(BeforeClient("global")) = 0
      BY DEF Bit, BeforeClient
    <3>3. Ledger(0, 0, 0, 0, 0, 0, 0)
      <4>1. Cardinality(At("ip")') = Cardinality(At("ip")) + (0)
        BY <1>0, <2>4, <3>2, GateSets
      <4>2. Cardinality(AtClient')
              = Cardinality(AtClient) + (0)
        BY <1>0, <2>4, <3>2, GateSets
      <4> QED
        BY <2>2, <2>3, <3>1, <4>1, <4>2 DEF Ledger
    <3> QED
      BY <3>3, Balanced
  <2>5. CASE b = frame[h].ip /\ Moves(h, "ip", "audit", "reject")
    <3>0. b \in IPs
      <4>1. pc[h] = "ip" /\ Local(h)
        BY <1>0, <2>5 DEF Moves
      <4> QED
        BY <2>5, <4>1 DEF Local, Named
    <3>1. Bit(b \in IPs) = 1 /\ Bit(b \in Keys) = 0
      BY <3>0, BucketKinds DEF Bit
    <3>2. /\ Bit("audit" = "ip") - Bit("ip" = "ip") = -1
          /\ Bit(BeforeClient("audit")) - Bit(BeforeClient("ip")) = 0
      BY DEF Bit, BeforeClient
    <3>3. Ledger(0, 0, 1, 0, 0, -1, 0)
      <4>1. Cardinality(At("ip")') = Cardinality(At("ip")) + (-1)
        BY <1>0, <2>5, <3>2, GateSets
      <4>2. Cardinality(AtClient')
              = Cardinality(AtClient) + (0)
        BY <1>0, <2>5, <3>2, GateSets
      <4> QED
        BY <2>2, <2>3, <3>1, <4>1, <4>2 DEF Ledger
    <3> QED
      BY <3>3, Balanced
  <2>6. ASSUME b = frame[h].key, NEW from \in {"bucket", "client"}, NEW l,
               Moves(h, from, "audit", l)
        PROVE  GateLedger'
    <3>0. b \in Keys
      <4>1. pc[h] = from /\ Local(h)
        BY <1>0, <2>6 DEF Moves
      <4> QED
        BY <2>6, <4>1 DEF Local, Named
    <3>1. Bit(b \in IPs) = 0 /\ Bit(b \in Keys) = 1
      BY <3>0, BucketKinds DEF Bit
    <3>2. /\ Bit("audit" = "ip") - Bit(from = "ip") = 0
          /\ Bit(BeforeClient("audit")) - Bit(BeforeClient(from)) = -1
      <4>1. CASE from = "bucket"
        BY <4>1 DEF Bit, BeforeClient
      <4>2. CASE from = "client"
        BY <4>2 DEF Bit, BeforeClient
      <4> QED
        BY <2>6, <4>1, <4>2
    <3>3. Ledger(0, 0, 0, 0, 1, 0, -1)
      <4>1. Cardinality(At("ip")') = Cardinality(At("ip")) + (0)
        BY <1>0, <2>6, <3>2, GateSets
      <4>2. Cardinality(AtClient')
              = Cardinality(AtClient) + (-1)
        BY <1>0, <2>6, <3>2, GateSets
      <4> QED
        BY <2>2, <2>3, <3>1, <4>1, <4>2 DEF Ledger
    <3> QED
      BY <3>3, Balanced
  <2> QED
    BY <1>6, <2>4, <2>5, <2>6 DEF Refuses
<1>7. ASSUME NEW h \in Handlers, Enters(h) \/ Logs(h) \/ Counts(h) \/ Finishes(h) PROVE GateLedger'
  <2>1. UNCHANGED <<taken, refused>>
    BY <1>7 DEF Enters, SameBooks, Logs, Counts, Finishes
  <2>2. \E from \in {"idle", "audit", "add", "create", "finish"},
           to \in {"global", "done", "add", "create", "finish"} : \E l : Moves(h, from, to, l)
    BY <1>7 DEF Enters, Logs, Counts, Finishes
  <2> QED
    BY <1>3, <2>1, <2>2
<1> QED
  BY <1>2, <1>4, <1>5, <1>6, <1>7 DEF ServerStep, WorkStep
-----------------------------------------------------------------------------
(* The server under the simulator and the other clients.                   *)

SimType ==
    /\ sim \in [Clients -> [at : {"ready", "await", "done"}, sent : Nat,
                            res : [Allowed : Nat, Rejected : Nat, Errors : Nat]]]
    /\ \A c \in Clients : sim[c].sent <= Turns[c]

\* A client that has sent nothing.
LEMMA SimTypeInit == Init => SimType
BY TurnsAssumption DEF Init, SimType, NoResult

\* A client's requests have their handlers.
LEMMA ClientHandler ==
    ASSUME NEW c \in Clients, NEW i \in 1 .. Turns[c]
    PROVE  <<c, i>> \in Handlers
BY HandlersAssumption

\* Each client counts on.
LEMMA SimTypeStep ==
    ASSUME SimType, Next \/ UNCHANGED vars
    PROVE  SimType'
<1> DEFINE R == [Allowed : Nat, Rejected : Nat, Errors : Nat]
           C == [at : {"ready", "await", "done"}, sent : Nat, res : R]
<1>1. sim \in [Clients -> C] /\ \A c \in Clients : sim[c].sent <= Turns[c]
  BY DEF SimType
<1>2. ASSUME NEW c \in Clients, NEW r \in C, r.sent <= Turns[c], sim' = [sim EXCEPT ![c] = r]
      PROVE  SimType'
  <2> HIDE DEF C
  <2>1. sim' \in [Clients -> C] /\ sim'[c] = r /\ \A d \in Clients : d # c => sim'[d] = sim[d]
    BY <1>1, <1>2
  <2>2. \A d \in Clients : sim'[d].sent <= Turns[d]
    BY <1>1, <1>2, <2>1
  <2> QED
    BY <2>1, <2>2 DEF SimType, C
<1>3. CASE sim' = sim
  BY <1>3 DEF SimType
<1>4. ASSUME NEW c \in Clients, RunClient(c) PROVE SimType'
  <2> DEFINE s == sim[c]
             n == s.sent + 1
  <2>0. s \in C /\ s.sent <= Turns[c] /\ s.res \in R
    BY <1>1
  <2>1. s.sent < Turns[c] => n \in Nat /\ n <= Turns[c]
    BY <2>0, TurnsAssumption
  <2>2. CASE DoRequest(c)
    <3> DEFINE r == [s EXCEPT !.at = "await", !.sent = n]
    <3>1. sim' = [sim EXCEPT ![c] = r] /\ s.sent < Turns[c]
      BY <1>1, <2>2 DEF DoRequest
    <3> HIDE DEF n, s, R
    <3>2. r \in C /\ r.sent <= Turns[c]
      BY <2>0, <2>1, <3>1
    <3> QED
      BY <1>2, <3>1, <3>2
  <2>3. CASE Answer(c)
    <3> DEFINE ok == frame[<<c, sim[c].sent>>].status = 200
               a == IF ok THEN s.res.Allowed + 1 ELSE s.res.Allowed
               b == IF ok THEN s.res.Rejected ELSE s.res.Rejected + 1
               q == [s.res EXCEPT !.Allowed = a, !.Rejected = b]
               r == [s EXCEPT !.at = "ready", !.res = q]
    <3>1. sim' = [sim EXCEPT ![c] = r]
      BY <1>1, <2>3, SMTT(30) DEF Answer
    <3>2. q \in R
      <4>1. s.res.Allowed \in Nat /\ s.res.Rejected \in Nat
        BY <2>0
      <4>2. a \in Nat /\ b \in Nat
        BY <4>1
      <4> DEFINE t == s.res
      <4>3. t \in R
        BY <2>0
      <4> HIDE DEF a, b, t
      <4>4. [t EXCEPT !.Allowed = a, !.Rejected = b] \in R
        BY <4>2, <4>3
      <4> QED
        BY <4>4 DEF t
    <3> HIDE DEF s, R, q
    <3>3. r \in C /\ r.sent <= Turns[c]
      BY <2>0, <3>2
    <3> QED
      BY <1>2, <3>1, <3>3
  <2>4. CASE DoError(c)
    <3> DEFINE q == [s.res EXCEPT !.Errors = @ + 1]
               r1 == [s EXCEPT !.sent = n, !.res = q]
               r2 == [s EXCEPT !.at = "ready", !.res = q]
    <3>1. \/ s.sent < Turns[c] /\ sim' = [sim EXCEPT ![c] = r1]
          \/ sim' = [sim EXCEPT ![c] = r2]
      BY <1>1, <2>4 DEF DoError
    <3>2. q \in R
      <4> HIDE DEF s
      <4> QED
        BY <2>0
    <3> HIDE DEF n, s, R, q
    <3>3. s.sent < Turns[c] => r1 \in C /\ r1.sent <= Turns[c]
      BY <2>0, <2>1, <3>2
    <3>4. r2 \in C /\ r2.sent <= Turns[c]
      BY <2>0, <3>2
    <3> QED
      BY <1>2, <3>1, <3>3, <3>4
  <2>5. CASE Deliver(c)
    <3> DEFINE r == [s EXCEPT !.at = "done"]
    <3>1. sim' = [sim EXCEPT ![c] = r]
      BY <1>1, <2>5 DEF Deliver
    <3> HIDE DEF s, R
    <3>2. r \in C /\ r.sent <= Turns[c]
      BY <2>0
    <3> QED
      BY <1>2, <3>1, <3>2
  <2> QED
    BY <1>4, <2>2, <2>3, <2>4, <2>5 DEF RunClient
<1> QED
  BY <1>3, <1>4 DEF Next, Report, OtherRequest, simVars, vars

\* What the simulator and the other clients do to the server is one of the kinds
\* of step as well.
LEMMA StepNext ==
    ASSUME ServerInv, SimType, Next \/ UNCHANGED vars
    PROVE  ServerStep
<1>1. ASSUME NEW h \in Handlers, NEW req, SourceIP(req) \in IPs, HandleRequest(h, req)
      PROVE  ServerStep
  BY <1>1, StepHandleRequest DEF ServerStep
<1>2. ASSUME NEW c \in Clients, DoRequest(c) PROVE ServerStep
  <2>1. sim[c].sent + 1 \in 1 .. Turns[c] /\ HandleRequest(<<c, sim[c].sent + 1>>, Profile(c))
    BY <1>2, TurnsAssumption DEF DoRequest, SimType
  <2>2. SourceIP(Profile(c)) \in IPs
    BY NamesAssumption DEF SourceIP, Profile
  <2> QED
    BY <1>1, <2>1, <2>2, ClientHandler
<1>3. ASSUME NEW h \in Others, NEW req \in Requests, OtherRequest(h, req) PROVE ServerStep
  <2>1. h \in Handlers /\ HandleRequest(h, req)
    BY <1>3, HandlersAssumption DEF OtherRequest
  <2>2. SourceIP(req) \in IPs
    BY RequestsAssumption DEF SourceIP
  <2> QED
    BY <1>1, <2>1, <2>2
<1>4. CASE UNCHANGED serverVars
  BY <1>4, StepServer DEF ServerStep
<1>5. ASSUME NEW c \in Clients, RunClient(c) PROVE ServerStep
  BY <1>2, <1>4, <1>5 DEF RunClient, Answer, DoError, Deliver
<1>6. CASE Report
  BY <1>4, <1>6 DEF Report
<1>7. CASE UNCHANGED vars
  BY <1>4, <1>7 DEF vars
<1>8. CASE ServerNext
  BY <1>8, StepServer DEF ServerStep
<1> QED
  BY <1>3, <1>5, <1>6, <1>7, <1>8 DEF Next

\* The types of the server and the simulator.
LEMMA Typed == Spec => [](ServerInv /\ SimType)
<1>1. Init => ServerInv /\ SimType
  BY ServerInvInit, SimTypeInit DEF Init
<1>2. ServerInv /\ SimType /\ [Next]_vars => (ServerInv /\ SimType)'
  BY StepNext, ServerInvStep, SimTypeStep
<1> QED
  BY <1>1, <1>2, PTL DEF Spec

\* The equations hold of a server that has not seen a request.
LEMMA GateLedgerInit == ServerInit => GateLedger
<1> SUFFICES ASSUME ServerInit PROVE GateLedger
  OBVIOUS
<1>1. taken[Global] = 0
  BY BucketKinds DEF ServerInit
<1>2. \A S \in SUBSET Buckets : SumOver(taken, S) = 0 /\ SumOver(refused, S) = 0
  BY SumZero, BucketsFinite DEF ServerInit
<1>3. At("ip") = {} /\ At("client") \cup At("bucket") = {}
  BY DEF ServerInit, At
<1>4. Cardinality({}) = 0
  BY FS_EmptySet
<1>5. SumOver(taken, IPs) = 0 /\ SumOver(refused, IPs) = 0
      /\ SumOver(taken, Keys) = 0 /\ SumOver(refused, Keys) = 0
  BY <1>2, BucketKinds
<1> QED
  BY <1>1, <1>3, <1>4, <1>5 DEF GateLedger

\* store.Allow has no refund between its gates: for any number of handlers, each
\* token that a gate takes belongs to a request that then asked the next gate.
THEOREM GateLedgerTheorem == Spec => []GateLedger
<1>1. Init => GateLedger
  BY GateLedgerInit DEF Init
<1>2. ServerInv /\ SimType /\ GateLedger /\ [Next]_vars => GateLedger'
  BY StepNext, GateLedgerStep
<1> QED
  BY <1>1, <1>2, Typed, PTL DEF Spec
-----------------------------------------------------------------------------
(* DecisionsCounted, one lemma for each of its equations.                  *)

Uncounted(l) == l \in NotCounted
Owed(k) == {h \in Labelled("allow", NotCounted \cup {"finish"}) : frame[h].key = k}
Unlogged == {h \in At("audit") : frame[h].label # "allow"}

AllowedCounted == Decided("allow") = SumOver(taken, Keys)
RefusedCounted == Decided("reject") + Decided("blocked") = SumOver(refused, Buckets)
Observed == SumOver(requestsTotal, DOMAIN requestsTotal) = latencies + Cardinality(At("finish"))
Consumed == \A k \in Keys : taken[k] = consumption[k] + Cardinality(Owed(k))
Summed == virtualTime = SumOver(consumption, Keys)
Logged == SumOver(refused, Buckets) = audit.reject + Cardinality(Unlogged)

\* What a move says of the handlers.
LEMMA MovesFacts ==
    ASSUME HandlersType, NEW h \in Handlers, NEW from, NEW to, NEW l, Moves(h, from, to, l)
    PROVE  /\ pc[h] = from /\ pc'[h] = to /\ frame'[h].label = l
           /\ \A g \in Handlers : g # h => pc'[g] = pc[g] /\ frame'[g] = frame[g]
BY DEF HandlersType, Moves

\* The decided requests that are not counted yet, when h moves.
LEMMA LabelledChange ==
    ASSUME HandlersType, NEW h \in Handlers, NEW from, NEW to, NEW l, Moves(h, from, to, l), NEW m
    PROVE  /\ Cardinality(Labelled(m, NotCounted)) \in Nat
           /\ Cardinality(Labelled(m, NotCounted)')
                = Cardinality(Labelled(m, NotCounted))
                  + Bit(l = m /\ Uncounted(to)) - Bit(frame[h].label = m /\ Uncounted(from))
<1> DEFINE S == Labelled(m, NotCounted)
           T == Labelled(m, NotCounted)'
<1>1. S \in SUBSET Handlers /\ T \in SUBSET Handlers
  BY DEF Labelled
<1>2. \A g \in Handlers : g # h => (g \in T <=> g \in S)
  BY MovesFacts DEF Labelled
<1>3. (h \in T <=> (l = m /\ Uncounted(to))) /\ (h \in S <=> (frame[h].label = m /\ Uncounted(from)))
  BY MovesFacts DEF Labelled, Uncounted
<1> HIDE DEF S, T
<1>4. Cardinality(S) \in Nat /\ Cardinality(T) = Cardinality(S) + Bit(h \in T) - Bit(h \in S)
  BY <1>1, <1>2, SetChange
<1>5. Bit(h \in T) = Bit(l = m /\ Uncounted(to))
      /\ Bit(h \in S) = Bit(frame[h].label = m /\ Uncounted(from))
  BY <1>3 DEF Bit
<1> QED
  BY <1>4, <1>5 DEF S, T

\* A count is a number.
LEMMA CountType ==
    ASSUME ServerInv, NEW m
    PROVE  Count(m) \in Nat /\ Cardinality(Labelled(m, NotCounted)) \in Nat /\ Decided(m) \in Nat
<1>1. requestsTotal \in [DOMAIN requestsTotal -> Nat]
  BY DEF ServerInv, ObserversType
<1>2. Count(m) \in Nat
  BY <1>1 DEF Count
<1>3. Labelled(m, NotCounted) \in SUBSET Handlers
  BY DEF Labelled
<1>4. Cardinality(Labelled(m, NotCounted)) \in Nat
  BY <1>3, NamesAssumption, FS_Subset, FS_CardinalityType
<1> QED
  BY <1>2, <1>4 DEF Decided

\* A step that counts nothing.
LEMMA DecidedChange ==
    ASSUME ServerInv, requestsTotal' = requestsTotal,
           NEW h \in Handlers, NEW from, NEW to, NEW l, Moves(h, from, to, l), NEW m
    PROVE  Decided(m)' = Decided(m) + (Bit(l = m /\ Uncounted(to))
                                       - Bit(frame[h].label = m /\ Uncounted(from)))
<1>1. Count(m)' = Count(m)
  BY DEF Count
<1>2. Count(m) \in Nat /\ Cardinality(Labelled(m, NotCounted)) \in Nat
  BY CountType
<1> DEFINE x == Bit(l = m /\ Uncounted(to))
           y == Bit(frame[h].label = m /\ Uncounted(from))
<1>3. x \in Int /\ y \in Int
  BY DEF Bit
<1>4. Cardinality(Labelled(m, NotCounted)') = Cardinality(Labelled(m, NotCounted)) + x - y
  BY LabelledChange DEF ServerInv
<1>5. Decided(m)' = Count(m)' + Cardinality(Labelled(m, NotCounted)')
      /\ Decided(m) = Count(m) + Cardinality(Labelled(m, NotCounted))
  BY DEF Decided
<1> HIDE DEF x, y
<1>6. Decided(m)' = Decided(m) + (x - y)
  BY <1>1, <1>2, <1>3, <1>4, <1>5
<1> QED
  BY <1>6 DEF x, y

\* Counting a decision.
LEMMA DecidedCounts ==
    ASSUME ServerInv, NEW h \in Handlers, Counts(h), NEW m
    PROVE  Decided(m)' = Decided(m)
<1> DEFINE l == frame[h].label
<1>1. PICK from \in {"add", "create"} : Moves(h, from, "finish", l)
  BY DEF Counts
<1>2. HandlersType /\ ObserversType /\ Local(h)
  BY DEF ServerInv, HandlersType
<1>3. pc[h] = from
  BY <1>1 DEF Moves
<1>4. l \in Labels
  BY <1>1, <1>2, <1>3 DEF Local
<1>5. Count(m)' = Count(m) + Bit(l = m)
  <2>1. requestsTotal \in [DOMAIN requestsTotal -> Nat]
    BY <1>2 DEF ObserversType
  <2>2. /\ l \in DOMAIN requestsTotal' /\ DOMAIN requestsTotal' = DOMAIN requestsTotal \cup {l}
        /\ requestsTotal'[l] = Count(l) + 1
        /\ \A x \in DOMAIN requestsTotal : x # l => requestsTotal'[x] = requestsTotal[x]
    <3>1. CASE Add(l) /\ l \in DOMAIN requestsTotal
      <4> HIDE DEF l
      <4> QED
        BY <1>2, <1>4, <3>1, CounterFacts DEF Count
    <3>2. CASE Create(l) /\ l \notin DOMAIN requestsTotal
      <4>1. /\ DOMAIN requestsTotal' = DOMAIN requestsTotal \cup {l} /\ requestsTotal'[l] = 1
            /\ \A x \in DOMAIN requestsTotal : x # l => requestsTotal'[x] = requestsTotal[x]
        BY <1>2, <1>4, <3>2, CounterFacts
      <4>2. Count(l) = 0
        BY <3>2 DEF Count
      <4> HIDE DEF l
      <4> QED
        BY <4>1, <4>2
    <3> QED
      BY <3>1, <3>2 DEF Counts
  <2> HIDE DEF l
  <2>3. CASE l = m
    <3>1. Count(m)' = Count(m) + 1
      BY <2>2, <2>3 DEF Count
    <3> QED
      BY <2>3, <3>1 DEF Bit
  <2>4. CASE l # m
    <3>1. Count(m)' = Count(m) /\ Count(m) \in Nat
      BY <2>1, <2>2, <2>4 DEF Count
    <3> QED
      BY <2>4, <3>1 DEF Bit
  <2> QED
    BY <2>3, <2>4
<1>6. Cardinality(Labelled(m, NotCounted)') = Cardinality(Labelled(m, NotCounted)) - Bit(l = m)
  <2>1. ~Uncounted("finish") /\ Uncounted(from)
    BY <1>1 DEF Uncounted, NotCounted
  <2>2. Cardinality(Labelled(m, NotCounted)')
          = Cardinality(Labelled(m, NotCounted))
            + Bit(l = m /\ Uncounted("finish")) - Bit(l = m /\ Uncounted(from))
        /\ Cardinality(Labelled(m, NotCounted)) \in Nat
    BY <1>1, <1>2, LabelledChange
  <2>3. Bit(l = m /\ Uncounted("finish")) = 0 /\ Bit(l = m /\ Uncounted(from)) = Bit(l = m)
    BY <2>1 DEF Bit
  <2>4. Bit(l = m) \in Int
    BY DEF Bit
  <2> HIDE DEF l
  <2> QED
    BY <2>2, <2>3, <2>4
<1>7. Count(m) \in Nat /\ Cardinality(Labelled(m, NotCounted)) \in Nat /\ Bit(l = m) \in Int
  BY CountType DEF Bit
<1> QED
  BY <1>5, <1>6, <1>7 DEF Decided

\* The decisions, by kind of step.
LEMMA DecidedStep ==
    ASSUME ServerInv, NEW m \in Labels
    PROVE  /\ Idles => Decided(m)' = Decided(m)
           /\ \A h \in Handlers :
                /\ Enters(h) \/ Passes(h) \/ Logs(h) \/ Counts(h) \/ Finishes(h) =>
                    Decided(m)' = Decided(m)
                /\ \A b \in Buckets :
                    /\ Takes(h, b) => Decided(m)' = Decided(m) + Bit(m = "allow" /\ b \in Keys)
                    /\ Refuses(h, b) => /\ frame'[h].label \in {"reject", "blocked"}
                                        /\ Decided(m)' = Decided(m) + Bit(m = frame'[h].label)
<1>0. HandlersType /\ (\A h \in Handlers : Local(h)) /\ Decided(m) \in Nat
  BY CountType DEF ServerInv, HandlersType
<1>1. ASSUME Idles PROVE Decided(m)' = Decided(m)
  BY <1>1 DEF Idles, SameBooks, Decided, Count, Labelled
<1>2. ASSUME NEW h \in Handlers, requestsTotal' = requestsTotal, NEW from, NEW to, NEW l,
             Moves(h, from, to, l), ~Uncounted(from), ~Uncounted(to)
      PROVE  Decided(m)' = Decided(m)
  <2>1. Bit(l = m /\ Uncounted(to)) = 0 /\ Bit(frame[h].label = m /\ Uncounted(from)) = 0
    BY <1>2 DEF Bit
  <2> QED
    BY <1>0, <1>2, <2>1, DecidedChange
<1>3. ASSUME NEW h \in Handlers, Enters(h) \/ Passes(h) \/ Finishes(h)
      PROVE  Decided(m)' = Decided(m)
  <2>1. \E from \in {"idle", "client", "finish"}, to \in {"global", "done", "bucket"} :
          \E l : Moves(h, from, to, l)
    BY <1>3 DEF Enters, Passes, Finishes
  <2>2. requestsTotal' = requestsTotal
    BY <1>3 DEF Enters, Passes, Finishes, SameBooks
  <2>3. \A x \in {"idle", "client", "finish", "global", "done", "bucket"} : ~Uncounted(x)
    BY DEF Uncounted, NotCounted
  <2> QED
    BY <1>2, <2>1, <2>2, <2>3
<1>4. ASSUME NEW h \in Handlers, Logs(h) PROVE Decided(m)' = Decided(m)
  <2>1. PICK to \in {"add", "create"} : Moves(h, "audit", to, frame[h].label)
    BY <1>4 DEF Logs
  <2>2. requestsTotal' = requestsTotal
    BY <1>4 DEF Logs
  <2>3. Uncounted("audit") /\ Uncounted(to)
    BY <2>1 DEF Uncounted, NotCounted
  <2>4. Bit(frame[h].label = m /\ Uncounted(to)) - Bit(frame[h].label = m /\ Uncounted("audit")) = 0
    BY <2>3 DEF Bit
  <2> QED
    BY <1>0, <2>1, <2>2, <2>4, DecidedChange
<1>5. ASSUME NEW h \in Handlers, NEW b \in Buckets, Takes(h, b)
      PROVE  Decided(m)' = Decided(m) + Bit(m = "allow" /\ b \in Keys)
  <2>1. requestsTotal' = requestsTotal
    BY <1>5 DEF Takes, observers
  <2>2. ASSUME NEW from \in {"global", "ip"}, NEW to \in {"ip", "client"}, b \notin Keys,
               Moves(h, from, to, "none")
        PROVE  Decided(m)' = Decided(m) + Bit(m = "allow" /\ b \in Keys)
    <3>1. ~Uncounted(from) /\ ~Uncounted(to)
      BY <2>2 DEF Uncounted, NotCounted
    <3>2. Decided(m)' = Decided(m)
      BY <1>2, <2>1, <2>2, <3>1
    <3>3. Bit(m = "allow" /\ b \in Keys) = 0
      BY <2>2 DEF Bit
    <3> QED
      BY <1>0, <3>2, <3>3
  <2>3. CASE b = Global /\ Moves(h, "global", "ip", "none")
    BY <2>2, <2>3, BucketKinds
  <2>4. CASE b = frame[h].ip /\ Moves(h, "ip", "client", "none")
    <3>1. b \in IPs
      BY <1>0, <2>4, MovesFacts DEF Local, Named
    <3> QED
      BY <2>2, <2>4, <3>1, BucketKinds
  <2>5. CASE b = frame[h].key /\ Moves(h, "bucket", "audit", "allow")
    <3>1. b \in Keys
      BY <1>0, <2>5, MovesFacts DEF Local, Named
    <3>2. Uncounted("audit") /\ ~Uncounted("bucket")
      BY DEF Uncounted, NotCounted
    <3>3. Bit("allow" = m /\ Uncounted("audit"))
            - Bit(frame[h].label = m /\ Uncounted("bucket")) = Bit(m = "allow" /\ b \in Keys)
      BY <3>1, <3>2 DEF Bit
    <3> QED
      BY <2>1, <2>5, <3>3, DecidedChange
  <2> QED
    BY <1>5, <2>3, <2>4, <2>5 DEF Takes
<1>6. ASSUME NEW h \in Handlers, NEW b \in Buckets, Refuses(h, b)
      PROVE  /\ frame'[h].label \in {"reject", "blocked"}
             /\ Decided(m)' = Decided(m) + Bit(m = frame'[h].label)
  <2>1. requestsTotal' = requestsTotal
    BY <1>6 DEF Refuses, observers
  <2>2. PICK from \in {"global", "ip", "bucket", "client"}, l \in {"reject", "blocked"} :
          Moves(h, from, "audit", l)
    BY <1>6 DEF Refuses
  <2>3. frame'[h].label = l
    BY <2>2 DEF Moves
  <2>4. Uncounted("audit") /\ ~Uncounted(from)
    BY <2>2 DEF Uncounted, NotCounted
  <2>5. Bit(l = m /\ Uncounted("audit"))
          - Bit(frame[h].label = m /\ Uncounted(from)) = Bit(m = l)
    BY <2>4 DEF Bit
  <2>6. Decided(m)' = Decided(m) + Bit(m = l)
    BY <2>1, <2>2, <2>5, DecidedChange
  <2> QED
    BY <2>2, <2>3, <2>6
<1> QED
  BY <1>1, <1>3, <1>4, <1>5, <1>6, DecidedCounts

\* Every decision of a client's bucket that allows is or will be counted.
LEMMA AllowedCountedStep ==
    ASSUME ServerInv, AllowedCounted, ServerStep
    PROVE  AllowedCounted'
<1>0. /\ "allow" \in Labels /\ taken \in [Buckets -> Nat]
      /\ Decided("allow") \in Nat /\ SumOver(taken, Keys) \in Nat
  BY CountType, LedgerType DEF ServerInv, StoreType, Labels
<1>1. ASSUME taken' = taken, Decided("allow")' = Decided("allow") PROVE AllowedCounted'
  BY <1>1 DEF AllowedCounted
<1>2. CASE Idles
  BY <1>0, <1>1, <1>2, DecidedStep DEF Idles, SameBooks
<1>3. ASSUME NEW h \in Handlers, Enters(h) \/ Passes(h) \/ Logs(h) \/ Counts(h) \/ Finishes(h)
      PROVE  AllowedCounted'
  <2>1. taken' = taken
    BY <1>3 DEF Enters, Passes, Logs, Counts, Finishes, SameBooks
  <2>2. Decided("allow")' = Decided("allow")
    BY <1>0, <1>3, DecidedStep
  <2> QED
    BY <1>1, <2>1, <2>2
<1>4. ASSUME NEW h \in Handlers, NEW b \in Buckets, Takes(h, b) PROVE AllowedCounted'
  <2>1. Decided("allow")' = Decided("allow") + Bit("allow" = "allow" /\ b \in Keys)
    BY <1>0, <1>4, DecidedStep
  <2>2. SumOver(taken', Keys) = SumOver(taken, Keys) + Bit(b \in Keys)
    <3>1. Bumped(taken, b, taken')
      BY <1>0, <1>4, BucketSums DEF Takes
    <3> QED
      BY <3>1 DEF Bumped
  <2>3. Bit("allow" = "allow" /\ b \in Keys) = Bit(b \in Keys)
    BY DEF Bit
  <2>4. Decided("allow")' = SumOver(taken', Keys)
    BY <2>1, <2>2, <2>3 DEF AllowedCounted
  <2> QED
    BY <2>4 DEF AllowedCounted
<1>5. ASSUME NEW h \in Handlers, NEW b \in Buckets, Refuses(h, b) PROVE AllowedCounted'
  <2>1. taken' = taken
    BY <1>5 DEF Refuses
  <2>2. frame'[h].label \in {"reject", "blocked"}
        /\ Decided("allow")' = Decided("allow") + Bit("allow" = frame'[h].label)
    BY <1>0, <1>5, DecidedStep
  <2>3. Bit("allow" = frame'[h].label) = 0
    BY <2>2 DEF Bit
  <2> QED
    BY <1>0, <1>1, <2>1, <2>2, <2>3
<1> QED
  BY <1>2, <1>3, <1>4, <1>5 DEF ServerStep, WorkStep

\* Every refusal of a bucket is or will be counted.
LEMMA RefusedCountedStep ==
    ASSUME ServerInv, RefusedCounted, ServerStep
    PROVE  RefusedCounted'
<1>0. /\ "reject" \in Labels /\ "blocked" \in Labels /\ refused \in [Buckets -> Nat]
      /\ Decided("reject") \in Nat /\ Decided("blocked") \in Nat
      /\ SumOver(refused, Buckets) \in Nat
  BY CountType, BucketKinds, SumBump DEF ServerInv, StoreType, Labels
<1>1. ASSUME refused' = refused, Decided("reject")' = Decided("reject"),
             Decided("blocked")' = Decided("blocked")
      PROVE  RefusedCounted'
  BY <1>1 DEF RefusedCounted
<1>2. CASE Idles
  BY <1>0, <1>1, <1>2, DecidedStep DEF Idles, SameBooks
<1>3. ASSUME NEW h \in Handlers, Enters(h) \/ Passes(h) \/ Logs(h) \/ Counts(h) \/ Finishes(h)
      PROVE  RefusedCounted'
  <2>1. refused' = refused
    BY <1>3 DEF Enters, Passes, Logs, Counts, Finishes, SameBooks
  <2>2. Decided("reject")' = Decided("reject") /\ Decided("blocked")' = Decided("blocked")
    BY <1>0, <1>3, DecidedStep
  <2> QED
    BY <1>1, <2>1, <2>2
<1>4. ASSUME NEW h \in Handlers, NEW b \in Buckets, Takes(h, b) PROVE RefusedCounted'
  <2>1. refused' = refused
    BY <1>4 DEF Takes
  <2>2. /\ Decided("reject")' = Decided("reject") + Bit("reject" = "allow" /\ b \in Keys)
        /\ Decided("blocked")' = Decided("blocked") + Bit("blocked" = "allow" /\ b \in Keys)
    BY <1>0, <1>4, DecidedStep
  <2>3. Bit("reject" = "allow" /\ b \in Keys) = 0 /\ Bit("blocked" = "allow" /\ b \in Keys) = 0
    BY DEF Bit
  <2> QED
    BY <1>0, <1>1, <2>1, <2>2, <2>3
<1>5. ASSUME NEW h \in Handlers, NEW b \in Buckets, Refuses(h, b) PROVE RefusedCounted'
  <2>1. SumOver(refused', Buckets) = SumOver(refused, Buckets) + 1
    <3>1. Bumped(refused, b, refused')
      BY <1>0, <1>5, BucketSums DEF Refuses
    <3> QED
      BY <3>1 DEF Bumped
  <2>2. /\ frame'[h].label \in {"reject", "blocked"}
        /\ Decided("reject")' = Decided("reject") + Bit("reject" = frame'[h].label)
        /\ Decided("blocked")' = Decided("blocked") + Bit("blocked" = frame'[h].label)
    BY <1>0, <1>5, DecidedStep
  <2>3. \/ Bit("reject" = frame'[h].label) = 1 /\ Bit("blocked" = frame'[h].label) = 0
        \/ Bit("reject" = frame'[h].label) = 0 /\ Bit("blocked" = frame'[h].label) = 1
    BY <2>2 DEF Bit
  <2>4. Decided("reject")' + Decided("blocked")' = SumOver(refused', Buckets)
    BY <1>0, <2>1, <2>2, <2>3 DEF RefusedCounted
  <2> QED
    BY <2>4 DEF RefusedCounted
<1> QED
  BY <1>2, <1>3, <1>4, <1>5 DEF ServerStep, WorkStep

\* The counter's labels are few.
LEMMA LabelsFinite ==
    ASSUME NEW D \in SUBSET Labels
    PROVE  IsFiniteSet(D)
<1>1. IsFiniteSet(({"allow"} \cup {"reject"}) \cup {"blocked"})
  BY FS_Singleton, FS_Union
<1>2. ({"allow"} \cup {"reject"}) \cup {"blocked"} = Labels
  BY DEF Labels
<1> QED
  BY <1>1, <1>2, FS_Subset

\* Counting a decision adds one to the counter's sum, also when its label is new.
LEMMA CountsOne ==
    ASSUME ServerInv, NEW h \in Handlers, Counts(h)
    PROVE  SumOver(requestsTotal', DOMAIN requestsTotal')
              = SumOver(requestsTotal, DOMAIN requestsTotal) + 1
<1> DEFINE l == frame[h].label
           D == DOMAIN requestsTotal
<1>1. HandlersType /\ ObserversType /\ Local(h)
  BY DEF ServerInv, HandlersType
<1>2. l \in Labels
  <2>1. pc[h] \in {"add", "create"}
    BY DEF Counts, Moves
  <2> QED
    BY <1>1, <2>1 DEF Local
<1>3. D \in SUBSET Labels /\ \A x \in D : requestsTotal[x] \in Nat
  BY <1>1 DEF ObserversType
<1>4. IsFiniteSet(D) /\ IsFiniteSet(D \cup {l})
  BY <1>2, <1>3, LabelsFinite
<1>5. CASE Add(l) /\ l \in D
  <2>1. /\ DOMAIN requestsTotal' = D /\ requestsTotal'[l] = requestsTotal[l] + 1
        /\ \A x \in D : x # l => requestsTotal'[x] = requestsTotal[x]
    BY <1>1, <1>2, <1>5, CounterFacts
  <2> HIDE DEF D, l
  <2>2. SumOver(requestsTotal', D) = SumOver(requestsTotal, D) + 1
    BY <1>3, <1>4, <1>5, <2>1, SumMore
  <2> QED
    BY <2>1, <2>2 DEF D
<1>6. CASE Create(l) /\ l \notin D
  <2>1. /\ DOMAIN requestsTotal' = D \cup {l} /\ requestsTotal'[l] = 1
        /\ \A x \in D : x # l => requestsTotal'[x] = requestsTotal[x]
    BY <1>1, <1>2, <1>6, CounterFacts
  <2> HIDE DEF D, l
  <2>2. \A x \in D : requestsTotal[x] \in Nat /\ requestsTotal'[x] = requestsTotal[x]
    BY <1>3, <1>6, <2>1
  <2>3. SumOver(requestsTotal', D) = SumOver(requestsTotal, D) /\ SumOver(requestsTotal, D) \in Nat
    BY <1>4, <2>2, SumSame, SumType
  <2>4. \A x \in D \cup {l} : requestsTotal'[x] \in Nat
    BY <2>1, <2>2
  <2>5. SumOver(requestsTotal', D \cup {l})
          = requestsTotal'[l] + SumOver(requestsTotal', (D \cup {l}) \ {l})
    BY <1>4, <2>4, SumRemove
  <2>6. (D \cup {l}) \ {l} = D
    BY <1>6
  <2>7. SumOver(requestsTotal', D \cup {l}) = SumOver(requestsTotal, D) + 1
    BY <2>1, <2>3, <2>5, <2>6
  <2> QED
    BY <2>1, <2>7 DEF D
<1> QED
  BY <1>5, <1>6 DEF Counts

\* Every counted decision is or will be observed.
LEMMA ObservedStep ==
    ASSUME ServerInv, Observed, ServerStep
    PROVE  Observed'
<1> DEFINE total == SumOver(requestsTotal, DOMAIN requestsTotal)
           n == Cardinality(At("finish"))
<1>0. HandlersType /\ latencies \in Nat /\ n \in Nat /\ total = latencies + n
  <2>1. At("finish") \in SUBSET Handlers
    BY DEF At
  <2>2. n \in Nat
    BY <2>1, NamesAssumption, FS_Subset, FS_CardinalityType
  <2> QED
    BY <2>2 DEF ServerInv, ObserversType, Observed
<1>1. ASSUME NEW h \in Handlers, NEW from, NEW to, NEW l, Moves(h, from, to, l)
      PROVE  n' = n + (Bit(to = "finish") - Bit(from = "finish"))
  <2>1. Cardinality({g \in Handlers : pc'[g] \in {"finish"}})
          = Cardinality({g \in Handlers : pc[g] \in {"finish"}})
            + Bit(to \in {"finish"}) - Bit(from \in {"finish"})
    BY <1>0, <1>1, MovesCount, ZenonT(30)
  <2>2. /\ n' = Cardinality({g \in Handlers : pc'[g] \in {"finish"}})
        /\ n = Cardinality({g \in Handlers : pc[g] \in {"finish"}})
    BY DEF At
  <2>3. /\ Bit(to \in {"finish"}) = Bit(to = "finish")
        /\ Bit(from \in {"finish"}) = Bit(from = "finish")
        /\ Bit(to = "finish") \in Int /\ Bit(from = "finish") \in Int
    BY DEF Bit
  <2>4. n' = n + Bit(to = "finish") - Bit(from = "finish")
    BY <2>1, <2>2, <2>3
  <2> HIDE DEF n
  <2> QED
    BY <1>0, <2>3, <2>4
<1>2. ASSUME total' = latencies' + n' PROVE Observed'
  BY <1>2 DEF Observed
<1>3. CASE Idles
  BY <1>3 DEF Idles, SameBooks, Observed, At
<1>4. ASSUME NEW h \in Handlers, requestsTotal' = requestsTotal, latencies' = latencies,
             NEW from, NEW to, NEW l, Moves(h, from, to, l), from # "finish", to # "finish"
      PROVE  Observed'
  <2>1. Bit(to = "finish") = 0 /\ Bit(from = "finish") = 0
    BY <1>4 DEF Bit
  <2>2. n' = n + (0 - 0)
    BY <1>1, <1>4, <2>1
  <2>3. total' = total
    BY <1>4
  <2> HIDE DEF n, total
  <2>4. total' = latencies' + n'
    BY <1>0, <1>4, <2>2, <2>3
  <2> QED
    BY <1>2, <2>4
<1>5. ASSUME NEW h \in Handlers, Enters(h) \/ Passes(h) \/ Logs(h) PROVE Observed'
  <2>1. requestsTotal' = requestsTotal /\ latencies' = latencies
    BY <1>5 DEF Enters, Passes, Logs, SameBooks
  <2>2. \E from \in {"idle", "client", "audit"}, to \in {"global", "done", "bucket", "add", "create"} :
           \E l : Moves(h, from, to, l)
    BY <1>5 DEF Enters, Passes, Logs
  <2> QED
    BY <1>4, <2>1, <2>2
<1>6. ASSUME NEW h \in Handlers, NEW b, Takes(h, b) \/ Refuses(h, b) PROVE Observed'
  <2>1. requestsTotal' = requestsTotal /\ latencies' = latencies
    BY <1>6 DEF Takes, Refuses, observers
  <2>2. \E from \in {"global", "ip", "client", "bucket"}, to \in {"ip", "client", "audit"} :
           \E l : Moves(h, from, to, l)
    BY <1>6 DEF Takes, Refuses
  <2> QED
    BY <1>4, <2>1, <2>2
<1>7. ASSUME NEW h \in Handlers, Counts(h) PROVE Observed'
  <2>1. PICK from \in {"add", "create"} : Moves(h, from, "finish", frame[h].label)
    BY <1>7 DEF Counts
  <2>2. Bit("finish" = "finish") = 1 /\ Bit(from = "finish") = 0
    BY <2>1 DEF Bit
  <2>3. n' = n + (1 - 0)
    BY <1>1, <2>1, <2>2
  <2>4. total' = total + 1
    BY <1>7, CountsOne
  <2>5. latencies' = latencies
    BY <1>7 DEF Counts
  <2> HIDE DEF n, total
  <2>6. total' = latencies' + n'
    BY <1>0, <2>3, <2>4, <2>5
  <2> QED
    BY <1>2, <2>6
<1>8. ASSUME NEW h \in Handlers, Finishes(h) PROVE Observed'
  <2>1. Moves(h, "finish", "done", frame[h].label) /\ latencies' = latencies + 1
        /\ requestsTotal' = requestsTotal
    BY <1>8 DEF Finishes
  <2>2. Bit("done" = "finish") = 0 /\ Bit("finish" = "finish") = 1
    BY DEF Bit
  <2>3. n' = n + (0 - 1)
    BY <1>1, <2>1, <2>2
  <2>4. total' = total
    BY <2>1
  <2> HIDE DEF n, total
  <2>5. total' = latencies' + n'
    BY <1>0, <2>1, <2>3, <2>4
  <2> QED
    BY <1>2, <2>5
<1> QED
  BY <1>3, <1>5, <1>6, <1>7, <1>8 DEF ServerStep, WorkStep

\* What a client's bucket granted is in the tracker, or will be.
LEMMA ConsumedStep ==
    ASSUME ServerInv, Consumed, ServerStep
    PROVE  Consumed'
<1>0. /\ HandlersType /\ \A h \in Handlers : Local(h)
      /\ taken \in [Buckets -> Nat] /\ consumption \in [Keys -> Nat] /\ Keys \in SUBSET Buckets
  BY BucketKinds DEF ServerInv, HandlersType, StoreType, ObserversType
<1> DEFINE Due(l) == l \in NotCounted \cup {"finish"}
<1>1. ASSUME NEW k \in Keys, NEW h \in Handlers, NEW from, NEW to, NEW l, Moves(h, from, to, l)
      PROVE  /\ Cardinality(Owed(k)) \in Nat
             /\ Cardinality(Owed(k)')
                  = Cardinality(Owed(k)) + Bit(l = "allow" /\ Due(to) /\ frame'[h].key = k)
                    - Bit(frame[h].label = "allow" /\ Due(from) /\ frame[h].key = k)
  <2> DEFINE S == Owed(k)
             T == Owed(k)'
  <2>1. S \in SUBSET Handlers /\ T \in SUBSET Handlers
    BY DEF Owed, Labelled
  <2>2. \A g \in Handlers : g # h => (g \in T <=> g \in S)
    BY <1>0, <1>1, MovesFacts DEF Owed, Labelled
  <2>3. /\ h \in T <=> (l = "allow" /\ Due(to) /\ frame'[h].key = k)
        /\ h \in S <=> (frame[h].label = "allow" /\ Due(from) /\ frame[h].key = k)
    BY <1>0, <1>1, MovesFacts DEF Owed, Labelled
  <2> HIDE DEF S, T, Due
  <2>4. Cardinality(S) \in Nat /\ Cardinality(T) = Cardinality(S) + Bit(h \in T) - Bit(h \in S)
    BY <2>1, <2>2, SetChange
  <2>5. /\ Bit(h \in T) = Bit(l = "allow" /\ Due(to) /\ frame'[h].key = k)
        /\ Bit(h \in S) = Bit(frame[h].label = "allow" /\ Due(from) /\ frame[h].key = k)
    BY <2>3 DEF Bit
  <2> QED
    BY <2>4, <2>5 DEF S, T
<1>2. ASSUME NEW h \in Handlers, UNCHANGED consumption, NEW from, NEW to, NEW l,
             Moves(h, from, to, l), NEW k \in Keys, taken'[k] = taken[k],
             Bit(l = "allow" /\ Due(to) /\ frame'[h].key = k)
               = Bit(frame[h].label = "allow" /\ Due(from) /\ frame[h].key = k)
      PROVE  taken'[k] = consumption'[k] + Cardinality(Owed(k)')
  <2> DEFINE x == Bit(l = "allow" /\ Due(to) /\ frame'[h].key = k)
             y == Bit(frame[h].label = "allow" /\ Due(from) /\ frame[h].key = k)
  <2>1. x \in Int /\ x = y
    BY <1>2 DEF Bit
  <2>2. Cardinality(Owed(k)) \in Nat /\ Cardinality(Owed(k)') = Cardinality(Owed(k)) + x - y
    BY <1>1, <1>2
  <2> HIDE DEF x, y
  <2>3. Cardinality(Owed(k)') = Cardinality(Owed(k))
    BY <2>1, <2>2
  <2>4. taken[k] = consumption[k] + Cardinality(Owed(k))
    BY DEF Consumed
  <2> QED
    BY <1>2, <2>3, <2>4
<1>3. CASE Idles
  BY <1>3 DEF Idles, SameBooks, Consumed, Owed, Labelled
<1>4. ASSUME NEW h \in Handlers, Enters(h) \/ Passes(h) PROVE Consumed'
  <2>1. taken' = taken /\ UNCHANGED consumption
    BY <1>4 DEF Enters, Passes, SameBooks
  <2>2. PICK from \in {"idle", "client"}, to \in {"global", "done", "bucket"} :
          Moves(h, from, to, "none")
    BY <1>4 DEF Enters, Passes
  <2>3. ~Due(from)
    BY <2>2 DEF NotCounted
  <2>4. ASSUME NEW k \in Keys PROVE taken'[k] = consumption'[k] + Cardinality(Owed(k)')
    <3>1. Bit("none" = "allow" /\ Due(to) /\ frame'[h].key = k)
            = Bit(frame[h].label = "allow" /\ Due(from) /\ frame[h].key = k)
      BY <2>3 DEF Bit
    <3> HIDE DEF Due
    <3> QED
      BY <1>2, <2>1, <2>2, <3>1
  <2> QED
    BY <2>4 DEF Consumed
<1>5. ASSUME NEW h \in Handlers, NEW b \in Buckets, Takes(h, b) PROVE Consumed'
  <2>1. taken' = [taken EXCEPT ![b] = @ + 1] /\ UNCHANGED consumption /\ frame'[h].key = frame[h].key
    BY <1>5 DEF Takes, observers, Stays
  <2>2. ASSUME NEW from \in {"global", "ip"}, NEW to \in {"ip", "client"}, b \notin Keys,
               Moves(h, from, to, "none")
        PROVE  Consumed'
    <3>1. ~Due(from)
      BY <2>2 DEF NotCounted
    <3>2. ASSUME NEW k \in Keys PROVE taken'[k] = consumption'[k] + Cardinality(Owed(k)')
      <4>1. Bit("none" = "allow" /\ Due(to) /\ frame'[h].key = k)
              = Bit(frame[h].label = "allow" /\ Due(from) /\ frame[h].key = k)
        BY <3>1 DEF Bit
      <4>2. taken'[k] = taken[k]
        BY <1>0, <2>1, <2>2
      <4> HIDE DEF Due
      <4> QED
        BY <1>2, <2>1, <2>2, <4>1, <4>2
    <3> QED
      BY <3>2 DEF Consumed
  <2>3. CASE b = Global /\ Moves(h, "global", "ip", "none")
    BY <2>2, <2>3, BucketKinds
  <2>4. CASE b = frame[h].ip /\ Moves(h, "ip", "client", "none")
    <3>1. b \in IPs
      BY <1>0, <2>4, MovesFacts DEF Local, Named
    <3> QED
      BY <2>2, <2>4, <3>1, BucketKinds
  <2>5. CASE b = frame[h].key /\ Moves(h, "bucket", "audit", "allow")
    <3>1. Due("audit") /\ ~Due("bucket")
      BY DEF NotCounted
    <3>2. ASSUME NEW k \in Keys PROVE taken'[k] = consumption'[k] + Cardinality(Owed(k)')
      <4>1. taken[k] = consumption[k] + Cardinality(Owed(k)) /\ consumption[k] \in Nat
        BY <1>0 DEF Consumed
      <4>2. CASE k = b
        <5>1. /\ Bit("allow" = "allow" /\ Due("audit") /\ frame'[h].key = k) = 1
              /\ Bit(frame[h].label = "allow" /\ Due("bucket") /\ frame[h].key = k) = 0
          BY <2>1, <2>5, <3>1, <4>2 DEF Bit
        <5> HIDE DEF Due
        <5>2. Cardinality(Owed(k)) \in Nat /\ Cardinality(Owed(k)') = Cardinality(Owed(k)) + 1 - 0
          BY <1>1, <2>5, <5>1
        <5>3. taken'[k] = taken[k] + 1 /\ consumption'[k] = consumption[k]
          BY <1>0, <2>1, <4>2
        <5> QED
          BY <4>1, <5>2, <5>3
      <4>3. CASE k # b
        <5>1. Bit("allow" = "allow" /\ Due("audit") /\ frame'[h].key = k)
                = Bit(frame[h].label = "allow" /\ Due("bucket") /\ frame[h].key = k)
          BY <2>1, <2>5, <3>1, <4>3 DEF Bit
        <5>2. taken'[k] = taken[k]
          BY <1>0, <2>1, <4>3
        <5> HIDE DEF Due
        <5> QED
          BY <1>2, <2>1, <2>5, <5>1, <5>2
      <4> QED
        BY <4>2, <4>3
    <3> QED
      BY <3>2 DEF Consumed
  <2> QED
    BY <1>5, <2>3, <2>4, <2>5 DEF Takes
<1>6. ASSUME NEW h \in Handlers, NEW b \in Buckets, Refuses(h, b) PROVE Consumed'
  <2>1. taken' = taken /\ UNCHANGED consumption
    BY <1>6 DEF Refuses, observers
  <2>2. PICK from \in {"global", "ip", "bucket", "client"}, l \in {"reject", "blocked"} :
          Moves(h, from, "audit", l)
    BY <1>6 DEF Refuses
  <2>3. ~Due(from) /\ l # "allow"
    BY <2>2 DEF NotCounted
  <2>4. ASSUME NEW k \in Keys PROVE taken'[k] = consumption'[k] + Cardinality(Owed(k)')
    <3>1. Bit(l = "allow" /\ Due("audit") /\ frame'[h].key = k)
            = Bit(frame[h].label = "allow" /\ Due(from) /\ frame[h].key = k)
      BY <2>3 DEF Bit
    <3> HIDE DEF Due
    <3> QED
      BY <1>2, <2>1, <2>2, <3>1
  <2> QED
    BY <2>4 DEF Consumed
<1>7. ASSUME NEW h \in Handlers, Logs(h) \/ Counts(h) PROVE Consumed'
  <2>1. taken' = taken /\ UNCHANGED consumption /\ frame' = frame
    BY <1>7 DEF Logs, Counts
  <2>2. PICK from \in {"audit", "add", "create"}, to \in {"add", "create", "finish"} :
          Moves(h, from, to, frame[h].label)
    BY <1>7 DEF Logs, Counts
  <2>3. Due(from) /\ Due(to)
    BY <2>2 DEF NotCounted
  <2>4. ASSUME NEW k \in Keys PROVE taken'[k] = consumption'[k] + Cardinality(Owed(k)')
    <3>1. Bit(frame[h].label = "allow" /\ Due(to) /\ frame'[h].key = k)
            = Bit(frame[h].label = "allow" /\ Due(from) /\ frame[h].key = k)
      BY <2>1, <2>3 DEF Bit
    <3> HIDE DEF Due
    <3> QED
      BY <1>2, <2>1, <2>2, <3>1
  <2> QED
    BY <2>4 DEF Consumed
<1>8. ASSUME NEW h \in Handlers, Finishes(h) PROVE Consumed'
  <2> DEFINE n == IF frame[h].label = "allow" THEN 1 ELSE 0
  <2>1. /\ taken' = taken /\ Moves(h, "finish", "done", frame[h].label)
        /\ consumption' = [consumption EXCEPT ![frame[h].key] = @ + n]
    BY <1>8 DEF Finishes, RecordConsumption
  <2>2. Due("finish") /\ ~Due("done")
    BY DEF NotCounted
  <2>3. frame[h].key \in Keys /\ n \in Nat
    BY <1>0, <2>1, MovesFacts DEF Local, Named
  <2>4. ASSUME NEW k \in Keys PROVE taken'[k] = consumption'[k] + Cardinality(Owed(k)')
    <3> DEFINE y == Bit(frame[h].label = "allow" /\ Due("finish") /\ frame[h].key = k)
    <3>1. taken[k] = consumption[k] + Cardinality(Owed(k)) /\ consumption[k] \in Nat
      BY <1>0 DEF Consumed
    <3>2. Bit(frame[h].label = "allow" /\ Due("done") /\ frame'[h].key = k) = 0
      BY <2>2 DEF Bit
    <3>3. y \in Int /\ y = IF frame[h].key = k THEN n ELSE 0
      BY <2>2 DEF Bit
    <3> HIDE DEF Due, n
    <3>4. Cardinality(Owed(k)) \in Nat /\ Cardinality(Owed(k)') = Cardinality(Owed(k)) + 0 - y
      BY <1>1, <2>1, <3>2
    <3> HIDE DEF y
    <3>5. consumption'[k] = consumption[k] + y
      BY <1>0, <2>1, <2>3, <3>1, <3>3
    <3> QED
      BY <2>1, <3>1, <3>3, <3>4, <3>5
  <2> QED
    BY <2>4 DEF Consumed
<1> QED
  BY <1>3, <1>4, <1>5, <1>6, <1>7, <1>8 DEF ServerStep, WorkStep

\* The tracker's virtual time is the sum of what it recorded.
LEMMA SummedStep ==
    ASSUME ServerInv, Summed, ServerStep
    PROVE  Summed'
<1>0. HandlersType /\ (\A h \in Handlers : Local(h)) /\ consumption \in [Keys -> Nat]
  BY DEF ServerInv, HandlersType, ObserversType
<1>1. CASE UNCHANGED <<consumption, virtualTime>>
  BY <1>1 DEF Summed
<1>2. ASSUME NEW h \in Handlers, Finishes(h) PROVE Summed'
  <2> DEFINE n == IF frame[h].label = "allow" THEN 1 ELSE 0
             k == frame[h].key
  <2>1. /\ consumption' = [consumption EXCEPT ![k] = @ + n] /\ virtualTime' = virtualTime + n
        /\ Moves(h, "finish", "done", frame[h].label)
    BY <1>2 DEF Finishes, RecordConsumption
  <2>2. k \in Keys /\ n \in Nat
    BY <1>0, <2>1, MovesFacts DEF Local, Named
  <2> HIDE DEF n, k
  <2>3. /\ consumption'[k] = consumption[k] + n /\ \A x \in Keys : consumption[x] \in Nat
        /\ \A x \in Keys : x # k => consumption'[x] = consumption[x]
    BY <1>0, <2>1, <2>2
  <2>4. SumOver(consumption', Keys) = SumOver(consumption, Keys) + n
    BY <2>2, <2>3, NamesAssumption, SumMore
  <2> QED
    BY <2>1, <2>4 DEF Summed
<1>3. ASSUME NEW h \in Handlers, Enters(h) \/ Passes(h) \/ Logs(h) \/ Counts(h) PROVE Summed'
  BY <1>1, <1>3 DEF Enters, Passes, Logs, Counts, SameBooks
<1>4. ASSUME NEW h \in Handlers, NEW b, Takes(h, b) \/ Refuses(h, b) PROVE Summed'
  BY <1>1, <1>4 DEF Takes, Refuses, observers
<1>5. CASE Idles
  BY <1>1, <1>5 DEF Idles, SameBooks
<1> QED
  BY <1>2, <1>3, <1>4, <1>5 DEF ServerStep, WorkStep

\* Every refusal has left a record, or will.
LEMMA LoggedStep ==
    ASSUME ServerInv, Logged, ServerStep
    PROVE  Logged'
<1> DEFINE n == Cardinality(Unlogged)
           sum == SumOver(refused, Buckets)
           Audited(l) == l = "audit"
<1>0. /\ HandlersType /\ refused \in [Buckets -> Nat] /\ audit.reject \in Nat
      /\ n \in Nat /\ sum = audit.reject + n
  <2>1. Unlogged \in SUBSET Handlers
    BY DEF Unlogged, At
  <2>2. n \in Nat
    BY <2>1, NamesAssumption, FS_Subset, FS_CardinalityType
  <2> QED
    BY <2>2 DEF ServerInv, StoreType, ObserversType, Logged
<1>1. ASSUME NEW h \in Handlers, NEW from, NEW to, NEW l, Moves(h, from, to, l)
      PROVE  n' = n + Bit(l # "allow" /\ Audited(to))
                    - Bit(frame[h].label # "allow" /\ Audited(from))
  <2> DEFINE S == Unlogged
             T == Unlogged'
  <2>1. S \in SUBSET Handlers /\ T \in SUBSET Handlers
    BY DEF Unlogged, At
  <2>2. \A g \in Handlers : g # h => (g \in T <=> g \in S)
    BY <1>0, <1>1, MovesFacts DEF Unlogged, At
  <2>3. /\ h \in T <=> (l # "allow" /\ Audited(to))
        /\ h \in S <=> (frame[h].label # "allow" /\ Audited(from))
    BY <1>0, <1>1, MovesFacts DEF Unlogged, At
  <2> HIDE DEF S, T, Audited
  <2>4. Cardinality(T) = Cardinality(S) + Bit(h \in T) - Bit(h \in S)
    BY <2>1, <2>2, SetChange
  <2>5. /\ Bit(h \in T) = Bit(l # "allow" /\ Audited(to))
        /\ Bit(h \in S) = Bit(frame[h].label # "allow" /\ Audited(from))
    BY <2>3 DEF Bit
  <2> QED
    BY <2>4, <2>5 DEF S, T
<1>2. ASSUME sum' = audit'.reject + n' PROVE Logged'
  BY <1>2 DEF Logged
<1>3. CASE Idles
  BY <1>3 DEF Idles, SameBooks, Logged, Unlogged, At
<1>4. ASSUME NEW h \in Handlers, refused' = refused, audit'.reject = audit.reject,
             NEW from, NEW to, NEW l, Moves(h, from, to, l), ~Audited(from),
             l = "allow" \/ ~Audited(to)
      PROVE  Logged'
  <2>1. /\ Bit(l # "allow" /\ Audited(to)) = 0
        /\ Bit(frame[h].label # "allow" /\ Audited(from)) = 0
    BY <1>4 DEF Bit
  <2> HIDE DEF Audited
  <2>2. n' = n + 0 - 0
    BY <1>1, <1>4, <2>1
  <2>3. sum' = sum
    BY <1>4
  <2> HIDE DEF n, sum
  <2>4. sum' = audit'.reject + n'
    BY <1>0, <1>4, <2>2, <2>3
  <2> QED
    BY <1>2, <2>4
<1>5. ASSUME NEW h \in Handlers, Enters(h) \/ Passes(h) \/ Counts(h) \/ Finishes(h) PROVE Logged'
  <2>1. refused' = refused /\ audit'.reject = audit.reject
    BY <1>5 DEF Enters, Passes, Counts, Finishes, SameBooks
  <2>2. \E from \in {"idle", "client", "add", "create", "finish"},
           to \in {"global", "done", "bucket", "finish"} : \E l : Moves(h, from, to, l)
    BY <1>5 DEF Enters, Passes, Counts, Finishes
  <2> QED
    BY <1>4, <2>1, <2>2
<1>6. ASSUME NEW h \in Handlers, NEW b, Takes(h, b) PROVE Logged'
  <2>1. refused' = refused /\ audit'.reject = audit.reject
    BY <1>6 DEF Takes, observers
  <2>2. \/ Moves(h, "global", "ip", "none") \/ Moves(h, "ip", "client", "none")
        \/ Moves(h, "bucket", "audit", "allow")
    BY <1>6 DEF Takes
  <2> QED
    BY <1>4, <2>1, <2>2
<1>7. ASSUME NEW h \in Handlers, NEW b \in Buckets, Refuses(h, b) PROVE Logged'
  <2>1. audit' = audit /\ sum' = sum + 1
    <3>1. Bumped(refused, b, refused') /\ audit' = audit
      BY <1>0, <1>7, BucketSums DEF Refuses, observers
    <3> QED
      BY <3>1 DEF Bumped
  <2>2. PICK from \in {"global", "ip", "bucket", "client"}, l \in {"reject", "blocked"} :
          Moves(h, from, "audit", l)
    BY <1>7 DEF Refuses
  <2>3. /\ Bit(l # "allow" /\ Audited("audit")) = 1
        /\ Bit(frame[h].label # "allow" /\ Audited(from)) = 0
    BY <2>2 DEF Bit
  <2> HIDE DEF Audited
  <2>4. n' = n + 1 - 0
    BY <1>1, <2>2, <2>3
  <2> HIDE DEF n, sum
  <2>5. sum' = audit'.reject + n'
    BY <1>0, <2>1, <2>4
  <2> QED
    BY <1>2, <2>5
<1>8. ASSUME NEW h \in Handlers, Logs(h) PROVE Logged'
  <2> DEFINE y == Bit(frame[h].label # "allow" /\ Audited("audit"))
  <2>1. refused' = refused
        /\ audit'.reject = IF frame[h].label # "allow" THEN audit.reject + 1 ELSE audit.reject
    BY <1>8 DEF Logs
  <2>2. PICK to \in {"add", "create"} : Moves(h, "audit", to, frame[h].label)
    BY <1>8 DEF Logs
  <2>3. Bit(frame[h].label # "allow" /\ Audited(to)) = 0
    BY <2>2 DEF Bit
  <2>4. y \in Int /\ audit'.reject = audit.reject + y
    BY <1>0, <2>1 DEF Bit
  <2> HIDE DEF Audited
  <2>5. n' = n + 0 - y
    BY <1>1, <2>2, <2>3
  <2>6. sum' = sum
    BY <2>1
  <2> HIDE DEF n, sum, y
  <2>7. sum' = audit'.reject + n'
    BY <1>0, <2>4, <2>5, <2>6
  <2> QED
    BY <1>2, <2>7
<1> QED
  BY <1>3, <1>5, <1>6, <1>7, <1>8 DEF ServerStep, WorkStep

\* The six equations.
LEMMA SixEquations ==
    DecisionsCounted <=>
        /\ AllowedCounted /\ RefusedCounted /\ Observed /\ Consumed /\ Summed /\ Logged
BY DEF DecisionsCounted, AllowedCounted, RefusedCounted, Observed, Consumed, Summed, Logged,
   Owed, Unlogged

\* They hold of a server that has not seen a request.
LEMMA DecisionsInit == ServerInit => DecisionsCounted
<1> SUFFICES ASSUME ServerInit PROVE DecisionsCounted
  OBVIOUS
<1>0. Cardinality({}) = 0 /\ SumOver(requestsTotal, {}) = 0
  BY FS_EmptySet, SumEmpty
<1>1. DOMAIN requestsTotal = {}
  BY DEF ServerInit
<1>2. \A S \in SUBSET Buckets : SumOver(taken, S) = 0 /\ SumOver(refused, S) = 0
  BY SumZero, BucketsFinite DEF ServerInit
<1>3. SumOver(taken, Keys) = 0 /\ SumOver(refused, Buckets) = 0
  BY <1>2, BucketKinds
<1>4. SumOver(consumption, Keys) = 0
  BY SumZero, NamesAssumption DEF ServerInit
<1>5. \A m : Labelled(m, NotCounted) = {}
  BY DEF ServerInit, Labelled, NotCounted
<1>6. ASSUME NEW m PROVE Decided(m) = 0
  <2>1. Count(m) = 0
    BY <1>1 DEF Count
  <2>2. Cardinality(Labelled(m, NotCounted)) = 0
    BY <1>0, <1>5
  <2> QED
    BY <2>1, <2>2 DEF Decided
<1>7. AllowedCounted /\ RefusedCounted
  BY <1>3, <1>6 DEF AllowedCounted, RefusedCounted
<1>8. At("finish") = {} /\ Unlogged = {} /\ \A k \in Keys : Owed(k) = {}
  BY DEF ServerInit, At, Unlogged, Owed, Labelled, NotCounted
<1>9. Observed
  <2>1. Cardinality(At("finish")) = 0 /\ latencies = 0
    BY <1>0, <1>8 DEF ServerInit
  <2>2. SumOver(requestsTotal, DOMAIN requestsTotal) = 0
    BY <1>0, <1>1
  <2> QED
    BY <2>1, <2>2 DEF Observed
<1>10. Consumed
  <2>1. ASSUME NEW k \in Keys PROVE taken[k] = consumption[k] + Cardinality(Owed(k))
    <3>1. Cardinality(Owed(k)) = 0
      BY <1>0, <1>8
    <3>2. taken[k] = 0 /\ consumption[k] = 0
      BY BucketKinds DEF ServerInit
    <3> QED
      BY <3>1, <3>2
  <2> QED
    BY <2>1 DEF Consumed
<1>11. Summed
  BY <1>4 DEF ServerInit, Summed
<1>12. Logged
  BY <1>0, <1>3, <1>8 DEF ServerInit, Logged
<1> QED
  BY <1>7, <1>9, <1>10, <1>11, <1>12, SixEquations

\* Every kind of step keeps them.
LEMMA DecisionsStep ==
    ASSUME ServerInv, DecisionsCounted, ServerStep
    PROVE  DecisionsCounted'
<1>1. AllowedCounted /\ RefusedCounted /\ Observed /\ Consumed /\ Summed /\ Logged
  BY SixEquations
<1>2. (AllowedCounted /\ RefusedCounted /\ Observed /\ Consumed /\ Summed /\ Logged)'
  BY <1>1, AllowedCountedStep, RefusedCountedStep, ObservedStep, ConsumedStep, SummedStep,
     LoggedStep
<1> QED
  BY <1>2 DEF DecisionsCounted, AllowedCounted, RefusedCounted, Observed, Consumed, Summed, Logged,
     Owed, Unlogged

\* Counter.Inc, Histogram.Observe, RecordConsumption and the audit log lose and
\* invent nothing: for any number of handlers, whatever first uses of a label race,
\* every decision is or will be counted once, observed, recorded and logged.
THEOREM DecisionsTheorem == Spec => []DecisionsCounted
<1>1. Init => DecisionsCounted
  BY DecisionsInit DEF Init
<1>2. ServerInv /\ SimType /\ DecisionsCounted /\ [Next]_vars => DecisionsCounted'
  BY StepNext, DecisionsStep
<1> QED
  BY <1>1, <1>2, Typed, PTL DEF Spec
-----------------------------------------------------------------------------
(* ReportAgrees.  A client's requests are those of the handlers <<c, i>>;  *)
(* all but the one it awaits are settled.                                  *)

Mine(c, n) == {h \in Handlers : \E i \in 1 .. n : h = <<c, i>>}
Awaited(c) == IF sim[c].at = "await" THEN 1 ELSE 0
Settled(c) == sim[c].sent - Awaited(c)

Granted(k) == {h \in Handlers : frame[h].label = "allow" /\ frame[h].key = k}
Yes(c) == {h \in Mine(c, Settled(c)) : frame[h].label = "allow"}
No(c) == {h \in Mine(c, Settled(c)) : pc[h] = "done" /\ frame[h].label # "allow"}

\* The handlers that have a token of a client's bucket, or may still get one.
Live(h) == frame[h].label = "allow" \/ pc[h] \in {"global", "ip", "client", "bucket"}

\* A bucket's tokens are with the handlers that hold its key and are allowed.
GrantsHeld == \A k \in Keys : taken[k] = Cardinality(Granted(k))

\* A client's key is with the handlers of its requests only, and they have no other.
OwnKeys ==
    \A h \in Handlers, c \in Clients : Live(h) =>
        /\ frame[h].key = ClientKey[c] => h \in Mine(c, sim[c].sent)
        /\ h \in Mine(c, Turns[c]) => frame[h].key = ClientKey[c]

\* A client's count of answers, and the answers.
Tally ==
    \A c \in Clients :
        /\ sim[c].res.Allowed <= Cardinality(Yes(c))
        /\ sim[c].res.Rejected <= Cardinality(No(c))
        /\ sim[c].res.Allowed + sim[c].res.Rejected + sim[c].res.Errors + Awaited(c) = sim[c].sent

Delivered ==
    /\ results \in Seq([client : Clients, res : [Allowed : Nat, Rejected : Nat, Errors : Nat]])
    /\ \A c \in Clients : sim[c].at = "done" =>
        \E i \in DOMAIN results : results[i] = [client |-> c, res |-> sim[c].res]
ReportInv == GrantsHeld /\ OwnKeys /\ Tally /\ Delivered

\* A request that reaches the gates was identified by its key.
LEMMA EnterKey ==
    ASSUME ServerInv, NEW h \in Handlers, NEW req, HandleRequest(h, req), pc'[h] = "global"
    PROVE  /\ ~req.body /\ req.tierOK /\ ClientIdentity(req) \in Keys
           /\ frame'[h].key = ClientIdentity(req)
<1> DEFINE key == ClientIdentity(req)
           ok == ~req.body /\ ValidateAPIKey(key) /\ req.tierOK
<1>1. /\ pc' = [pc EXCEPT ![h] = IF ok THEN "global" ELSE "done"]
      /\ frame' = [frame EXCEPT ![h] = IF ok THEN [@ EXCEPT !.ip = SourceIP(req), !.key = key]
                                       ELSE [@ EXCEPT !.status = 400]]
  BY DEF HandleRequest, Goto
<1>2. pc \in [Handlers -> Steps] /\ frame \in [Handlers -> Frames]
  BY DEF ServerInv, HandlersType
<1>3. ok
  <2> HIDE DEF ok
  <2> QED
    BY <1>1, <1>2
<1>4. frame'[h] = [frame[h] EXCEPT !.ip = SourceIP(req), !.key = key]
  <2> HIDE DEF ok, key
  <2> QED
    BY <1>1, <1>2, <1>3
<1>5. frame[h] \in Frames
  BY <1>2
<1>6. frame'[h].key = key
  <2> HIDE DEF key
  <2> QED
    BY <1>4, <1>5 DEF Frames
<1> QED
  BY <1>3, <1>6 DEF ValidateAPIKey

\* Every move is from another step than the last, and keeps the label "allow".
LEMMA MoveKeeps ==
    ASSUME ServerInv, NEW h \in Handlers,
           \/ Enters(h) \/ Passes(h) \/ Logs(h) \/ Counts(h) \/ Finishes(h)
           \/ \E b : Takes(h, b) \/ Refuses(h, b)
    PROVE  \E from, to, l : /\ Moves(h, from, to, l) /\ from # "done"
                            /\ frame[h].label = "allow" => l = "allow"
<1>0. HandlersType /\ Local(h)
  BY DEF ServerInv, HandlersType
<1>1. ASSUME NEW from \in {"idle", "global", "ip", "client", "bucket"}, NEW to, NEW l,
             Moves(h, from, to, l)
      PROVE  from # "done" /\ frame[h].label # "allow"
  <2>1. pc[h] = from
    BY <1>1 DEF Moves
  <2> QED
    BY <1>0, <1>1, <2>1 DEF Local
<1>2. CASE Enters(h) \/ Passes(h)
  <2>1. \E from \in {"idle", "client"}, to \in {"global", "done", "bucket"} :
          Moves(h, from, to, "none")
    BY <1>2 DEF Enters, Passes
  <2> QED
    BY <1>1, <2>1
<1>3. ASSUME NEW b, Takes(h, b) \/ Refuses(h, b)
      PROVE  \E from \in {"global", "ip", "client", "bucket"} : \E to, l : Moves(h, from, to, l)
  BY <1>3 DEF Takes, Refuses
<1>4. CASE Logs(h) \/ Counts(h) \/ Finishes(h)
  <2>1. \E from \in {"audit", "add", "create", "finish"}, to \in {"add", "create", "finish", "done"} :
          Moves(h, from, to, frame[h].label)
    BY <1>4 DEF Logs, Counts, Finishes
  <2> QED
    BY <2>1
<1> QED
  BY <1>1, <1>2, <1>3, <1>4

\* A request that is allowed stays so, and one that is answered does not change.
LEMMA Persist ==
    ASSUME ServerInv, ServerStep, NEW g \in Handlers
    PROVE  /\ frame[g].label = "allow" => frame'[g].label = "allow"
           /\ pc[g] = "done" => pc'[g] = "done" /\ frame'[g] = frame[g]
<1>0. HandlersType
  BY DEF ServerInv
<1>1. CASE Idles
  BY <1>1 DEF Idles
<1>2. ASSUME NEW h \in Handlers,
             \/ Enters(h) \/ Passes(h) \/ Logs(h) \/ Counts(h) \/ Finishes(h)
             \/ \E b : Takes(h, b) \/ Refuses(h, b)
      PROVE  /\ frame[g].label = "allow" => frame'[g].label = "allow"
             /\ pc[g] = "done" => pc'[g] = "done" /\ frame'[g] = frame[g]
  <2>1. PICK from, to, l : /\ Moves(h, from, to, l) /\ from # "done"
                           /\ frame[h].label = "allow" => l = "allow"
    BY <1>2, MoveKeeps
  <2> QED
    BY <1>0, <2>1, MovesFacts
<1> QED
  BY <1>1, <1>2 DEF ServerStep, WorkStep

\* A handler that works on was on its way before, with the same key.
LEMMA LiveKept ==
    ASSUME ServerInv, WorkStep, NEW g \in Handlers, Live(g)'
    PROVE  Live(g) /\ frame'[g].key = frame[g].key
<1>0. HandlersType
  BY DEF ServerInv
<1>1. CASE Idles
  BY <1>1 DEF Idles, Live
<1>2. ASSUME NEW h \in Handlers, NEW from, NEW to, NEW l, Moves(h, from, to, l),
             g = h => Live(g) /\ frame'[g].key = frame[g].key
      PROVE  Live(g) /\ frame'[g].key = frame[g].key
  <2>1. CASE g # h
    <3>1. pc'[g] = pc[g] /\ frame'[g] = frame[g]
      BY <1>0, <1>2, <2>1, MovesFacts
    <3> QED
      BY <3>1 DEF Live
  <2> QED
    BY <1>2, <2>1
<1>3. ASSUME NEW h \in Handlers, NEW from \in {"global", "ip", "client", "bucket"}, NEW to, NEW l,
             Moves(h, from, to, l), Stays(h)
      PROVE  Live(g) /\ frame'[g].key = frame[g].key
  <2>1. Live(h) /\ frame'[h].key = frame[h].key
    BY <1>3 DEF Live, Moves, Stays
  <2> QED
    BY <1>2, <1>3, <2>1
<1>4. ASSUME NEW h \in Handlers, Passes(h) PROVE Live(g) /\ frame'[g].key = frame[g].key
  BY <1>3, <1>4 DEF Passes
<1>5. ASSUME NEW h \in Handlers, NEW b, Takes(h, b) \/ Refuses(h, b)
      PROVE  Live(g) /\ frame'[g].key = frame[g].key
  <2>1. Stays(h)
    BY <1>5 DEF Takes, Refuses
  <2>2. \E from \in {"global", "ip", "client", "bucket"} : \E to, l : Moves(h, from, to, l)
    BY <1>5 DEF Takes, Refuses
  <2> QED
    BY <1>3, <2>1, <2>2
<1>6. ASSUME NEW h \in Handlers, Logs(h) \/ Counts(h) \/ Finishes(h)
      PROVE  Live(g) /\ frame'[g].key = frame[g].key
  <2>1. PICK from \in {"audit", "add", "create", "finish"}, to \in {"add", "create", "finish", "done"} :
          Moves(h, from, to, frame[h].label)
    BY <1>6 DEF Logs, Counts, Finishes
  <2>2. frame'[h].key = frame[h].key
    BY <1>6 DEF Logs, Counts, Finishes, Stays
  <2>3. Live(h)' => Live(h)
    BY <1>0, <2>1, MovesFacts DEF Live
  <2> QED
    BY <1>2, <2>1, <2>2, <2>3
<1> QED
  BY <1>1, <1>4, <1>5, <1>6 DEF WorkStep

\* The same of a request that enters, and of the others.
LEMMA LiveEnters ==
    ASSUME ServerInv, NEW h \in Handlers, Enters(h), NEW g \in Handlers, Live(g)'
    PROVE  IF g = h THEN pc'[g] = "global"
           ELSE Live(g) /\ frame'[g].key = frame[g].key
<1>0. HandlersType
  BY DEF ServerInv
<1>1. PICK to \in {"global", "done"} : Moves(h, "idle", to, "none")
  BY DEF Enters
<1>2. CASE g = h
  <2>1. pc'[h] = to /\ frame'[h].label = "none"
    BY <1>0, <1>1, MovesFacts
  <2> QED
    BY <1>1, <1>2, <2>1 DEF Live
<1>3. CASE g # h
  <2>1. pc'[g] = pc[g] /\ frame'[g] = frame[g]
    BY <1>0, <1>1, <1>3, MovesFacts
  <2> QED
    BY <1>3, <2>1 DEF Live
<1> QED
  BY <1>2, <1>3

\* A bucket's grants, when a handler moves.
LEMMA GrantedChange ==
    ASSUME ServerInv, NEW h \in Handlers, NEW from, NEW to, NEW l, Moves(h, from, to, l), NEW k
    PROVE  /\ Cardinality(Granted(k)) \in Nat
           /\ Cardinality(Granted(k)')
                = Cardinality(Granted(k)) + Bit(l = "allow" /\ frame'[h].key = k)
                  - Bit(frame[h].label = "allow" /\ frame[h].key = k)
<1> DEFINE S == Granted(k)
           T == Granted(k)'
<1>0. HandlersType
  BY DEF ServerInv
<1>1. S \in SUBSET Handlers /\ T \in SUBSET Handlers
  BY DEF Granted
<1>2. \A g \in Handlers : g # h => (g \in T <=> g \in S)
  BY <1>0, MovesFacts DEF Granted
<1>3. /\ h \in T <=> (l = "allow" /\ frame'[h].key = k)
      /\ h \in S <=> (frame[h].label = "allow" /\ frame[h].key = k)
  BY <1>0, MovesFacts DEF Granted
<1> HIDE DEF S, T
<1>4. Cardinality(S) \in Nat /\ Cardinality(T) = Cardinality(S) + Bit(h \in T) - Bit(h \in S)
  BY <1>1, <1>2, SetChange
<1>5. /\ Bit(h \in T) = Bit(l = "allow" /\ frame'[h].key = k)
      /\ Bit(h \in S) = Bit(frame[h].label = "allow" /\ frame[h].key = k)
  BY <1>3 DEF Bit
<1> QED
  BY <1>4, <1>5 DEF S, T

\* A bucket grants as many tokens as handlers are allowed with its key.
LEMMA GrantsHeldStep ==
    ASSUME ServerInv, GrantsHeld, ServerStep
    PROVE  GrantsHeld'
<1>0. /\ HandlersType /\ \A h \in Handlers : Local(h)
      /\ taken \in [Buckets -> Nat] /\ Keys \in SUBSET Buckets
  BY BucketKinds DEF ServerInv, HandlersType, StoreType
<1>1. ASSUME NEW h \in Handlers, NEW from, NEW to, NEW l, Moves(h, from, to, l),
             NEW k \in Keys, taken'[k] = taken[k],
             (l = "allow" /\ frame'[h].key = k) <=> (frame[h].label = "allow" /\ frame[h].key = k)
      PROVE  taken'[k] = Cardinality(Granted(k)')
  <2> DEFINE x == Bit(l = "allow" /\ frame'[h].key = k)
             y == Bit(frame[h].label = "allow" /\ frame[h].key = k)
  <2>1. x \in Int /\ x = y
    BY <1>1 DEF Bit
  <2>2. Cardinality(Granted(k)) \in Nat /\ Cardinality(Granted(k)') = Cardinality(Granted(k)) + x - y
    BY <1>1, GrantedChange
  <2> HIDE DEF x, y
  <2>3. Cardinality(Granted(k)') = Cardinality(Granted(k))
    BY <2>1, <2>2
  <2> QED
    BY <1>1, <2>3 DEF GrantsHeld
<1>2. CASE Idles
  BY <1>2 DEF Idles, SameBooks, GrantsHeld, Granted
<1>3. ASSUME NEW h \in Handlers, Enters(h) \/ Passes(h) PROVE GrantsHeld'
  <2>1. taken' = taken
    BY <1>3 DEF Enters, Passes, SameBooks
  <2>2. PICK from \in {"idle", "client"}, to \in {"global", "done", "bucket"} :
          Moves(h, from, to, "none")
    BY <1>3 DEF Enters, Passes
  <2>3. frame[h].label # "allow"
    BY <1>0, <2>2, MovesFacts DEF Local
  <2>4. \A k \in Keys : taken'[k] = Cardinality(Granted(k)')
    BY <1>1, <2>1, <2>2, <2>3
  <2> QED
    BY <2>4 DEF GrantsHeld
<1>4. ASSUME NEW h \in Handlers, NEW b \in Buckets, Takes(h, b) PROVE GrantsHeld'
  <2>1. taken' = [taken EXCEPT ![b] = @ + 1] /\ frame'[h].key = frame[h].key
    BY <1>4 DEF Takes, Stays
  <2>2. ASSUME NEW from \in {"global", "ip"}, NEW to \in {"ip", "client"}, b \notin Keys,
               Moves(h, from, to, "none")
        PROVE  GrantsHeld'
    <3>1. frame[h].label # "allow"
      BY <1>0, <2>2, MovesFacts DEF Local
    <3>2. \A k \in Keys : taken'[k] = taken[k]
      BY <1>0, <2>1, <2>2
    <3>3. \A k \in Keys : taken'[k] = Cardinality(Granted(k)')
      BY <1>1, <2>2, <3>1, <3>2
    <3> QED
      BY <3>3 DEF GrantsHeld
  <2>3. CASE b = Global /\ Moves(h, "global", "ip", "none")
    BY <2>2, <2>3, BucketKinds
  <2>4. CASE b = frame[h].ip /\ Moves(h, "ip", "client", "none")
    <3>1. b \in IPs
      BY <1>0, <2>4, MovesFacts DEF Local, Named
    <3> QED
      BY <2>2, <2>4, <3>1, BucketKinds
  <2>5. CASE b = frame[h].key /\ Moves(h, "bucket", "audit", "allow")
    <3>1. frame[h].label # "allow"
      BY <1>0, <2>5, MovesFacts DEF Local
    <3>2. ASSUME NEW k \in Keys PROVE taken'[k] = Cardinality(Granted(k)')
      <4>1. CASE k = b
        <5>1. /\ Bit("allow" = "allow" /\ frame'[h].key = k) = 1
              /\ Bit(frame[h].label = "allow" /\ frame[h].key = k) = 0
          BY <2>1, <2>5, <3>1, <4>1 DEF Bit
        <5>2. Cardinality(Granted(k)) \in Nat
              /\ Cardinality(Granted(k)') = Cardinality(Granted(k)) + 1 - 0
          BY <2>5, <5>1, GrantedChange
        <5>3. taken'[k] = taken[k] + 1 /\ taken[k] = Cardinality(Granted(k))
          BY <1>0, <2>1, <4>1 DEF GrantsHeld
        <5> QED
          BY <5>2, <5>3
      <4>2. CASE k # b
        <5>1. taken'[k] = taken[k]
          BY <1>0, <2>1, <4>2
        <5> QED
          BY <1>1, <2>1, <2>5, <3>1, <4>2, <5>1
      <4> QED
        BY <4>1, <4>2
    <3> QED
      BY <3>2 DEF GrantsHeld
  <2> QED
    BY <1>4, <2>3, <2>4, <2>5 DEF Takes
<1>5. ASSUME NEW h \in Handlers, NEW b \in Buckets, Refuses(h, b) PROVE GrantsHeld'
  <2>1. taken' = taken
    BY <1>5 DEF Refuses
  <2>2. PICK from \in {"global", "ip", "bucket", "client"}, l \in {"reject", "blocked"} :
          Moves(h, from, "audit", l)
    BY <1>5 DEF Refuses
  <2>3. frame[h].label # "allow" /\ l # "allow"
    BY <1>0, <2>2, MovesFacts DEF Local
  <2>4. \A k \in Keys : taken'[k] = Cardinality(Granted(k)')
    BY <1>1, <2>1, <2>2, <2>3
  <2> QED
    BY <2>4 DEF GrantsHeld
<1>6. ASSUME NEW h \in Handlers, Logs(h) \/ Counts(h) \/ Finishes(h) PROVE GrantsHeld'
  <2>1. taken' = taken /\ frame'[h].key = frame[h].key
    BY <1>6 DEF Logs, Counts, Finishes, Stays
  <2>2. PICK from, to : Moves(h, from, to, frame[h].label)
    BY <1>6 DEF Logs, Counts, Finishes
  <2>3. \A k \in Keys : taken'[k] = Cardinality(Granted(k)')
    BY <1>1, <2>1, <2>2
  <2> QED
    BY <2>3 DEF GrantsHeld
<1> QED
  BY <1>2, <1>3, <1>4, <1>5, <1>6 DEF ServerStep, WorkStep

\* A client's first requests: so many at most, and more of them as n grows.
LEMMA MineFacts ==
    ASSUME NEW c, NEW n \in Nat
    PROVE  /\ IsFiniteSet(Mine(c, n)) /\ Cardinality(Mine(c, n)) \in Nat
           /\ Cardinality(Mine(c, n)) <= n
           /\ \A m \in Int : m <= n => Mine(c, m) \subseteq Mine(c, n)
<1>0. \A m : IsFiniteSet(Mine(c, m)) /\ Cardinality(Mine(c, m)) \in Nat
  <2>1. \A m : Mine(c, m) \in SUBSET Handlers
    BY DEF Mine
  <2> QED
    BY <2>1, NamesAssumption, FS_Subset, FS_CardinalityType
<1> DEFINE P == {m \in Nat : Cardinality(Mine(c, m)) <= m}
<1>1. 0 \in P
  <2>1. Mine(c, 0) = {}
    BY DEF Mine
  <2>2. Cardinality(Mine(c, 0)) = 0
    BY <2>1, FS_EmptySet
  <2> QED
    BY <2>2
<1>2. ASSUME NEW m \in P PROVE m + 1 \in P
  <2> DEFINE S == Mine(c, m) \cup {<<c, m + 1>>}
  <2>1. m \in Nat /\ Cardinality(Mine(c, m)) <= m /\ Cardinality(Mine(c, m)) \in Nat
    BY <1>0
  <2>2. Mine(c, m + 1) \subseteq S
    <3>1. \A i \in 1 .. (m + 1) : i \in 1 .. m \/ i = m + 1
      BY <2>1
    <3> QED
      BY <3>1 DEF Mine
  <2>3. IsFiniteSet(S) /\ Cardinality(S) \in Nat /\ Cardinality(S) <= Cardinality(Mine(c, m)) + 1
    <3>1. IsFiniteSet(S) /\ Cardinality(S) = IF <<c, m + 1>> \in Mine(c, m)
                              THEN Cardinality(Mine(c, m)) ELSE Cardinality(Mine(c, m)) + 1
      BY <1>0, FS_AddElement
    <3> HIDE DEF S
    <3> QED
      BY <2>1, <3>1
  <2> HIDE DEF S
  <2>4. Cardinality(Mine(c, m + 1)) <= Cardinality(S)
    BY <2>2, <2>3, FS_Subset
  <2>5. Cardinality(Mine(c, m + 1)) \in Nat
    BY <1>0
  <2>6. Cardinality(Mine(c, m + 1)) <= m + 1
    BY <2>1, <2>3, <2>4, <2>5
  <2> QED
    BY <2>1, <2>6
<1>3. n \in P
  <2>1. P \in SUBSET Nat
    OBVIOUS
  <2> HIDE DEF P
  <2> QED
    BY <1>1, <1>2, <2>1, NatSetInduction
<1>4. ASSUME NEW m \in Int, m <= n PROVE Mine(c, m) \subseteq Mine(c, n)
  <2>1. 1 .. m \subseteq 1 .. n
    BY <1>4
  <2> QED
    BY <2>1 DEF Mine
<1> QED
  BY <1>0, <1>3, <1>4

\* What each of a client's actions does to it.
Asks(c) ==
    /\ sim[c].at = "ready" /\ sim'[c].at = "await" /\ sim'[c].sent = sim[c].sent + 1
    /\ sim'[c].res = sim[c].res
Reads(c) ==
    /\ sim[c].at = "await" /\ sim'[c].at = "ready" /\ sim'[c].sent = sim[c].sent
    /\ sim'[c].res.Errors = sim[c].res.Errors
    /\ IF frame[<<c, sim[c].sent>>].status = 200
       THEN sim'[c].res.Allowed = sim[c].res.Allowed + 1
            /\ sim'[c].res.Rejected = sim[c].res.Rejected
       ELSE sim'[c].res.Allowed = sim[c].res.Allowed
            /\ sim'[c].res.Rejected = sim[c].res.Rejected + 1
Fails(c) ==
    /\ \/ sim[c].at = "ready" /\ sim'[c].at = "ready" /\ sim'[c].sent = sim[c].sent + 1
       \/ sim[c].at = "await" /\ sim'[c].at = "ready" /\ sim'[c].sent = sim[c].sent
    /\ sim'[c].res.Allowed = sim[c].res.Allowed /\ sim'[c].res.Rejected = sim[c].res.Rejected
    /\ sim'[c].res.Errors = sim[c].res.Errors + 1
Ends(c) ==
    /\ sim[c].at = "ready" /\ sim'[c].at = "done" /\ sim'[c].sent = sim[c].sent
    /\ sim'[c].res = sim[c].res
ClientStep(c) == Asks(c) \/ Reads(c) \/ Fails(c) \/ Ends(c)

\* These are a client's steps, and one client's leaves the others alone.
LEMMA ClientSteps ==
    ASSUME SimType, NEW c \in Clients
    PROVE  /\ DoRequest(c) => Asks(c)
           /\ Answer(c) => Reads(c)
           /\ DoError(c) => Fails(c)
           /\ Deliver(c) => Ends(c)
           /\ RunClient(c) => \A d \in Clients : d # c => sim'[d] = sim[d]
<1> DEFINE R == [Allowed : Nat, Rejected : Nat, Errors : Nat]
           C == [at : {"ready", "await", "done"}, sent : Nat, res : R]
           s == sim[c]
           t == s.res
<1>1. sim \in [Clients -> C] /\ s \in C /\ t \in R
  BY DEF SimType
<1>2. ASSUME NEW r, sim' = [sim EXCEPT ![c] = r]
      PROVE  sim'[c] = r /\ \A d \in Clients : d # c => sim'[d] = sim[d]
  <2> HIDE DEF C
  <2> QED
    BY <1>1, <1>2
<1>3. ASSUME DoRequest(c) PROVE Asks(c) /\ \A d \in Clients : d # c => sim'[d] = sim[d]
  <2> DEFINE r == [s EXCEPT !.at = "await", !.sent = s.sent + 1]
  <2>1. sim' = [sim EXCEPT ![c] = r] /\ s.at = "ready"
    BY <1>1, <1>3 DEF DoRequest
  <2>2. sim'[c] = r /\ \A d \in Clients : d # c => sim'[d] = sim[d]
    <3> HIDE DEF r
    <3> QED
      BY <1>2, <2>1
  <2> HIDE DEF R, s
  <2>3. r.at = "await" /\ r.sent = s.sent + 1 /\ r.res = s.res
    BY <1>1
  <2> HIDE DEF r
  <2> QED
    BY <2>1, <2>2, <2>3 DEF Asks, s
<1>4. ASSUME Answer(c) PROVE Reads(c) /\ \A d \in Clients : d # c => sim'[d] = sim[d]
  <2> DEFINE ok == frame[<<c, sim[c].sent>>].status = 200
             a == IF ok THEN t.Allowed + 1 ELSE t.Allowed
             b == IF ok THEN t.Rejected ELSE t.Rejected + 1
             q == [t EXCEPT !.Allowed = a, !.Rejected = b]
             r == [s EXCEPT !.at = "ready", !.res = q]
  <2>1. sim' = [sim EXCEPT ![c] = r] /\ s.at = "await"
    BY <1>1, <1>4, SMTT(30) DEF Answer
  <2>2. sim'[c] = r /\ \A d \in Clients : d # c => sim'[d] = sim[d]
    <3> HIDE DEF r
    <3> QED
      BY <1>2, <2>1
  <2>3. q.Allowed = a /\ q.Rejected = b /\ q.Errors = t.Errors
    <3> HIDE DEF a, b, t
    <3> QED
      BY <1>1
  <2>4. r.at = "ready" /\ r.sent = s.sent /\ r.res = q
    <3> HIDE DEF R, s, q
    <3> QED
      BY <1>1
  <2>5. /\ ok => a = t.Allowed + 1 /\ b = t.Rejected
        /\ ~ok => a = t.Allowed /\ b = t.Rejected + 1
    OBVIOUS
  <2> HIDE DEF r, q, a, b, ok
  <2>6. sim'[c].at = "ready" /\ sim'[c].sent = s.sent /\ sim'[c].res = q
    BY <2>2, <2>4
  <2>7. /\ ok => sim'[c].res.Allowed = t.Allowed + 1 /\ sim'[c].res.Rejected = t.Rejected
        /\ ~ok => sim'[c].res.Allowed = t.Allowed /\ sim'[c].res.Rejected = t.Rejected + 1
        /\ sim'[c].res.Errors = t.Errors
    BY <2>3, <2>5, <2>6
  <2> QED
    BY <2>1, <2>2, <2>6, <2>7 DEF Reads, ok
<1>5. ASSUME DoError(c) PROVE Fails(c) /\ \A d \in Clients : d # c => sim'[d] = sim[d]
  <2> DEFINE q == [t EXCEPT !.Errors = t.Errors + 1]
             r1 == [s EXCEPT !.sent = s.sent + 1, !.res = q]
             r2 == [s EXCEPT !.at = "ready", !.res = q]
  <2>1. \/ s.at = "ready" /\ sim' = [sim EXCEPT ![c] = r1]
        \/ s.at = "await" /\ sim' = [sim EXCEPT ![c] = r2]
    BY <1>1, <1>5 DEF DoError
  <2>2. q.Allowed = t.Allowed /\ q.Rejected = t.Rejected /\ q.Errors = t.Errors + 1
    <3> HIDE DEF t
    <3> QED
      BY <1>1
  <2>3. /\ r1.at = s.at /\ r1.sent = s.sent + 1 /\ r1.res = q
        /\ r2.at = "ready" /\ r2.sent = s.sent /\ r2.res = q
    <3> HIDE DEF R, s, q
    <3> QED
      BY <1>1
  <2> HIDE DEF r1, r2, q
  <2>4. CASE s.at = "ready" /\ sim' = [sim EXCEPT ![c] = r1]
    <3>1. sim'[c] = r1 /\ \A d \in Clients : d # c => sim'[d] = sim[d]
      BY <1>2, <2>4
    <3> QED
      BY <2>2, <2>3, <2>4, <3>1 DEF Fails
  <2>5. CASE s.at = "await" /\ sim' = [sim EXCEPT ![c] = r2]
    <3>1. sim'[c] = r2 /\ \A d \in Clients : d # c => sim'[d] = sim[d]
      BY <1>2, <2>5
    <3> QED
      BY <2>2, <2>3, <2>5, <3>1 DEF Fails
  <2> QED
    BY <2>1, <2>4, <2>5
<1>6. ASSUME Deliver(c) PROVE Ends(c) /\ \A d \in Clients : d # c => sim'[d] = sim[d]
  <2> DEFINE r == [s EXCEPT !.at = "done"]
  <2>1. sim' = [sim EXCEPT ![c] = r] /\ s.at = "ready"
    BY <1>1, <1>6 DEF Deliver
  <2>2. sim'[c] = r /\ \A d \in Clients : d # c => sim'[d] = sim[d]
    <3> HIDE DEF r
    <3> QED
      BY <1>2, <2>1
  <2> HIDE DEF R, s
  <2>3. r.at = "done" /\ r.sent = s.sent /\ r.res = s.res
    BY <1>1
  <2> HIDE DEF r
  <2> QED
    BY <2>1, <2>2, <2>3 DEF Ends, s
<1> QED
  BY <1>3, <1>4, <1>5, <1>6 DEF RunClient

\* A client takes one of its steps, or is left alone; it never takes a request back.
LEMMA ClientMoves ==
    ASSUME SimType, Next \/ UNCHANGED vars, NEW c \in Clients
    PROVE  /\ sim'[c] = sim[c] \/ ClientStep(c)
           /\ sim[c].sent \in Nat /\ sim'[c].sent \in Nat /\ sim[c].sent <= sim'[c].sent
<1>1. CASE sim' = sim
  BY <1>1 DEF SimType
<1>2. ASSUME NEW d \in Clients, RunClient(d)
      PROVE  sim'[c] = sim[c] \/ ClientStep(c)
  BY <1>2, ClientSteps DEF RunClient, ClientStep
<1>3. sim'[c] = sim[c] \/ ClientStep(c)
  BY <1>1, <1>2 DEF Next, Report, OtherRequest, simVars, vars
<1>4. sim[c].sent \in Nat
  BY DEF SimType
<1>5. sim'[c].sent = sim[c].sent \/ sim'[c].sent = sim[c].sent + 1
  BY <1>3 DEF ClientStep, Asks, Reads, Fails, Ends
<1> QED
  BY <1>3, <1>4, <1>5

\* Keys stay with the handlers they belong to.
LEMMA OwnKeysStep ==
    ASSUME ServerInv, SimType, OwnKeys, Next \/ UNCHANGED vars
    PROVE  OwnKeys'
<1>1. ASSUME NEW c \in Clients PROVE Mine(c, sim[c].sent) \subseteq Mine(c, sim'[c].sent)
  <2>1. sim[c].sent \in Nat /\ sim'[c].sent \in Nat /\ sim[c].sent <= sim'[c].sent
    BY ClientMoves
  <2> QED
    BY <2>1, MineFacts
<1>2. ASSUME NEW h \in Handlers, NEW c \in Clients, Live(h), frame'[h].key = frame[h].key
      PROVE  /\ frame'[h].key = ClientKey[c] => h \in Mine(c, sim'[c].sent)
             /\ h \in Mine(c, Turns[c]) => frame'[h].key = ClientKey[c]
  BY <1>1, <1>2 DEF OwnKeys
<1>3. ASSUME WorkStep PROVE OwnKeys'
  <2>1. \A h \in Handlers : Live(h)' => Live(h) /\ frame'[h].key = frame[h].key
    BY <1>3, LiveKept
  <2> SUFFICES ASSUME NEW h \in Handlers, NEW c \in Clients, Live(h)'
               PROVE  /\ frame'[h].key = ClientKey[c] => h \in Mine(c, sim'[c].sent)
                      /\ h \in Mine(c, Turns[c]) => frame'[h].key = ClientKey[c]
    BY DEF OwnKeys, Mine
  <2> QED
    BY <1>2, <2>1
<1>4. ASSUME NEW h \in Handlers, Enters(h),
             \A c \in Clients : pc'[h] = "global" =>
                /\ frame'[h].key = ClientKey[c] => h \in Mine(c, sim'[c].sent)
                /\ h \in Mine(c, Turns[c]) => frame'[h].key = ClientKey[c]
      PROVE  OwnKeys'
  <2> SUFFICES ASSUME NEW g \in Handlers, NEW c \in Clients, Live(g)'
               PROVE  /\ frame'[g].key = ClientKey[c] => g \in Mine(c, sim'[c].sent)
                      /\ g \in Mine(c, Turns[c]) => frame'[g].key = ClientKey[c]
    BY DEF OwnKeys, Mine
  <2>1. CASE g = h
    BY <1>4, <2>1, LiveEnters
  <2>2. CASE g # h
    BY <1>2, <1>4, <2>2, LiveEnters
  <2> QED
    BY <2>1, <2>2
<1>5. ASSUME NEW d \in Clients, DoRequest(d) PROVE OwnKeys'
  <2> DEFINE n == sim[d].sent + 1
             h == <<d, n>>
  <2>1. n \in 1 .. Turns[d] /\ HandleRequest(h, Profile(d)) /\ n \in Nat
    BY <1>5, TurnsAssumption DEF DoRequest, SimType
  <2>2. h \in Handlers
    BY <2>1, ClientHandler
  <2>3. SourceIP(Profile(d)) \in IPs
    BY NamesAssumption DEF SourceIP, Profile
  <2>4. Enters(h)
    <3> HIDE DEF h
    <3> QED
      BY <2>1, <2>2, <2>3, StepHandleRequest
  <2>5. pc'[h] = "global" => frame'[h].key = ClientKey[d]
    <3>1. pc'[h] = "global" => ClientIdentity(Profile(d)) \in Keys
                               /\ frame'[h].key = ClientIdentity(Profile(d))
      <4> HIDE DEF h
      <4> QED
        BY <2>1, <2>2, EnterKey
    <3>2. ClientIdentity(Profile(d)) = SourceIP(Profile(d))
          \/ ClientIdentity(Profile(d)) = Profile(d).apiKey
      BY DEF ClientIdentity
    <3>3. Profile(d).apiKey = ClientKey[d]
      BY DEF Profile
    <3>4. SourceIP(Profile(d)) \notin Keys
      BY <2>3, NamesAssumption
    <3> QED
      BY <3>1, <3>2, <3>3, <3>4
  <2>6. sim'[d].sent = n
    BY <1>5, ClientSteps DEF Asks
  <2>7. h \in Mine(d, sim'[d].sent)
    BY <2>1, <2>2, <2>6 DEF Mine
  <2>8. \A c \in Clients : c # d => h \notin Mine(c, Turns[c])
    BY DEF Mine
  <2>9. \A c \in Clients : c # d => ClientKey[c] # ClientKey[d]
    BY ProfilesAssumption
  <2> HIDE DEF h
  <2> QED
    BY <1>4, <2>2, <2>4, <2>5, <2>7, <2>8, <2>9
<1>6. ASSUME NEW h \in Others, NEW req \in Requests, OtherRequest(h, req) PROVE OwnKeys'
  <2>1. h \in Handlers /\ HandleRequest(h, req)
    BY <1>6, HandlersAssumption DEF OtherRequest
  <2>2. SourceIP(req) \in IPs
    BY RequestsAssumption DEF SourceIP
  <2>3. Enters(h)
    BY <2>1, <2>2, StepHandleRequest
  <2>4. pc'[h] = "global" => \A c \in Clients : frame'[h].key # ClientKey[c]
    BY <2>1, EnterKey, ProfilesAssumption
  <2>5. \A c \in Clients : h \notin Mine(c, Turns[c])
    <3>1. \A c \in Clients : h \notin {c} \X (1 .. Turns[c])
      BY ProfilesAssumption
    <3> QED
      BY <3>1 DEF Mine
  <2> QED
    BY <1>4, <2>1, <2>3, <2>4, <2>5
<1>7. CASE UNCHANGED serverVars
  BY <1>3, <1>7, StepServer
<1>8. ASSUME NEW c \in Clients, RunClient(c) PROVE OwnKeys'
  BY <1>5, <1>7, <1>8 DEF RunClient, Answer, DoError, Deliver
<1>9. CASE Report \/ UNCHANGED vars
  BY <1>7, <1>9 DEF Report, vars
<1>10. CASE ServerNext
  BY <1>3, <1>10, StepServer
<1> QED
  BY <1>6, <1>8, <1>9, <1>10 DEF Next

\* The answers a client has had do not change; one more may come.
LEMMA AnswersKept ==
    ASSUME ServerInv, ServerStep, NEW c, Settled(c) \in Nat, Settled(c)' \in Nat,
           Settled(c) <= Settled(c)'
    PROVE  /\ Yes(c) \subseteq Yes(c)' /\ No(c) \subseteq No(c)'
           /\ IsFiniteSet(Yes(c)) /\ IsFiniteSet(No(c)) /\ IsFiniteSet(Yes(c)') /\ IsFiniteSet(No(c)')
           /\ Cardinality(Yes(c)) \in Nat /\ Cardinality(No(c)) \in Nat
           /\ Cardinality(Yes(c)') \in Nat /\ Cardinality(No(c)') \in Nat
           /\ Cardinality(Yes(c)) <= Cardinality(Yes(c)')
           /\ Cardinality(No(c)) <= Cardinality(No(c)')
<1>1. Mine(c, Settled(c)) \subseteq Mine(c, Settled(c)') /\ Mine(c, Settled(c)) \subseteq Handlers
  BY MineFacts DEF Mine
<1>2. Yes(c) \subseteq Yes(c)'
  <2> SUFFICES ASSUME NEW g \in Yes(c) PROVE g \in Yes(c)'
    OBVIOUS
  <2>1. g \in Handlers /\ g \in Mine(c, Settled(c)') /\ frame[g].label = "allow"
    BY <1>1 DEF Yes
  <2>2. frame'[g].label = "allow"
    BY <2>1, Persist
  <2> QED
    BY <2>1, <2>2 DEF Yes, Mine
<1>3. No(c) \subseteq No(c)'
  <2> SUFFICES ASSUME NEW g \in No(c) PROVE g \in No(c)'
    OBVIOUS
  <2>1. g \in Handlers /\ g \in Mine(c, Settled(c)') /\ pc[g] = "done" /\ frame[g].label # "allow"
    BY <1>1 DEF No
  <2>2. pc'[g] = "done" /\ frame'[g] = frame[g]
    BY <2>1, Persist
  <2> QED
    BY <2>1, <2>2 DEF No, Mine
<1>4. /\ Yes(c) \in SUBSET Handlers /\ No(c) \in SUBSET Handlers
      /\ Yes(c)' \in SUBSET Handlers /\ No(c)' \in SUBSET Handlers
  BY DEF Yes, No, Mine
<1>5. \A S \in SUBSET Handlers : IsFiniteSet(S) /\ Cardinality(S) \in Nat
  BY NamesAssumption, FS_Subset, FS_CardinalityType
<1>6. /\ IsFiniteSet(Yes(c)) /\ IsFiniteSet(No(c)) /\ IsFiniteSet(Yes(c)') /\ IsFiniteSet(No(c)')
      /\ Cardinality(Yes(c)) \in Nat /\ Cardinality(No(c)) \in Nat
      /\ Cardinality(Yes(c)') \in Nat /\ Cardinality(No(c)') \in Nat
  BY <1>4, <1>5
<1>7. Cardinality(Yes(c)) <= Cardinality(Yes(c)') /\ Cardinality(No(c)) <= Cardinality(No(c)')
  BY <1>2, <1>3, <1>6, FS_Subset
<1> QED
  BY <1>2, <1>3, <1>6, <1>7

\* A set that has at least the members of another one, and one more.
LEMMA OneMore ==
    ASSUME NEW S, IsFiniteSet(S), NEW T, IsFiniteSet(T), S \subseteq T, NEW x \in T, x \notin S
    PROVE  Cardinality(S) + 1 <= Cardinality(T)
<1>1. IsFiniteSet(S \cup {x}) /\ Cardinality(S \cup {x}) = Cardinality(S) + 1
  BY FS_AddElement
<1>2. S \cup {x} \subseteq T
  OBVIOUS
<1>3. Cardinality(S \cup {x}) <= Cardinality(T)
  BY <1>1, <1>2, FS_Subset
<1> QED
  BY <1>1, <1>3

\* A client's numbers, and that it has sent what it awaits.
LEMMA TallyFacts ==
    ASSUME SimType, Tally, NEW c \in Clients
    PROVE  /\ sim[c].res.Allowed \in Nat /\ sim[c].res.Rejected \in Nat /\ sim[c].res.Errors \in Nat
           /\ sim[c].sent \in Nat /\ Awaited(c) \in {0, 1} /\ Settled(c) \in Nat
<1>1. /\ sim[c].res.Allowed \in Nat /\ sim[c].res.Rejected \in Nat /\ sim[c].res.Errors \in Nat
      /\ sim[c].sent \in Nat
  BY DEF SimType
<1>2. Awaited(c) \in {0, 1}
  BY DEF Awaited
<1>3. sim[c].res.Allowed + sim[c].res.Rejected + sim[c].res.Errors + Awaited(c) = sim[c].sent
  BY DEF Tally
<1>4. Settled(c) = sim[c].sent - Awaited(c)
  BY DEF Settled
<1> QED
  BY <1>1, <1>2, <1>3, <1>4

\* Each answer is counted once, as what it is.
LEMMA TallyStep ==
    ASSUME ServerInv, SimType, Tally, Next \/ UNCHANGED vars
    PROVE  Tally'
<1>0. ServerStep
  BY StepNext
<1> SUFFICES ASSUME NEW c \in Clients
             PROVE  /\ sim'[c].res.Allowed <= Cardinality(Yes(c)')
                    /\ sim'[c].res.Rejected <= Cardinality(No(c)')
                    /\ sim'[c].res.Allowed + sim'[c].res.Rejected + sim'[c].res.Errors + Awaited(c)'
                         = sim'[c].sent
  BY DEF Tally
<1>1. /\ sim[c].res.Allowed \in Nat /\ sim[c].res.Rejected \in Nat /\ sim[c].res.Errors \in Nat
      /\ sim[c].sent \in Nat /\ Awaited(c) \in {0, 1} /\ Settled(c) \in Nat
  BY TallyFacts
<1>2. /\ sim[c].res.Allowed <= Cardinality(Yes(c)) /\ sim[c].res.Rejected <= Cardinality(No(c))
      /\ sim[c].res.Allowed + sim[c].res.Rejected + sim[c].res.Errors + Awaited(c) = sim[c].sent
  BY DEF Tally
<1>3. Settled(c) = sim[c].sent - Awaited(c) /\ Settled(c)' = sim'[c].sent - Awaited(c)'
  BY DEF Settled
<1>4. /\ Awaited(c) = IF sim[c].at = "await" THEN 1 ELSE 0
      /\ Awaited(c)' = IF sim'[c].at = "await" THEN 1 ELSE 0
  BY DEF Awaited
<1>5. ASSUME Settled(c)' \in Nat, Settled(c) <= Settled(c)'
      PROVE  /\ Cardinality(Yes(c)) \in Nat /\ Cardinality(No(c)) \in Nat
             /\ Cardinality(Yes(c)') \in Nat /\ Cardinality(No(c)') \in Nat
             /\ Cardinality(Yes(c)) <= Cardinality(Yes(c)')
             /\ Cardinality(No(c)) <= Cardinality(No(c)')
  BY <1>0, <1>1, <1>5, AnswersKept
<1>6. CASE sim'[c] = sim[c] \/ Asks(c) \/ Ends(c)
  <2>1. /\ sim'[c].res = sim[c].res /\ Awaited(c)' \in {0, 1}
        /\ sim'[c].sent - Awaited(c)' = sim[c].sent - Awaited(c)
    BY <1>1, <1>4, <1>6 DEF Asks, Ends
  <2>2. Settled(c)' = Settled(c)
    BY <1>3, <2>1
  <2>3. Cardinality(Yes(c)) <= Cardinality(Yes(c)') /\ Cardinality(No(c)) <= Cardinality(No(c)')
        /\ Cardinality(Yes(c)) \in Nat /\ Cardinality(No(c)) \in Nat
        /\ Cardinality(Yes(c)') \in Nat /\ Cardinality(No(c)') \in Nat
    BY <1>1, <1>5, <2>2
  <2>4. sim'[c].sent \in Nat
    BY ClientMoves
  <2> QED
    BY <1>1, <1>2, <2>1, <2>3, <2>4
<1>7. CASE Fails(c)
  <2>1. /\ sim'[c].res.Allowed = sim[c].res.Allowed /\ sim'[c].res.Rejected = sim[c].res.Rejected
        /\ sim'[c].res.Errors = sim[c].res.Errors + 1
        /\ Awaited(c)' = 0 /\ sim'[c].sent = (sim[c].sent - Awaited(c)) + 1
    BY <1>1, <1>4, <1>7 DEF Fails
  <2>2. Settled(c)' = Settled(c) + 1
    BY <1>1, <1>3, <2>1
  <2>3. Cardinality(Yes(c)) <= Cardinality(Yes(c)') /\ Cardinality(No(c)) <= Cardinality(No(c)')
        /\ Cardinality(Yes(c)) \in Nat /\ Cardinality(No(c)) \in Nat
        /\ Cardinality(Yes(c)') \in Nat /\ Cardinality(No(c)') \in Nat
    BY <1>1, <1>5, <2>2
  <2> QED
    BY <1>1, <1>2, <2>1, <2>3
<1>8. CASE Reads(c)
  <2> DEFINE h == <<c, sim[c].sent>>
  <2>1. Awaited(c) = 1 /\ Awaited(c)' = 0 /\ sim'[c].sent = sim[c].sent
        /\ sim'[c].res.Errors = sim[c].res.Errors
    BY <1>4, <1>8 DEF Reads
  <2>2. Settled(c) = sim[c].sent - 1 /\ Settled(c)' = sim[c].sent
    BY <1>1, <1>3, <2>1
  <2>3. /\ Yes(c) \subseteq Yes(c)' /\ No(c) \subseteq No(c)'
        /\ IsFiniteSet(Yes(c)) /\ IsFiniteSet(No(c)) /\ IsFiniteSet(Yes(c)') /\ IsFiniteSet(No(c)')
    BY <1>0, <1>1, <2>2, AnswersKept
  <2>4. /\ Cardinality(Yes(c)) \in Nat /\ Cardinality(No(c)) \in Nat
        /\ Cardinality(Yes(c)') \in Nat /\ Cardinality(No(c)') \in Nat
        /\ Cardinality(Yes(c)) <= Cardinality(Yes(c)')
        /\ Cardinality(No(c)) <= Cardinality(No(c)')
    BY <1>1, <1>5, <2>2
  <2>5. Answer(c)
    <3>1. PICK d \in Clients : RunClient(d)
      BY <1>8 DEF Reads, Next, Report, OtherRequest, simVars, vars
    <3>2. d = c
      BY <1>8, <3>1, ClientSteps DEF Reads
    <3>3. ~DoRequest(c) /\ ~Deliver(c)
      BY <1>8, ClientSteps DEF Reads, Asks, Ends
    <3>4. ~DoError(c)
      BY <1>1, <1>8, ClientSteps DEF Reads, Fails
    <3> QED
      BY <3>1, <3>2, <3>3, <3>4 DEF RunClient
  <2>6. pc[h] = "done" /\ UNCHANGED <<pc, frame>>
    BY <2>5 DEF Answer, serverVars
  <2>7. h \in Handlers /\ h \in Mine(c, sim[c].sent) /\ h \notin Mine(c, sim[c].sent - 1)
    <3>1. sim[c].sent \in 1 .. sim[c].sent /\ sim[c].sent <= Turns[c]
      <4>1. sim[c].sent >= 1
        BY <1>1, <2>2
      <4> QED
        BY <1>1, <4>1 DEF SimType
    <3>2. h \in Handlers
      BY <3>1, TurnsAssumption, ClientHandler
    <3>3. sim[c].sent \notin 1 .. (sim[c].sent - 1)
      BY <1>1
    <3> QED
      BY <3>1, <3>2, <3>3 DEF Mine
  <2>8. h \notin Yes(c) /\ h \notin No(c)
    BY <2>2, <2>7 DEF Yes, No
  <2>9. Local(h)
    BY <2>7 DEF ServerInv, HandlersType
  <2>10. CASE frame[h].status = 200
    <3>1. frame'[h].label = "allow"
      BY <2>6, <2>9, <2>10 DEF Local
    <3>2. h \in Yes(c)'
      BY <2>2, <2>7, <3>1 DEF Yes, Mine
    <3>3. Cardinality(Yes(c)) + 1 <= Cardinality(Yes(c)')
      <4> HIDE DEF h
      <4> QED
        BY <2>3, <2>8, <3>2, OneMore
    <3>4. sim'[c].res.Allowed = sim[c].res.Allowed + 1 /\ sim'[c].res.Rejected = sim[c].res.Rejected
      BY <1>8, <2>10 DEF Reads
    <3> QED
      BY <1>1, <1>2, <2>1, <2>4, <3>3, <3>4
  <2>11. CASE frame[h].status # 200
    <3>1. pc'[h] = "done" /\ frame'[h].label # "allow"
      BY <2>6, <2>9, <2>11 DEF Local
    <3>2. h \in No(c)'
      BY <2>2, <2>7, <3>1 DEF No, Mine
    <3>3. Cardinality(No(c)) + 1 <= Cardinality(No(c)')
      <4> HIDE DEF h
      <4> QED
        BY <2>3, <2>8, <3>2, OneMore
    <3>4. sim'[c].res.Allowed = sim[c].res.Allowed /\ sim'[c].res.Rejected = sim[c].res.Rejected + 1
      BY <1>8, <2>11 DEF Reads
    <3> QED
      BY <1>1, <1>2, <2>1, <2>4, <3>3, <3>4
  <2> QED
    BY <2>10, <2>11
<1> QED
  BY <1>6, <1>7, <1>8, ClientMoves DEF ClientStep

\* A client that is done has put its result into the channel.
LEMMA DeliveredStep ==
    ASSUME SimType, Delivered, Next \/ UNCHANGED vars
    PROVE  Delivered'
<1> DEFINE E == [client : Clients, res : [Allowed : Nat, Rejected : Nat, Errors : Nat]]
           Has(seq, c, r) == \E i \in DOMAIN seq : seq[i] = [client |-> c, res |-> r]
<1>0. results \in Seq(E) /\ \A c \in Clients : sim[c].at = "done" => Has(results, c, sim[c].res)
  BY DEF Delivered
<1>1. ASSUME results' \in Seq(E),
             \A c \in Clients : sim'[c].at = "done" => Has(results', c, sim'[c].res)
      PROVE  Delivered'
  BY <1>1 DEF Delivered
<1>2. ASSUME NEW c \in Clients, sim'[c].at = "done" PROVE sim'[c].res = sim[c].res
        /\ (sim[c].at = "done" \/ Ends(c))
  BY <1>2, ClientMoves DEF ClientStep, Asks, Reads, Fails, Ends
<1>3. CASE results' = results /\ \A c \in Clients : ~Ends(c)
  BY <1>0, <1>1, <1>2, <1>3
<1>4. ASSUME NEW d \in Clients, Deliver(d) PROVE Delivered'
  <2> DEFINE e == [client |-> d, res |-> sim[d].res]
  <2>1. results' = Append(results, e)
    BY <1>4 DEF Deliver
  <2>2. e \in E
    BY DEF SimType
  <2>3. /\ results' \in Seq(E) /\ Len(results') = Len(results) + 1
        /\ \A i \in 1 .. Len(results) : results'[i] = results[i]
        /\ results'[Len(results) + 1] = e
    <3> HIDE DEF E, e
    <3> QED
      BY <1>0, <2>1, <2>2, AppendProperties
  <2>4. DOMAIN results = 1 .. Len(results) /\ DOMAIN results' = 1 .. Len(results')
        /\ Len(results) \in Nat
    <3> HIDE DEF E
    <3> QED
      BY <1>0, <2>3
  <2>5. ASSUME NEW c \in Clients, sim'[c].at = "done" PROVE Has(results', c, sim'[c].res)
    <3>1. CASE c = d
      <4>1. Len(results) + 1 \in DOMAIN results'
        BY <2>3, <2>4
      <4>2. sim'[c].res = sim[c].res
        BY <1>2, <2>5
      <4> QED
        BY <2>3, <3>1, <4>1, <4>2
    <3>2. CASE c # d
      <4>1. sim'[c] = sim[c]
        BY <1>4, <3>2, ClientSteps DEF RunClient
      <4>2. PICK i \in DOMAIN results : results[i] = [client |-> c, res |-> sim[c].res]
        BY <1>0, <2>5, <4>1
      <4>3. i \in DOMAIN results' /\ results'[i] = results[i]
        BY <2>3, <2>4
      <4> QED
        BY <4>1, <4>2, <4>3
    <3> QED
      BY <3>1, <3>2
  <2> HIDE DEF E, Has
  <2> QED
    BY <1>1, <2>3, <2>5
<1>5. CASE sim' = sim /\ results' = results
  BY <1>3, <1>5 DEF Ends
<1>6. ASSUME NEW d \in Clients, RunClient(d), ~Deliver(d) PROVE Delivered'
  <2>1. results' = results
    BY <1>6 DEF RunClient, DoRequest, Answer, DoError
  <2>2. Asks(d) \/ Reads(d) \/ Fails(d)
    BY <1>6, ClientSteps DEF RunClient
  <2>3. ~Ends(d)
    BY <2>2 DEF Asks, Reads, Fails, Ends
  <2>4. \A c \in Clients : c # d => ~Ends(c)
    BY <1>6, ClientSteps DEF Ends
  <2> QED
    BY <1>3, <2>1, <2>3, <2>4
<1> QED
  BY <1>4, <1>5, <1>6 DEF Next, Report, OtherRequest, simVars, vars

\* At the start.
LEMMA ReportInvInit == Init => ReportInv
<1> SUFFICES ASSUME Init PROVE ReportInv
  OBVIOUS
<1>0. ServerInit /\ Cardinality({}) = 0
  BY FS_EmptySet DEF Init
<1>1. \A h \in Handlers : frame[h].label = "none" /\ pc[h] = "idle"
  BY <1>0 DEF ServerInit, NoFrame
<1>2. GrantsHeld
  <2>1. ASSUME NEW k \in Keys PROVE taken[k] = Cardinality(Granted(k))
    <3>1. Granted(k) = {}
      BY <1>1 DEF Granted
    <3>2. taken[k] = 0
      BY <1>0, BucketKinds DEF ServerInit
    <3> QED
      BY <1>0, <3>1, <3>2
  <2> QED
    BY <2>1 DEF GrantsHeld
<1>3. OwnKeys
  BY <1>1 DEF OwnKeys, Live
<1>4. \A c \in Clients : sim[c].at = "ready" /\ sim[c].sent = 0 /\ sim[c].res = NoResult
  BY DEF Init
<1>5. ASSUME NEW c \in Clients
      PROVE  /\ sim[c].res.Allowed <= Cardinality(Yes(c))
             /\ sim[c].res.Rejected <= Cardinality(No(c))
             /\ sim[c].res.Allowed + sim[c].res.Rejected + sim[c].res.Errors + Awaited(c) = sim[c].sent
  <2>1. sim[c].res.Allowed = 0 /\ sim[c].res.Rejected = 0 /\ sim[c].res.Errors = 0
    BY <1>4 DEF NoResult
  <2>2. Awaited(c) = 0
    BY <1>4 DEF Awaited
  <2>3. Yes(c) = {} /\ No(c) = {}
    BY <1>1 DEF Yes, No, Mine
  <2> QED
    BY <1>0, <1>4, <2>1, <2>2, <2>3
<1>6. Tally
  BY <1>5 DEF Tally
<1>7. Delivered
  BY <1>4 DEF Init, Delivered
<1> QED
  BY <1>2, <1>3, <1>6, <1>7 DEF ReportInv

\* The report against the server's books.
LEMMA ReportInvImplies ==
    ASSUME SimType, ReportInv
    PROVE  ReportAgrees
<1>0. GrantsHeld /\ OwnKeys /\ Tally /\ Delivered
  BY DEF ReportInv
<1>1. ASSUME NEW c \in Clients
      PROVE  /\ sim[c].res.Allowed <= taken[ClientKey[c]]
             /\ taken[ClientKey[c]] <= sim[c].res.Allowed + sim[c].res.Errors + Awaited(c)
             /\ sim[c].res.Allowed + sim[c].res.Rejected + sim[c].res.Errors + Awaited(c) = sim[c].sent
  <2> DEFINE k == ClientKey[c]
             n == sim[c].sent
  <2>1. /\ sim[c].res.Allowed \in Nat /\ sim[c].res.Rejected \in Nat /\ sim[c].res.Errors \in Nat
        /\ n \in Nat /\ n <= Turns[c] /\ Turns[c] \in Nat
        /\ Awaited(c) \in {0, 1} /\ Settled(c) \in Nat
    BY <1>0, TallyFacts, TurnsAssumption DEF SimType
  <2>2. /\ sim[c].res.Allowed <= Cardinality(Yes(c)) /\ sim[c].res.Rejected <= Cardinality(No(c))
        /\ sim[c].res.Allowed + sim[c].res.Rejected + sim[c].res.Errors + Awaited(c) = n
    BY <1>0 DEF Tally
  <2>3. k \in Keys /\ taken[k] = Cardinality(Granted(k))
    BY <1>0, ProfilesAssumption DEF GrantsHeld
  <2>4. Settled(c) <= n /\ Settled(c) \in Int
    BY <2>1 DEF Settled
  <2>5. Mine(c, Settled(c)) \subseteq Mine(c, n) /\ Mine(c, n) \subseteq Mine(c, Turns[c])
    BY <2>1, <2>4, MineFacts
  <2>6. Yes(c) \subseteq Granted(k)
    <3> SUFFICES ASSUME NEW h \in Yes(c) PROVE h \in Granted(k)
      OBVIOUS
    <3>1. h \in Handlers /\ h \in Mine(c, Turns[c]) /\ frame[h].label = "allow"
      BY <2>5 DEF Yes, Mine
    <3>2. frame[h].key = k
      BY <1>0, <3>1 DEF OwnKeys, Live
    <3> QED
      BY <3>1, <3>2 DEF Granted
  <2>7. Granted(k) \subseteq Mine(c, n)
    BY <1>0 DEF Granted, OwnKeys, Live
  <2>8. No(c) \subseteq Mine(c, n) /\ Granted(k) \cap No(c) = {}
    BY <2>5 DEF No, Granted
  <2>9. /\ IsFiniteSet(Mine(c, n)) /\ Cardinality(Mine(c, n)) \in Nat
        /\ Cardinality(Mine(c, n)) <= n
    BY <2>1, MineFacts
  <2>10. /\ IsFiniteSet(Granted(k)) /\ IsFiniteSet(No(c)) /\ IsFiniteSet(Yes(c))
         /\ Cardinality(Granted(k)) \in Nat /\ Cardinality(No(c)) \in Nat
         /\ Cardinality(Yes(c)) \in Nat
    <3>1. IsFiniteSet(Granted(k)) /\ IsFiniteSet(No(c))
      BY <2>7, <2>8, <2>9, FS_Subset
    <3>2. IsFiniteSet(Yes(c))
      BY <2>6, <3>1, FS_Subset
    <3> QED
      BY <3>1, <3>2, FS_CardinalityType
  <2>11. Cardinality(Yes(c)) <= Cardinality(Granted(k))
    BY <2>6, <2>10, FS_Subset
  <2>12. Cardinality(Granted(k)) + Cardinality(No(c)) <= n
    <3> DEFINE S == Granted(k) \cup No(c)
    <3>1. IsFiniteSet(S) /\ Cardinality(S) = Cardinality(Granted(k)) + Cardinality(No(c))
                                          - Cardinality(Granted(k) \cap No(c))
      BY <2>10, FS_Union
    <3>2. Cardinality(Granted(k) \cap No(c)) = 0
      BY <2>8, FS_EmptySet
    <3>3. S \subseteq Mine(c, n)
      BY <2>7, <2>8
    <3>4. Cardinality(S) <= Cardinality(Mine(c, n)) /\ Cardinality(S) \in Nat
      BY <2>9, <3>1, <3>3, FS_Subset, FS_CardinalityType
    <3> HIDE DEF S, n, k
    <3> QED
      BY <2>1, <2>9, <2>10, <3>1, <3>2, <3>4
  <2> HIDE DEF k, n
  <2>13. sim[c].res.Allowed <= taken[k]
    BY <2>1, <2>2, <2>3, <2>10, <2>11
  <2>14. taken[k] <= sim[c].res.Allowed + sim[c].res.Errors + Awaited(c)
    BY <2>1, <2>2, <2>3, <2>10, <2>12
  <2> QED
    BY <2>2, <2>13, <2>14 DEF k, n
<1>2. \A c \in Clients : sim[c].at = "done" =>
        \E i \in DOMAIN results : results[i] = [client |-> c, res |-> sim[c].res]
  BY <1>0 DEF Delivered
<1> QED
  BY <1>1, <1>2 DEF ReportAgrees, Awaited

\* The simulator's report agrees with the server's own books, for any number of
\* clients and requests, with answers that come too late and requests that are lost.
THEOREM ReportTheorem == Spec => []ReportAgrees
<1>1. Init => ReportInv
  BY ReportInvInit
<1>2. ServerInv /\ SimType /\ ReportInv /\ [Next]_vars => ReportInv'
  <2> SUFFICES ASSUME ServerInv, SimType, ReportInv, [Next]_vars PROVE ReportInv'
    OBVIOUS
  <2>1. GrantsHeld /\ OwnKeys /\ Tally /\ Delivered /\ ServerStep
    BY StepNext DEF ReportInv
  <2>2. GrantsHeld' /\ OwnKeys' /\ Tally' /\ Delivered'
    BY <2>1, GrantsHeldStep, OwnKeysStep, TallyStep, DeliveredStep
  <2> QED
    BY <2>2 DEF ReportInv
<1>3. SimType /\ ReportInv => ReportAgrees
  BY ReportInvImplies
<1> QED
  BY <1>1, <1>2, <1>3, Typed, PTL DEF Spec
=============================================================================
