--------------------------- MODULE SentinelProofs ---------------------------
(***************************************************************************)
(* SlotsAccounted and InFlightDrained of Lifecycle, for any finite set of  *)
(* connections, any limit and any configuration file.  The balance of the  *)
(* semaphore is not inductive: closing a connection gives back its slot    *)
(* only if releaseOnce has not run, so the invariant also says which       *)
(* connections have been released.                                         *)
(*                                                                         *)
(* ParsedAsWritten and TiersLayered of Config, for any file.  Paths is a   *)
(* recursive function; that it has a value for every file, and that a new  *)
(* line leaves the paths of the others alone, is part of the invariant.    *)
(* The rest of it is that the stack holds exactly the sections that are    *)
(* open by their indentation, and that their maps are still in the tree.   *)
(***************************************************************************)
EXTENDS Sentinel, SequenceTheorems, FiniteSetTheorems, WellFoundedInduction, TLAPS

OpenStates == {"new", "active", "late", "idle"}

\* The variables that the balance is about have their types.
SlotTypes ==
    /\ srv = [s \in Servers |-> srv[s]]
    /\ sem \in [Servers -> Int]
    /\ conn \in [Conns -> [st : OpenStates \cup {"free", "shut"}, of : Servers \cup {"none"},
                           released : BOOLEAN]]
    /\ main = "booting" => \A s \in Servers : srv[s] = "off"

\* limitConn.releaseOnce has run exactly for the connections that Shutdown has
\* closed, and a connection that is not in use is like new.
ReleasedOnce ==
    \A c \in Conns : /\ conn[c].released <=> conn[c].st = "shut"
                     /\ conn[c].st = "free" => conn[c] = Free

Pending(s) == IF srv[s] = "accept" THEN 1 ELSE 0

SlotInv == SlotTypes /\ ReleasedOnce /\ SlotsAccounted

\* The connections of s among cs whose slots Close gives back.
Returned(s, cs) == {c \in cs : conn[c].of = s /\ ~conn[c].released}

\* The connections of a server are finitely many.
LEMMA OfFinite ==
    ASSUME NEW s, NEW states
    PROVE  IsFiniteSet(Of(s, states)) /\ Cardinality(Of(s, states)) \in Nat
<1>1. Of(s, states) \in SUBSET Conns
  BY DEF Of
<1>2. QED
  BY <1>1, FS_Subset, FS_CardinalityType, ConnsAssumption

\* A step of a server's goroutine that is not about a slot.
LEMMA GoesKeeps ==
    ASSUME SlotInv, NEW s \in Servers, NEW from, NEW to, Goes(s, from, to),
           from # "accept", to # "accept", main # "booting",
           UNCHANGED <<main, sem, conn>>
    PROVE  SlotInv'
<1>1. \A t \in Servers : (srv'[t] = "accept") <=> (srv[t] = "accept")
  BY DEF SlotInv, SlotTypes, Goes
<1>2. SlotTypes' /\ ReleasedOnce'
  BY DEF SlotInv, SlotTypes, ReleasedOnce, Goes
<1>3. SlotsAccounted'
  BY <1>1 DEF SlotInv, SlotsAccounted, Of, Limited, Servers
<1>4. QED
  BY <1>2, <1>3 DEF SlotInv

\* A step that moves an open connection from one open state to another.
LEMMA MoveKeeps ==
    ASSUME SlotInv, NEW c \in Conns, conn[c].st \in OpenStates, NEW st \in OpenStates,
           conn' = [conn EXCEPT ![c].st = st],
           main # "booting", UNCHANGED <<main, sem>>,
           srv' = [s \in Servers |-> srv'[s]],
           \A s \in Servers : (srv'[s] = "accept") <=> (srv[s] = "accept")
    PROVE  SlotInv'
<1>1. SlotTypes' /\ ReleasedOnce'
  BY DEF SlotInv, SlotTypes, ReleasedOnce, OpenStates
<1>2. \A s : Of(s, OpenStates)' = Of(s, OpenStates)
  BY DEF SlotInv, SlotTypes, Of
<1>3. SlotsAccounted'
  BY <1>2 DEF SlotInv, SlotsAccounted, OpenStates, Limited, Servers
<1>4. QED
  BY <1>1, <1>3 DEF SlotInv

\* limitConn.Close gives back the slots of the connections that were open, and
\* none of those that have been closed before.
LEMMA CloseKeeps ==
    ASSUME SlotInv, NEW cs \in SUBSET Conns, NEW st \in {"free", "shut"},
           \A c \in cs : conn[c].st \in OpenStates \cup {"shut"},
           Close(cs, st), main # "booting", UNCHANGED <<srv>>,
           main' # "booting"
    PROVE  SlotInv'
<1>1. conn' = [c \in Conns |-> IF c \notin cs THEN conn[c] ELSE
                    IF st = "free" THEN Free ELSE [conn[c] EXCEPT !.st = st, !.released = TRUE]]
  BY DEF Close
<1>2. conn' \in [Conns -> [st : OpenStates \cup {"free", "shut"}, of : Servers \cup {"none"},
                           released : BOOLEAN]]
  <2> DEFINE R == [st : OpenStates \cup {"free", "shut"}, of : Servers \cup {"none"},
                   released : BOOLEAN]
  <2>1. conn \in [Conns -> R]
    BY DEF SlotInv, SlotTypes
  <2>2. Free \in R
    BY DEF Free
  <2>3. ASSUME NEW c \in Conns PROVE [conn[c] EXCEPT !.st = st, !.released = TRUE] \in R
    <3>1. conn[c] \in R
      BY <2>1
    <3> QED
      BY <3>1
  <2> HIDE DEF R
  <2>4. conn' \in [Conns -> R]
    BY <1>1, <2>1, <2>2, <2>3
  <2> QED
    BY <2>4 DEF R
<1>3. ReleasedOnce'
  BY <1>1 DEF SlotInv, SlotTypes, ReleasedOnce, Free
<1>4. ASSUME NEW s \in Limited
      PROVE  /\ Cardinality(Returned(s, cs)) \in Nat
             /\ Cardinality(Of(s, OpenStates)')
                = Cardinality(Of(s, OpenStates)) - Cardinality(Returned(s, cs))
  <2> DEFINE gone == Returned(s, cs)
             kept == Of(s, OpenStates)'
             all == Of(s, OpenStates)
  <2>1. gone \in SUBSET all
    BY DEF SlotInv, SlotTypes, ReleasedOnce, Of, Returned
  <2>2. kept = all \ gone
    BY <1>1 DEF SlotInv, SlotTypes, ReleasedOnce, Of, OpenStates, Free, Limited, Returned
  <2>3. IsFiniteSet(gone) /\ IsFiniteSet(kept)
    BY <2>1, <2>2, OfFinite, FS_Subset
  <2>4. kept \cap gone = {} /\ kept \cup gone = all
    BY <2>1, <2>2
  <2>5. Cardinality(kept \cup gone) = Cardinality(kept) + Cardinality(gone) - Cardinality({})
    BY <2>3, <2>4, FS_Union
  <2>6. Cardinality(gone) \in Nat /\ Cardinality(kept) \in Nat
    BY <2>3, FS_CardinalityType
  <2>7. Cardinality(all) = Cardinality(kept) + Cardinality(gone) - 0
    BY <2>4, <2>5, FS_EmptySet
  <2>8. QED
    BY <2>6, <2>7
<1>5. sem' = [s \in Servers |-> IF s \notin Limited THEN sem[s]
                                ELSE sem[s] - Cardinality(Returned(s, cs))]
  BY DEF Close, Returned
<1>6. sem' \in [Servers -> Int]
  BY <1>4, <1>5 DEF SlotInv, SlotTypes
<1>7. SlotsAccounted'
  <2> SUFFICES ASSUME NEW s \in Limited
               PROVE  /\ sem'[s] = Cardinality(Of(s, OpenStates)') + Pending(s)'
                      /\ sem'[s] <= MaxConns
    BY DEF SlotsAccounted, OpenStates, Pending
  <2>1. sem[s] = Cardinality(Of(s, OpenStates)) + Pending(s) /\ sem[s] <= MaxConns
    BY DEF SlotInv, SlotsAccounted, OpenStates, Pending
  <2>2. sem'[s] = sem[s] - Cardinality(Returned(s, cs)) /\ Pending(s)' = Pending(s)
    BY <1>5 DEF Limited, Servers, Pending
  <2>3. sem[s] \in Int /\ Pending(s) \in Int /\ MaxConns \in Int
    BY LimitAssumption DEF SlotInv, SlotTypes, Limited, Servers, Pending
  <2>4. Cardinality(Of(s, OpenStates)) \in Nat
    BY OfFinite
  <2>5. QED
    BY <1>4, <2>1, <2>2, <2>3, <2>4
<1>8. SlotTypes'
  BY <1>2, <1>6 DEF SlotInv, SlotTypes
<1>9. QED
  BY <1>3, <1>7, <1>8 DEF SlotInv

\* limitListener.Accept: a slot is taken, and it passes to the connection or is
\* given back.
LEMMA AcquireSlotKeeps ==
    ASSUME SlotInv, NEW s \in Servers, AcquireSlot(s), main # "booting"
    PROVE  SlotInv'
<1>1. /\ srv[s] = "slot" /\ srv' = [srv EXCEPT ![s] = "accept"]
      /\ IF s \in Limited THEN sem[s] < MaxConns /\ sem' = [sem EXCEPT ![s] = @ + 1]
         ELSE sem' = sem
      /\ UNCHANGED <<main, conn>>
  BY DEF AcquireSlot, Goes, LifeRest
<1>2. SlotTypes' /\ ReleasedOnce'
  BY <1>1 DEF SlotInv, SlotTypes, ReleasedOnce
<1>3. SlotsAccounted'
  <2> SUFFICES ASSUME NEW t \in Limited
               PROVE  /\ sem'[t] = Cardinality(Of(t, OpenStates)') + Pending(t)'
                      /\ sem'[t] <= MaxConns
    BY DEF SlotsAccounted, OpenStates, Pending
  <2>1. sem[t] = Cardinality(Of(t, OpenStates)) + Pending(t) /\ sem[t] <= MaxConns
    BY DEF SlotInv, SlotsAccounted, OpenStates, Pending
  <2>2. Of(t, OpenStates)' = Of(t, OpenStates)
    BY <1>1 DEF Of
  <2>3. sem[t] \in Int /\ MaxConns \in Int /\ Cardinality(Of(t, OpenStates)) \in Nat
    BY LimitAssumption, OfFinite DEF SlotInv, SlotTypes, Limited, Servers
  <2>4. CASE t = s
    <3>1. sem'[t] = sem[t] + 1 /\ sem[t] < MaxConns /\ Pending(t) = 0 /\ Pending(t)' = 1
      BY <1>1, <2>4 DEF SlotInv, SlotTypes, Limited, Servers, Pending
    <3>2. QED
      BY <2>1, <2>2, <2>3, <3>1
  <2>5. CASE t # s
    <3>1. sem'[t] = sem[t] /\ Pending(t)' = Pending(t)
      BY <1>1, <2>5 DEF SlotInv, SlotTypes, Limited, Servers, Pending
    <3>2. QED
      BY <2>1, <2>2, <3>1
  <2>6. QED
    BY <2>4, <2>5
<1>4. QED
  BY <1>2, <1>3 DEF SlotInv

\* The slot of a pending Accept becomes that of the new connection.
LEMMA AcceptConnKeeps ==
    ASSUME SlotInv, NEW s \in Servers, NEW c \in Conns, AcceptConn(s, c), main # "booting"
    PROVE  SlotInv'
<1>1. /\ srv[s] = "accept" /\ srv' = [srv EXCEPT ![s] = "track"]
      /\ conn[c] = Free
      /\ conn' = [conn EXCEPT ![c] = [st |-> "new", of |-> s, released |-> FALSE]]
      /\ UNCHANGED <<main, sem>>
  BY DEF AcceptConn, Goes, LifeRest
<1>2. SlotTypes' /\ ReleasedOnce'
  BY <1>1 DEF SlotInv, SlotTypes, ReleasedOnce, OpenStates
<1>3. SlotsAccounted'
  <2> SUFFICES ASSUME NEW t \in Limited
               PROVE  /\ sem'[t] = Cardinality(Of(t, OpenStates)') + Pending(t)'
                      /\ sem'[t] <= MaxConns
    BY DEF SlotsAccounted, OpenStates, Pending
  <2>1. sem[t] = Cardinality(Of(t, OpenStates)) + Pending(t) /\ sem[t] <= MaxConns
    BY DEF SlotInv, SlotsAccounted, OpenStates, Pending
  <2>2. c \notin Of(t, OpenStates)
    BY <1>1 DEF Of, Free, OpenStates
  <2>3. IsFiniteSet(Of(t, OpenStates)) /\ Cardinality(Of(t, OpenStates)) \in Nat
    BY OfFinite
  <2>4. CASE t = s
    <3>1. Of(t, OpenStates)' = Of(t, OpenStates) \cup {c}
      BY <1>1, <2>4 DEF SlotInv, SlotTypes, Of, OpenStates
    <3>2. Cardinality(Of(t, OpenStates)') = Cardinality(Of(t, OpenStates)) + 1
      BY <2>2, <2>3, <3>1, FS_AddElement
    <3>3. Pending(t) = 1 /\ Pending(t)' = 0
      BY <1>1, <2>4 DEF SlotInv, SlotTypes, Limited, Servers, Pending
    <3>4. QED
      BY <1>1, <2>1, <2>3, <3>2, <3>3
  <2>5. CASE t # s
    <3>1. Of(t, OpenStates)' = Of(t, OpenStates)
      BY <1>1, <2>2, <2>5 DEF SlotInv, SlotTypes, Of, OpenStates
    <3>2. Pending(t)' = Pending(t)
      BY <1>1, <2>5 DEF SlotInv, SlotTypes, Limited, Servers, Pending
    <3>3. QED
      BY <1>1, <2>1, <3>1, <3>2
  <2>6. QED
    BY <2>4, <2>5
<1>4. QED
  BY <1>2, <1>3 DEF SlotInv

\* A failed Accept gives its slot back.
LEMMA AcceptErrorKeeps ==
    ASSUME SlotInv, NEW s \in Servers, AcceptError(s), main # "booting"
    PROVE  SlotInv'
<1>1. /\ srv[s] = "accept"
      /\ srv' = [srv EXCEPT ![s] = IF down[s] THEN "done" ELSE "slot"]
      /\ sem' = IF s \in Limited THEN [sem EXCEPT ![s] = @ - 1] ELSE sem
      /\ UNCHANGED <<main, conn>>
  BY DEF AcceptError, Goes, LifeRest
<1>2. SlotTypes' /\ ReleasedOnce'
  BY <1>1 DEF SlotInv, SlotTypes, ReleasedOnce
<1>3. SlotsAccounted'
  <2> SUFFICES ASSUME NEW t \in Limited
               PROVE  /\ sem'[t] = Cardinality(Of(t, OpenStates)') + Pending(t)'
                      /\ sem'[t] <= MaxConns
    BY DEF SlotsAccounted, OpenStates, Pending
  <2>1. sem[t] = Cardinality(Of(t, OpenStates)) + Pending(t) /\ sem[t] <= MaxConns
    BY DEF SlotInv, SlotsAccounted, OpenStates, Pending
  <2>2. Of(t, OpenStates)' = Of(t, OpenStates)
    BY <1>1 DEF Of
  <2>3. sem[t] \in Int /\ MaxConns \in Int /\ Cardinality(Of(t, OpenStates)) \in Nat
    BY LimitAssumption, OfFinite DEF SlotInv, SlotTypes, Limited, Servers
  <2>4. CASE t = s
    <3>1. sem'[t] = sem[t] - 1 /\ Pending(t) = 1 /\ Pending(t)' = 0
      BY <1>1, <2>4 DEF SlotInv, SlotTypes, Limited, Servers, Pending
    <3>2. QED
      BY <2>1, <2>2, <2>3, <3>1
  <2>5. CASE t # s
    <3>1. sem'[t] = sem[t] /\ Pending(t)' = Pending(t)
      BY <1>1, <2>5 DEF SlotInv, SlotTypes, Limited, Servers, Pending
    <3>2. QED
      BY <2>1, <2>2, <3>1
  <2>6. QED
    BY <2>4, <2>5
<1>4. QED
  BY <1>2, <1>3 DEF SlotInv

\* Steps that leave the servers' goroutines, the slots and the connections alone.
LEMMA IdleKeeps ==
    ASSUME SlotInv, UNCHANGED <<srv, sem, conn>>, main' = "booting" => main = "booting"
    PROVE  SlotInv'
<1>1. SlotTypes' /\ ReleasedOnce'
  BY DEF SlotInv, SlotTypes, ReleasedOnce
<1>2. \A s : Of(s, OpenStates)' = Of(s, OpenStates)
  BY DEF Of
<1>3. SlotsAccounted'
  BY <1>2 DEF SlotInv, SlotsAccounted, OpenStates
<1>4. QED
  BY <1>1, <1>3 DEF SlotInv

\* main starts the goroutines.
LEMMA StartKeeps ==
    ASSUME SlotInv, NEW metricsEnabled, Start(metricsEnabled)
    PROVE  SlotInv'
<1>1. /\ \A s \in Servers : srv[s] = "off"
      /\ srv' = [client |-> "spawned", admin |-> "spawned",
                 metrics |-> IF metricsEnabled THEN "ready" ELSE "off"]
      /\ main' = "running" /\ UNCHANGED <<sem, conn>>
  BY DEF Start, SlotInv, SlotTypes
<1>2. \A s \in Servers : srv[s] # "accept" /\ srv'[s] # "accept"
  BY <1>1 DEF Servers, Limited
<1>3. srv' = [s \in Servers |-> srv'[s]]
  BY <1>1 DEF Servers, Limited
<1>4. SlotTypes' /\ ReleasedOnce'
  BY <1>1, <1>3 DEF SlotInv, SlotTypes, ReleasedOnce
<1>5. SlotsAccounted'
  BY <1>1, <1>2 DEF SlotInv, SlotsAccounted, Of, Limited, Servers
<1>6. QED
  BY <1>4, <1>5 DEF SlotInv

\* main's calls after the signal.
LEMMA MainKeeps ==
    ASSUME SlotInv, main # "booting", MainStep
    PROVE  SlotInv'
<1>1. ASSUME NEW s \in Servers PROVE NextCall(s) # "booting"
  BY DEF NextCall
<1>2. ASSUME NEW s \in Servers, ShutdownCall(s) PROVE SlotInv'
  BY <1>1, <1>2, IdleKeeps DEF ShutdownCall
<1>3. ASSUME NEW s \in Servers, ShutdownPoll(s) PROVE SlotInv'
  <2>1. Close(Of(s, {"idle"}), "shut") /\ UNCHANGED srv /\ main' # "booting"
    BY <1>1, <1>3 DEF ShutdownPoll
  <2>2. /\ Of(s, {"idle"}) \in SUBSET Conns
        /\ \A c \in Of(s, {"idle"}) : conn[c].st \in OpenStates \cup {"shut"}
    BY DEF Of, OpenStates
  <2>3. QED
    BY <2>1, <2>2, CloseKeeps
<1>4. CASE Stop
  BY <1>4, IdleKeeps DEF Stop
<1>5. QED
  BY <1>2, <1>3, <1>4 DEF MainStep

\* What the goroutine of a connection does.
LEMMA ConnKeeps ==
    ASSUME SlotInv, main # "booting", NEW c \in Conns,
           FinishRequest(c) \/ NextRequest(c) \/ ExitConn(c)
    PROVE  SlotInv'
<1>1. srv = [s \in Servers |-> srv[s]]
  BY DEF SlotInv, SlotTypes
<1>2. ASSUME conn[c].st \in OpenStates \cup {"shut"}, Close({c}, "free"), ConnRest
      PROVE  SlotInv'
  BY <1>2, CloseKeeps DEF ConnRest, LifeRest
<1>3. CASE FinishRequest(c)
  <2>1. conn[c].st \in OpenStates /\ ConnRest
    BY <1>3 DEF FinishRequest, Busy, OpenStates
  <2>2. CASE Close({c}, "free")
    BY <1>2, <2>1, <2>2
  <2>3. CASE conn' = [conn EXCEPT ![c].st = "idle"] /\ UNCHANGED sem
    BY <1>1, <2>1, <2>3, MoveKeeps DEF ConnRest, LifeRest, OpenStates
  <2>4. QED
    BY <1>3, <2>2, <2>3 DEF FinishRequest
<1>4. CASE NextRequest(c)
  <2>1. /\ conn[c].st \in OpenStates /\ InFlight(conn[c].of) \in OpenStates
        /\ conn' = [conn EXCEPT ![c].st = InFlight(conn[c].of)]
        /\ UNCHANGED <<main, sem, srv>>
    BY <1>4 DEF NextRequest, InFlight, OpenStates, ConnRest, LifeRest
  <2>2. QED
    BY <1>1, <2>1, MoveKeeps
<1>5. CASE ExitConn(c)
  BY <1>2, <1>5 DEF ExitConn, OpenStates
<1>6. QED
  BY <1>3, <1>4, <1>5

\* What the goroutine of a server does.
LEMMA ServerKeeps ==
    ASSUME SlotInv, main # "booting", NEW s \in Servers,
           \/ ServerStep(s) \/ AcceptError(s) \/ \E c \in Conns : AcceptConn(s, c)
    PROVE  SlotInv'
<1>1. ASSUME SetServer(s) \/ Listen(s) \/ Serve(s) PROVE SlotInv'
  <2>1. UNCHANGED <<main, sem, conn>>
    BY <1>1 DEF SetServer, Listen, Serve, LifeRest
  <2>2. \/ Goes(s, "spawned", "ready") \/ Goes(s, "ready", "bound") \/ Goes(s, "ready", "done")
        \/ Goes(s, "bound", "done") \/ Goes(s, "bound", "slot")
    BY <1>1 DEF SetServer, Listen, Serve
  <2>3. QED
    BY <2>1, <2>2, GoesKeeps
<1>2. ASSUME NEW c \in Conns, Track(s, c) PROVE SlotInv'
  <2>1. /\ srv[s] = "track" /\ srv' = [srv EXCEPT ![s] = "slot"]
        /\ conn[c].st \in OpenStates /\ InFlight(s) \in OpenStates
        /\ conn' = [conn EXCEPT ![c].st = InFlight(s)]
        /\ UNCHANGED <<main, sem>>
    BY <1>2 DEF Track, Goes, LifeRest, Of, InFlight, OpenStates
  <2>2. /\ srv' = [t \in Servers |-> srv'[t]]
        /\ \A t \in Servers : (srv'[t] = "accept") <=> (srv[t] = "accept")
    BY <2>1 DEF SlotInv, SlotTypes
  <2>3. QED
    BY <2>1, <2>2, MoveKeeps
<1>3. QED
  BY <1>1, <1>2, AcquireSlotKeeps, AcceptConnKeeps, AcceptErrorKeeps DEF ServerStep

\* Every step of the process keeps the invariant.
LEMMA SlotStep == SlotInv /\ [Next]_vars => SlotInv'
<1> SUFFICES ASSUME SlotInv, [Next]_vars PROVE SlotInv'
  OBVIOUS
<1>1. CASE UNCHANGED lifeVars
  BY <1>1, IdleKeeps DEF lifeVars
<1>2. CASE Launch
  BY <1>2, StartKeeps DEF Launch
<1>3. CASE LifeNext
  <2>1. main # "booting"
    BY <1>3 DEF LifeNext
  <2>2. CASE Signal \/ Expire
    BY <2>1, <2>2, IdleKeeps DEF Signal, Expire
  <2>3. CASE MainStep
    BY <2>1, <2>3, MainKeeps
  <2>4. CASE \E c \in Conns : FinishRequest(c) \/ NextRequest(c) \/ ExitConn(c)
    BY <2>1, <2>4, ConnKeeps
  <2>5. CASE \E s \in Servers :
                ServerStep(s) \/ AcceptError(s) \/ \E c \in Conns : AcceptConn(s, c)
    BY <2>1, <2>5, ServerKeeps
  <2>6. QED
    BY <1>3, <2>2, <2>3, <2>4, <2>5 DEF LifeNext
<1>4. QED
  BY <1>1, <1>2, <1>3 DEF Next, vars

\* No slot is taken at first.
LEMMA SlotInit == Init => SlotInv
<1> SUFFICES ASSUME Init PROVE SlotInv
  OBVIOUS
<1>1. SlotTypes /\ ReleasedOnce
  BY DEF Init, LifeInit, SlotTypes, ReleasedOnce, Free
<1>2. \A s \in Limited : Of(s, OpenStates) = {}
  BY DEF Init, LifeInit, Of, Free, Limited
<1>3. \A s \in Limited : sem[s] = 0 /\ Pending(s) = 0 /\ Cardinality(Of(s, OpenStates)) = 0
  BY <1>2, FS_EmptySet DEF Init, LifeInit, Limited, Servers, Pending
<1>4. SlotsAccounted
  BY <1>3, LimitAssumption DEF SlotsAccounted, OpenStates, Pending
<1>5. QED
  BY <1>1, <1>4 DEF SlotInv

\* limitListener and limitConn: the semaphores always count the open connections
\* and the pending Accepts, and never exceed the limit, for any number of
\* connections and whenever Shutdown closes them.
THEOREM SlotsTheorem == Spec => []SlotsAccounted
<1>1. SlotInv => SlotsAccounted
  BY DEF SlotInv
<1>2. QED
  BY <1>1, SlotInit, SlotStep, PTL DEF Spec
-----------------------------------------------------------------------------
(* InFlightDrained: once main has passed a server whose deadline has not    *)
(* expired, no request that was under way then is left, and none is added. *)

\* No request of server s is under way that its Shutdown has to wait for.
Quiet(s) == \A c \in Conns : ~(conn[c].of = s /\ conn[c].st = "active")

\* main has returned from the Shutdown of server s.
Past(s) ==
    \/ s = "client" /\ main \in {"admin", "metrics", "wait", "stopped"}
    \/ s = "admin" /\ main \in {"metrics", "wait", "stopped"}
    \/ s = "metrics" /\ main \in {"wait", "stopped"} /\ srv[s] # "off"

Drained(s) == s \in skipped \/ (down[s] /\ (expired \/ Quiet(s)))

DrainInv ==
    /\ down = [s \in Servers |-> down[s]]
    /\ polling => main \in Servers /\ down[main]
    /\ \A c \in Conns : conn[c].st # "free" => conn[c].of \in Servers /\ srv[conn[c].of] # "off"
    /\ \A s \in Servers : Past(s) => Drained(s)

\* A server's goroutine or a connection takes a step: main stays where it is, and
\* of the servers that are shut down none gets another active request.
LEMMA OthersKeep ==
    ASSUME SlotInv, DrainInv,
           UNCHANGED <<main, polling, expired, skipped, down>>,
           \A s \in Servers : (srv'[s] = "off") <=> (srv[s] = "off"),
           \A c \in Conns : conn'[c].st # "free" =>
                conn'[c].of \in Servers /\ srv[conn'[c].of] # "off",
           \A c \in Conns : conn'[c].st = "active" =>
                \/ conn[c].st = "active" /\ conn'[c].of = conn[c].of
                \/ ~down[conn'[c].of]
    PROVE  DrainInv'
<1>1. \A s \in Servers : down[s] /\ Quiet(s) => Quiet(s)'
  BY DEF Quiet
<1>2. \A s \in Servers : Past(s)' => Past(s)
  BY DEF Past
<1>3. \A s \in Servers : Past(s)' => Drained(s)'
  BY <1>1, <1>2 DEF DrainInv, Drained
<1>4. \A c \in Conns : conn'[c].st # "free" =>
            conn'[c].of \in Servers /\ srv'[conn'[c].of] # "off"
  OBVIOUS
<1>5. QED
  BY <1>3, <1>4 DEF DrainInv

\* Closing connections makes none active.
LEMMA CloseQuiet ==
    ASSUME SlotInv, NEW cs \in SUBSET Conns, NEW st \in {"free", "shut"}, Close(cs, st)
    PROVE  \A c \in Conns :
                /\ conn'[c].st # "free" => conn[c].st # "free" \/ c \in cs
                /\ conn'[c].st # "free" => conn'[c].of = conn[c].of
                /\ conn'[c].st = "active" => conn[c].st = "active"
BY DEF Close, SlotInv, SlotTypes, Free

\* A server's goroutine activates a connection only before its Shutdown.
LEMMA ServerDrains ==
    ASSUME SlotInv, DrainInv, NEW s \in Servers,
           \/ ServerStep(s) \/ AcceptError(s) \/ \E c \in Conns : AcceptConn(s, c)
    PROVE  DrainInv'
<1>1. PICK from, to : Goes(s, from, to) /\ from # "off" /\ to # "off"
  BY DEF ServerStep, AcceptError, AcceptConn, SetServer, Listen, Serve, AcquireSlot, Track, Goes
<1>2. \A t \in Servers : (srv'[t] = "off") <=> (srv[t] = "off")
  BY <1>1 DEF Goes, SlotInv, SlotTypes
<1>3. UNCHANGED <<main, polling, expired, skipped, down>>
  BY DEF ServerStep, AcceptError, AcceptConn, SetServer, Listen, Serve, AcquireSlot, Track, LifeRest
<1>4. CASE UNCHANGED conn
  BY <1>2, <1>3, <1>4, OthersKeep DEF DrainInv
<1>5. ASSUME NEW c \in Conns, AcceptConn(s, c) PROVE DrainInv'
  <2>1. /\ conn' = [conn EXCEPT ![c] = [st |-> "new", of |-> s, released |-> FALSE]]
        /\ srv[s] = "accept"
    BY <1>5 DEF AcceptConn, Goes
  <2>2. \A d \in Conns :
            /\ conn'[d].st # "free" => conn'[d].of \in Servers /\ srv[conn'[d].of] # "off"
            /\ conn'[d].st = "active" => conn[d].st = "active" /\ conn'[d].of = conn[d].of
    BY <2>1 DEF SlotInv, SlotTypes, DrainInv
  <2>3. QED
    BY <1>2, <1>3, <2>2, OthersKeep
<1>6. ASSUME NEW c \in Conns, Track(s, c) PROVE DrainInv'
  <2>1. /\ conn' = [conn EXCEPT ![c].st = InFlight(s)]
        /\ conn[c].of = s /\ srv[s] = "track"
    BY <1>6 DEF Track, Of, Goes
  <2>2. \A d \in Conns :
            /\ conn'[d].st # "free" => conn'[d].of \in Servers /\ srv[conn'[d].of] # "off"
            /\ conn'[d].st = "active" =>
                (conn[d].st = "active" /\ conn'[d].of = conn[d].of) \/ ~down[conn'[d].of]
    BY <2>1 DEF InFlight, SlotInv, SlotTypes, DrainInv
  <2>3. QED
    BY <1>2, <1>3, <2>2, OthersKeep
<1>7. QED
  BY <1>4, <1>5, <1>6
  DEF ServerStep, AcceptError, SetServer, Listen, Serve, AcquireSlot

\* A connection's goroutine ends requests, or starts one that is not waited for.
LEMMA ConnDrains ==
    ASSUME SlotInv, DrainInv, NEW c \in Conns,
           FinishRequest(c) \/ NextRequest(c) \/ ExitConn(c)
    PROVE  DrainInv'
<1>1. UNCHANGED <<main, polling, expired, skipped, down, srv>>
  BY DEF FinishRequest, NextRequest, ExitConn, ConnRest, LifeRest
<1>2. conn[c].st # "free"
  BY DEF FinishRequest, NextRequest, ExitConn, Busy
<1>3. CASE Close({c}, "free")
  <2>1. \A d \in Conns :
            /\ conn'[d].st # "free" => conn[d].st # "free" /\ conn'[d].of = conn[d].of
            /\ conn'[d].st = "active" => conn[d].st = "active"
    BY <1>2, <1>3, CloseQuiet
  <2>2. QED
    BY <1>1, <2>1, OthersKeep DEF DrainInv
<1>4. ASSUME NEW st, conn' = [conn EXCEPT ![c].st = st], st # "active" \/ ~down[conn[c].of]
      PROVE  DrainInv'
  <2>1. \A d \in Conns :
            /\ conn'[d].st # "free" => conn'[d].of \in Servers /\ srv[conn'[d].of] # "off"
            /\ conn'[d].st = "active" =>
                (conn[d].st = "active" /\ conn'[d].of = conn[d].of) \/ ~down[conn'[d].of]
    BY <1>2, <1>4 DEF SlotInv, SlotTypes, DrainInv
  <2>2. QED
    BY <1>1, <2>1, OthersKeep
<1>5. CASE FinishRequest(c)
  BY <1>3, <1>4, <1>5 DEF FinishRequest
<1>6. CASE NextRequest(c)
  BY <1>4, <1>6 DEF NextRequest, InFlight
<1>7. QED
  BY <1>3, <1>5, <1>6 DEF ExitConn

\* main goes from one Shutdown to the next when it has found no request under
\* way, its deadline has passed, or there was no server to shut down.
LEMMA MainDrains ==
    ASSUME SlotInv, DrainInv, MainStep
    PROVE  DrainInv'
<1>1. ASSUME NEW s \in Servers, main = s, main' = NextCall(s), UNCHANGED srv
      PROVE  \A t \in Servers : Past(t)' => Past(t) \/ t = s
  BY <1>1 DEF Past, NextCall, Servers, Limited
<1>2. ASSUME NEW s \in Servers, ShutdownCall(s) PROVE DrainInv'
  <2>1. CASE srv[s] = "spawned"
    <3>1. /\ main = s /\ ~polling /\ main' = NextCall(s) /\ skipped' = skipped \cup {s}
          /\ UNCHANGED <<polling, down, expired, srv, conn>>
      BY <1>2, <2>1 DEF ShutdownCall
    <3>2. \A t \in Servers : Quiet(t)' <=> Quiet(t)
      BY <3>1 DEF Quiet
    <3>3. \A t \in Servers : Past(t)' => Drained(t)'
      BY <1>1, <3>1, <3>2 DEF DrainInv, Drained
    <3>4. QED
      BY <3>1, <3>3 DEF DrainInv
  <2>2. CASE srv[s] # "spawned"
    <3>1. /\ main = s /\ polling' = TRUE /\ down' = [down EXCEPT ![s] = TRUE]
          /\ UNCHANGED <<main, skipped, expired, srv, conn>>
      BY <1>2, <2>2 DEF ShutdownCall
    <3>2. \A t \in Servers : (Quiet(t)' <=> Quiet(t)) /\ (down[t] => down'[t])
      BY <3>1 DEF Quiet, DrainInv
    <3>3. \A t \in Servers : Past(t)' => Drained(t)'
      BY <3>1, <3>2 DEF DrainInv, Drained, Past
    <3>4. QED
      BY <3>1, <3>3 DEF DrainInv
  <2>3. QED
    BY <2>1, <2>2
<1>3. ASSUME NEW s \in Servers, ShutdownPoll(s) PROVE DrainInv'
  <2>1. /\ main = s /\ polling /\ Close(Of(s, {"idle"}), "shut")
        /\ UNCHANGED <<expired, skipped, srv, down>>
    BY <1>3 DEF ShutdownPoll
  <2>2. \A c \in Conns :
            /\ conn'[c].st # "free" => conn[c].st # "free" /\ conn'[c].of = conn[c].of
            /\ conn'[c].st = "active" => conn[c].st = "active"
    BY <2>1, CloseQuiet DEF Of
  <2>3. \A t \in Servers : Quiet(t) => Quiet(t)'
    BY <2>2 DEF Quiet
  <2>4. CASE Of(s, Busy) = {} \/ expired
    <3>1. main' = NextCall(s) /\ polling' = FALSE
      BY <1>3, <2>4 DEF ShutdownPoll
    <3>2. down[s] /\ (expired \/ Quiet(s))
      BY <2>1, <2>4 DEF DrainInv, Of, Busy, Quiet
    <3>3. \A t \in Servers : Past(t)' => Drained(t)'
      BY <1>1, <2>1, <2>3, <3>1, <3>2 DEF DrainInv, Drained
    <3>4. QED
      BY <2>1, <2>2, <3>1, <3>3 DEF DrainInv
  <2>5. CASE ~(Of(s, Busy) = {} \/ expired)
    <3>1. UNCHANGED <<main, polling>>
      BY <1>3, <2>5 DEF ShutdownPoll
    <3>2. QED
      BY <2>1, <2>2, <3>1, OthersKeep DEF DrainInv
  <2>6. QED
    BY <2>4, <2>5
<1>4. CASE Stop
  <2>1. /\ main = "wait" /\ main' = "stopped"
        /\ UNCHANGED <<polling, expired, skipped, srv, down, conn>>
    BY <1>4 DEF Stop
  <2>2. \A s \in Servers : (Past(s)' <=> Past(s)) /\ (Drained(s)' <=> Drained(s))
    BY <2>1 DEF Past, Drained, Quiet
  <2>3. ~polling
    BY <2>1 DEF DrainInv, Servers, Limited
  <2>4. QED
    BY <2>1, <2>2, <2>3 DEF DrainInv
<1>5. QED
  BY <1>2, <1>3, <1>4 DEF MainStep

\* Every step of the process keeps the second invariant, given the first.
LEMMA DrainStep == SlotInv /\ DrainInv /\ [Next]_vars => DrainInv'
<1> SUFFICES ASSUME SlotInv, DrainInv, [Next]_vars PROVE DrainInv'
  OBVIOUS
<1>1. CASE UNCHANGED lifeVars
  BY <1>1 DEF lifeVars, DrainInv, Past, Drained, Quiet
<1>2. CASE Launch
  <2>1. /\ main = "booting" /\ main' = "running" /\ UNCHANGED <<polling, down, conn>>
        /\ \A s \in Servers : srv[s] = "off"
    BY <1>2 DEF Launch, Start, SlotInv, SlotTypes
  <2>2. ~polling /\ \A c \in Conns : conn[c].st = "free"
    BY <2>1 DEF DrainInv, Servers, Limited
  <2>3. QED
    BY <2>1, <2>2 DEF DrainInv, Past
<1>3. CASE LifeNext
  <2>1. CASE Signal
    <3>1. main = "running" /\ main' = "client" /\ UNCHANGED <<polling, srv, down, conn>>
      BY <2>1 DEF Signal
    <3>2. ~polling
      BY <3>1 DEF DrainInv, Servers, Limited
    <3>3. QED
      BY <3>1, <3>2 DEF DrainInv, Past
  <2>2. CASE Expire
    <3>1. expired' = TRUE /\ UNCHANGED <<main, polling, skipped, srv, down, conn>>
      BY <2>2 DEF Expire
    <3>2. \A s \in Servers : (Past(s)' <=> Past(s)) /\ (Drained(s) => Drained(s)')
      BY <3>1 DEF Past, Drained
    <3>3. QED
      BY <3>1, <3>2 DEF DrainInv
  <2>3. CASE MainStep
    BY <2>3, MainDrains
  <2>4. CASE \E c \in Conns : FinishRequest(c) \/ NextRequest(c) \/ ExitConn(c)
    BY <2>4, ConnDrains
  <2>5. CASE \E s \in Servers :
                ServerStep(s) \/ AcceptError(s) \/ \E c \in Conns : AcceptConn(s, c)
    BY <2>5, ServerDrains
  <2>6. QED
    BY <1>3, <2>1, <2>2, <2>3, <2>4, <2>5 DEF LifeNext
<1>4. QED
  BY <1>1, <1>2, <1>3 DEF Next, vars

\* main and Shutdown: unless the deadline passed, no request that was under way at
\* a server's Shutdown is left when the process ends, for any number of
\* connections on any of the servers.
THEOREM DrainTheorem == Spec => []InFlightDrained
<1>1. Init => SlotInv /\ DrainInv
  <2>1. Init => DrainInv
    BY DEF Init, LifeInit, DrainInv, Past, Free
  <2>2. QED
    BY <2>1, SlotInit
<1>2. SlotInv /\ DrainInv => InFlightDrained
  <2> SUFFICES ASSUME DrainInv, main = "stopped", ~expired, NEW s \in Servers \ skipped
               PROVE  Of(s, {"active"}) = {}
    BY DEF InFlightDrained
  <2>1. CASE Past(s)
    BY <2>1 DEF DrainInv, Drained, Quiet, Of
  <2>2. CASE ~Past(s)
    BY <2>2 DEF Past, DrainInv, Of, Servers, Limited
  <2>3. QED
    BY <2>1, <2>2
<1>3. QED
  BY <1>1, <1>2, SlotStep, DrainStep, PTL DEF Spec
-----------------------------------------------------------------------------
(* ParsedAsWritten: what parseTree makes of the lines.                     *)

\* The smallest member of a set of line numbers.
LEMMA SmallestLine ==
    ASSUME NEW S \in SUBSET Nat, S # {}
    PROVE  \E x \in S : \A y \in S : x <= y
<1> DEFINE before == {p \in Nat \X Nat : p[1] < p[2]}
<1>1. IsWellFoundedOn(before, Nat)
  <2>1. IsWellFoundedOn(OpToRel(<, Nat), Nat)
    BY NatLessThanWellFounded
  <2> QED
    BY <2>1 DEF OpToRel
<1>2. PICK x \in S : \A y \in S : ~(<<y, x>> \in before)
  BY <1>1, WFMin
<1>3. ASSUME NEW y \in S PROVE x <= y
  <2>1. <<y, x>> \in Nat \X Nat /\ <<y, x>> \notin before
    BY <1>2
  <2>2. ~(<<y, x>>[1] < <<y, x>>[2])
    BY <2>1
  <2> QED
    BY <2>2
<1> QED
  BY <1>3

\* The function that Paths is by its definition.
Innermost(i) == CHOOSE j \in Enclosing(i) : \A k \in Enclosing(i) : k <= j
PathOf(f, i) ==
    IF Enclosing(i) = {} THEN <<file[i].key>> ELSE Append(f[Innermost(i)], file[i].key)
IsPaths(f) == f = [i \in 1 .. Len(file) |-> PathOf(f, i)]

\* The keys of lines, and those that Load looks for in tiers.
Words == {l.key : l \in Lines} \cup {"tiers", "default"} \cup BucketFields

\* Every line has a path, which ends in its key.
Named ==
    /\ file \in Seq(Lines) /\ IsPaths(Paths)
    /\ \A i \in 1 .. Len(file) : Paths[i] \in Seq(Words) /\ Len(Paths[i]) > 0

\* The stack has its root first, and each further frame is one level deeper and
\* indented more.
Frames == [indent : Int, path : Seq(Words)]
Nested ==
    /\ stack \in Seq(Frames)
    /\ Len(stack) > 0 /\ stack[1] = Root
    /\ \A i \in 1 .. Len(stack) : Len(stack[i].path) = i - 1
    /\ \A i, j \in 1 .. Len(stack) : i < j => stack[i].indent < stack[j].indent

\* The frames above the root are the sections that no later line is out of.
OpenLine(j) ==
    /\ file[j].text = Section
    /\ \A k \in j + 1 .. Len(file) : file[j].indent < file[k].indent
FrameOf(j) == [indent |-> file[j].indent, path |-> Paths[j]]
StackIsOpen ==
    /\ \A i \in 2 .. Len(stack) : \E j \in 1 .. Len(file) : OpenLine(j) /\ stack[i] = FrameOf(j)
    /\ \A j \in 1 .. Len(file) : OpenLine(j) => \E i \in 2 .. Len(stack) : stack[i] = FrameOf(j)

\* The maps on the stack are still in the tree, and every node is in a section.
Attached == \A i \in 2 .. Len(stack) : IsSection(stack[i].path)
Rooted ==
    \A p \in DOMAIN tree : /\ p \in Seq(Words) /\ Len(p) > 0
                           /\ Len(p) > 1 => IsSection(SubSeq(p, 1, Len(p) - 1))

TreeStands ==
    /\ DOMAIN tree = {Paths[i] : i \in Standing}
    /\ \A i \in Standing : tree[Paths[i]] = file[i].text

Parsed == Named /\ Nested /\ StackIsOpen /\ Attached /\ Rooted /\ TreeStands

\* The recursion is a choice of a function that satisfies it.
LEMMA PathsUnfold == Paths = CHOOSE f : IsPaths(f)
BY DEF Paths, IsPaths, PathOf, Innermost

\* If there is such a function, Paths is one.
LEMMA PathsExist ==
    ASSUME NEW f, IsPaths(f)
    PROVE  IsPaths(Paths)
BY PathsUnfold

\* The section of a line comes before it.
LEMMA InnermostBefore ==
    ASSUME NEW i \in Nat, Enclosing(i) # {}
    PROVE  /\ Innermost(i) \in Enclosing(i) /\ Innermost(i) \in 1 .. i - 1
           /\ \A k \in Enclosing(i) : k <= Innermost(i)
<1> DEFINE S == Enclosing(i)
           after == {i - k : k \in S}
<1>1. S \in SUBSET (1 .. i - 1)
  BY DEF Enclosing
<1>2. after \in SUBSET Nat /\ after # {}
  BY <1>1
<1>3. PICK a \in after : \A b \in after : a <= b
  BY <1>2, SmallestLine
<1>4. PICK j \in S : a = i - j
  OBVIOUS
<1>5. ASSUME NEW k \in S PROVE k <= j
  <2>1. i - j <= i - k
    BY <1>3, <1>4
  <2> QED
    BY <1>1, <2>1
<1> HIDE DEF S
<1>6. Innermost(i) \in S /\ \A k \in S : k <= Innermost(i)
  BY <1>5 DEF Innermost, S
<1> QED
  BY <1>1, <1>6 DEF S

\* The largest member of a set is unique.
LEMMA LargestIs ==
    ASSUME NEW S \in SUBSET Nat, NEW j \in S, \A k \in S : k <= j
    PROVE  (CHOOSE x \in S : \A k \in S : k <= x) = j
<1> DEFINE c == CHOOSE x \in S : \A k \in S : k <= x
<1>1. c \in S /\ \A k \in S : k <= c
  OBVIOUS
<1> HIDE DEF c
<1>2. c <= j /\ j <= c
  BY <1>1
<1>3. c = j
  BY <1>1, <1>2
<1> QED
  BY <1>3 DEF c

\* parseTree's inner loop keeps exactly the frames that are indented less.
LEMMA OpenFrames ==
    ASSUME Nested, NEW indent \in Nat
    PROVE  \E m \in 1 .. Len(stack) :
               /\ Open(indent) = SubSeq(stack, 1, m)
               /\ \A i \in 1 .. Len(stack) : i <= m <=> stack[i].indent < indent
<1> DEFINE kept == {n \in 1 .. Len(stack) :
                        \A i \in n + 1 .. Len(stack) : stack[i].indent >= indent}
           m == Min(kept)
<1>0. /\ Len(stack) \in Nat /\ Len(stack) > 0 /\ stack[1].indent = -1
      /\ \A i \in 1 .. Len(stack) : stack[i].indent \in Int
      /\ \A i, j \in 1 .. Len(stack) : i < j => stack[i].indent < stack[j].indent
  <2>1. Len(stack) \in Nat /\ \A i \in 1 .. Len(stack) : stack[i] \in Frames
    BY DEF Nested
  <2>2. \A i \in 1 .. Len(stack) : stack[i].indent \in Int
    BY <2>1 DEF Frames
  <2>3. stack[1].indent = -1
    BY DEF Nested, Root
  <2> QED
    BY <2>1, <2>2, <2>3 DEF Nested
<1>1. kept \in SUBSET Nat /\ Len(stack) \in kept
  BY <1>0
<1>2. PICK x \in kept : \A y \in kept : x <= y
  BY <1>1, SmallestLine
<1>3. m \in kept /\ \A y \in kept : m <= y
  BY <1>2 DEF Min
<1>4. Open(indent) = SubSeq(stack, 1, m)
  BY DEF Open
<1> HIDE DEF m
<1>5. stack[m].indent < indent
  <2>1. CASE m = 1
    BY <1>0, <2>1
  <2>2. CASE m # 1
    <3>1. m - 1 \in 1 .. Len(stack) /\ m - 1 \notin kept
      <4>1. m \in 1 .. Len(stack)
        BY <1>3
      <4> HIDE DEF kept
      <4>2. m - 1 \in kept => m <= m - 1
        BY <1>3
      <4> QED
        BY <1>0, <2>2, <4>1, <4>2
    <3>2. PICK i \in m .. Len(stack) : ~(stack[i].indent >= indent)
      BY <1>0, <1>3, <3>1
    <3>3. i = m
      BY <1>0, <1>3, <3>2
    <3> QED
      BY <1>0, <1>3, <3>2, <3>3
  <2> QED
    BY <2>1, <2>2
<1>6. ASSUME NEW i \in 1 .. Len(stack) PROVE i <= m <=> stack[i].indent < indent
  <2>1. CASE i < m
    BY <1>0, <1>3, <1>5, <2>1
  <2>2. CASE i = m
    BY <1>0, <1>3, <1>5, <2>2
  <2>3. CASE i > m
    BY <1>0, <1>3, <2>3
  <2> QED
    BY <1>0, <1>3, <2>1, <2>2, <2>3
<1> QED
  BY <1>0, <1>3, <1>4, <1>6

\* A line is added to the file.
Extends(l) == file \in Seq(Lines) /\ l \in Lines /\ file' = Append(file, l)

\* The lines that were there stay.
LEMMA FileGrows ==
    ASSUME NEW l, Extends(l)
    PROVE  /\ Len(file) \in Nat /\ Len(file') = Len(file) + 1 /\ file' \in Seq(Lines)
           /\ \A i \in 1 .. Len(file) : file'[i] = file[i] /\ file[i] \in Lines
           /\ file'[Len(file) + 1] = l
           /\ \A i \in 1 .. Len(file) : file[i].indent \in Nat /\ file[i].key \in Words
           /\ l.indent \in Nat /\ l.key \in Words
<1>1. /\ Len(file) \in Nat /\ Len(file') = Len(file) + 1 /\ file' \in Seq(Lines)
      /\ \A i \in 1 .. Len(file) : file'[i] = file[i] /\ file[i] \in Lines
      /\ file'[Len(file) + 1] = l /\ l \in Lines
  BY DEF Extends
<1>2. \A k \in Lines : k.indent \in Nat /\ k.key \in Words
  BY LinesAssumption DEF Words
<1> QED
  BY <1>1, <1>2

\* The sections of the lines that were there do not change.
LEMMA EnclosingKept ==
    ASSUME NEW l, Extends(l), NEW i \in 1 .. Len(file)
    PROVE  Enclosing(i)' = Enclosing(i) /\ Innermost(i)' = Innermost(i)
<1>1. Enclosing(i)' = Enclosing(i)
  <2>1. i \in Nat /\ \A j \in 1 .. i : j \in 1 .. Len(file) /\ file'[j] = file[j]
    BY FileGrows
  <2>2. ASSUME NEW j \in 1 .. i - 1 PROVE j \in Enclosing(i)' <=> j \in Enclosing(i)
    <3>1. file'[j] = file[j] /\ file'[i] = file[i] /\ \A k \in j + 1 .. i - 1 : file'[k] = file[k]
      BY <2>1
    <3> QED
      BY <3>1 DEF Enclosing
  <2>3. Enclosing(i)' \subseteq 1 .. i - 1 /\ Enclosing(i) \subseteq 1 .. i - 1
    BY DEF Enclosing
  <2> QED
    BY <2>2, <2>3
<1> QED
  BY <1>1 DEF Innermost

\* The sections of the new line are those that are open and indented less.
LEMMA EnclosingNew ==
    ASSUME NEW l, Extends(l), NEW n, n = Len(file) + 1
    PROVE  Enclosing(n)' = {j \in 1 .. Len(file) : OpenLine(j) /\ file[j].indent < l.indent}
<1>1. /\ Len(file) \in Nat /\ n - 1 = Len(file) /\ file'[n] = l
      /\ \A j \in 1 .. n - 1 : file'[j] = file[j]
  BY FileGrows
<1>2. ASSUME NEW j \in 1 .. n - 1
      PROVE  j \in Enclosing(n)' <=> OpenLine(j) /\ file[j].indent < l.indent
  <2>1. file'[j] = file[j] /\ \A k \in j + 1 .. n - 1 : file'[k] = file[k]
    BY <1>1
  <2> QED
    BY <1>1, <2>1 DEF Enclosing, OpenLine
<1>3. Enclosing(n)' \subseteq 1 .. n - 1
  BY DEF Enclosing
<1> QED
  BY <1>1, <1>2, <1>3

\* Of two open sections the later is indented more.
LEMMA OpenOrder ==
    ASSUME file \in Seq(Lines), NEW j \in 1 .. Len(file), NEW k \in 1 .. Len(file),
           OpenLine(j), OpenLine(k), file[k].indent <= file[j].indent
    PROVE  k <= j
<1>1. file[k].indent \in Nat /\ file[j].indent \in Nat
  BY LinesAssumption
<1>2. CASE j < k
  BY <1>1, <1>2 DEF OpenLine
<1> QED
  BY <1>2

\* The frame that is left on top is that of the section the new line is in.
LEMMA TopIsInnermost ==
    ASSUME Named, Nested, StackIsOpen, NEW l, Extends(l), NEW n, n = Len(file) + 1,
           NEW m \in 1 .. Len(stack),
           \A i \in 1 .. Len(stack) : i <= m <=> stack[i].indent < l.indent
    PROVE  \/ Enclosing(n)' = {} /\ stack[m].path = << >>
           \/ /\ Enclosing(n)' # {} /\ Innermost(n)' \in 1 .. Len(file)
              /\ stack[m].path = Paths[Innermost(n)']
<1> DEFINE S == {j \in 1 .. Len(file) : OpenLine(j) /\ file[j].indent < l.indent}
<1>1. Enclosing(n)' = S
  BY EnclosingNew
<1>2. Innermost(n)' = CHOOSE x \in S : \A k \in S : k <= x
  BY <1>1 DEF Innermost
<1>3. Len(stack) \in Nat /\ stack[1].path = << >>
      /\ \A i, j \in 1 .. Len(stack) : i < j => stack[i].indent < stack[j].indent
  BY DEF Nested, Root
<1>4. ASSUME NEW k \in S
      PROVE  \E i \in 2 .. Len(stack) : i <= m /\ stack[i].indent = file[k].indent
  <2>1. PICK i \in 2 .. Len(stack) : stack[i] = FrameOf(k)
    BY DEF StackIsOpen
  <2>2. stack[i].indent = file[k].indent
    BY <2>1 DEF FrameOf
  <2>3. i \in 1 .. Len(stack)
    OBVIOUS
  <2> QED
    BY <2>2, <2>3
<1>5. CASE m = 1
  <2>1. S = {}
    BY <1>3, <1>4, <1>5
  <2> QED
    BY <1>1, <1>3, <1>5, <2>1
<1>6. CASE m # 1
  <2>1. m \in 2 .. Len(stack)
    BY <1>3, <1>6
  <2>2. PICK j \in 1 .. Len(file) : OpenLine(j) /\ stack[m] = FrameOf(j)
    BY <2>1 DEF StackIsOpen
  <2>3. stack[m].indent = file[j].indent /\ stack[m].path = Paths[j]
    BY <2>2 DEF FrameOf
  <2>4. stack[m].indent < l.indent
    OBVIOUS
  <2>5. j \in S
    BY <2>2, <2>3, <2>4
  <2>6. ASSUME NEW k \in S PROVE k <= j
    <3>1. PICK i \in 2 .. Len(stack) : i <= m /\ stack[i].indent = file[k].indent
      BY <1>4
    <3>2. i \in 1 .. Len(stack) /\ m \in 1 .. Len(stack) /\ (i = m \/ i < m)
      BY <1>3, <3>1
    <3>3. file[k].indent \in Nat /\ file[j].indent \in Nat
      BY FileGrows
    <3>4. file[k].indent <= file[j].indent
      BY <1>3, <2>3, <3>1, <3>2, <3>3
    <3> QED
      BY <2>2, <3>4, OpenOrder DEF Named
  <2>7. S \in SUBSET Nat
    OBVIOUS
  <2> HIDE DEF S
  <2>8. Innermost(n)' = j
    BY <1>2, <2>5, <2>6, <2>7, LargestIs
  <2> QED
    BY <1>1, <2>2, <2>3, <2>5, <2>8
<1> QED
  BY <1>5, <1>6

\* A new line leaves the paths of the others as they are and is put below the
\* section on top of the stack.
LEMMA PathsGrow ==
    ASSUME Named, Nested, StackIsOpen, NEW l, Extends(l), NEW n, n = Len(file) + 1,
           NEW m \in 1 .. Len(stack),
           \A i \in 1 .. Len(stack) : i <= m <=> stack[i].indent < l.indent
    PROVE  /\ Named'
           /\ \A i \in 1 .. Len(file) : Paths'[i] = Paths[i]
           /\ Paths'[n] = Append(stack[m].path, l.key)
<1> DEFINE p == Append(stack[m].path, l.key)
<1>1. /\ Len(file) \in Nat /\ Len(file') = n /\ n \in Nat /\ n \notin 1 .. Len(file)
      /\ file' \in Seq(Lines) /\ file'[n] = l /\ l.key \in Words
      /\ \A i \in 1 .. Len(file) : file'[i] = file[i]
      /\ \A i \in 1 .. n : i # n => i \in 1 .. Len(file)
  BY FileGrows
<1>2. stack[m].path \in Seq(Words)
  <2>1. stack[m] \in Frames
    BY DEF Nested
  <2> QED
    BY <2>1 DEF Frames
<1>3. p \in Seq(Words) /\ Len(p) > 0
  BY <1>1, <1>2
<1> HIDE DEF p
\* The recursion holds for the new line, whatever function agrees on the others.
<1>4. ASSUME NEW f, \A i \in 1 .. Len(file) : f[i] = Paths[i]
      PROVE  PathOf(f, n)' = p
  <2>1. CASE Enclosing(n)' = {} /\ stack[m].path = << >>
    <3>1. PathOf(f, n)' = <<l.key>>
      BY <1>1, <2>1 DEF PathOf
    <3> QED
      BY <2>1, <3>1 DEF p
  <2>2. CASE /\ Enclosing(n)' # {} /\ Innermost(n)' \in 1 .. Len(file)
             /\ stack[m].path = Paths[Innermost(n)']
    <3>1. PathOf(f, n)' = Append(f[Innermost(n)'], l.key)
      BY <1>1, <2>2 DEF PathOf
    <3> QED
      BY <1>4, <2>2, <3>1 DEF p
  <2> QED
    BY <2>1, <2>2, TopIsInnermost
\* It holds for the others, if it did before.
<1>5. ASSUME NEW f, NEW i \in 1 .. Len(file), \A j \in 1 .. i - 1 : f[j] = Paths[j]
      PROVE  PathOf(f, i)' = Paths[i]
  <2>1. Enclosing(i)' = Enclosing(i) /\ Innermost(i)' = Innermost(i) /\ file'[i] = file[i]
    BY <1>1, EnclosingKept
  <2>2. Paths[i] = PathOf(Paths, i)
    BY DEF Named, IsPaths
  <2>3. CASE Enclosing(i) = {}
    BY <2>1, <2>2, <2>3 DEF PathOf
  <2>4. CASE Enclosing(i) # {}
    <3>1. Innermost(i) \in 1 .. i - 1
      BY <1>1, <2>4, InnermostBefore
    <3>2. f[Innermost(i)] = Paths[Innermost(i)]
      BY <1>5, <3>1
    <3> QED
      BY <2>1, <2>2, <2>4, <3>2 DEF PathOf
  <2> QED
    BY <2>3, <2>4
<1>6. PICK h : h = [i \in 1 .. n |-> IF i = n THEN p ELSE Paths[i]]
  OBVIOUS
<1>7. IsPaths(h)'
  <2>1. \A i \in 1 .. Len(file) : h[i] = Paths[i]
    BY <1>1, <1>6
  <2>2. ASSUME NEW i \in 1 .. n PROVE h[i] = PathOf(h, i)'
    <3>1. CASE i = n
      <4>1. PathOf(h, n)' = p
        BY <1>4, <2>1
      <4>2. h[n] = p
        BY <1>1, <1>6
      <4> QED
        BY <3>1, <4>1, <4>2
    <3>2. CASE i # n
      <4>1. i \in 1 .. Len(file) /\ \A j \in 1 .. i - 1 : j \in 1 .. Len(file)
        BY <1>1, <3>2
      <4>2. \A j \in 1 .. i - 1 : h[j] = Paths[j]
        BY <2>1, <4>1
      <4>3. PathOf(h, i)' = Paths[i]
        BY <1>5, <4>1, <4>2
      <4> QED
        BY <2>1, <4>1, <4>3
    <3> QED
      BY <3>1, <3>2
  <2>3. h = [i \in 1 .. n |-> h[i]]
    BY <1>6
  <2>4. h = [i \in 1 .. n |-> PathOf(h, i)']
    BY <2>2, <2>3
  <2> QED
    BY <1>1, <2>4 DEF IsPaths
<1>8. IsPaths(Paths)'
  <2>1. Paths' = CHOOSE f : IsPaths(f)'
    BY DEF Paths, IsPaths, PathOf, Innermost
  <2> QED
    BY <1>7, <2>1
<1>9. PICK g : g = Paths'
  OBVIOUS
<1>10. \A i \in 1 .. n : g[i] = PathOf(g, i)'
  <2>1. IsPaths(g)'
    BY <1>8, <1>9
  <2> QED
    BY <1>1, <2>1 DEF IsPaths
<1>11. \A i \in 1 .. Len(file) : g[i] = Paths[i]
  <2> DEFINE S == {i \in 1 .. Len(file) : g[i] # Paths[i]}
  <2>1. ASSUME S # {} PROVE FALSE
    <3>0. S \in SUBSET Nat
      BY <1>1
    <3>1. PICK x \in S : \A y \in S : x <= y
      <4> HIDE DEF S
      <4> QED
        BY <2>1, <3>0, SmallestLine
    <3>2. x \in 1 .. Len(file) /\ x \in 1 .. n
      BY <1>1
    <3>3. ASSUME NEW j \in 1 .. x - 1 PROVE g[j] = Paths[j]
      <4>1. j \in 1 .. Len(file) /\ ~(x <= j)
        BY <1>1, <3>2
      <4> QED
        BY <3>1, <4>1
    <3>4. g[x] = Paths[x]
      BY <1>5, <1>10, <3>2, <3>3
    <3> QED
      BY <3>4
  <2> QED
    BY <2>1
<1>12. g[n] = p
  BY <1>1, <1>4, <1>10, <1>11
<1>13. \A i \in 1 .. Len(file)' : Paths'[i] \in Seq(Words) /\ Len(Paths'[i]) > 0
  BY <1>1, <1>3, <1>9, <1>11, <1>12 DEF Named
<1> QED
  BY <1>1, <1>8, <1>9, <1>11, <1>12, <1>13 DEF Named, p

\* What a turn of parseTree's loop does, where m frames are left on the stack.
Turn(l, m, p) ==
    /\ Extends(l)
    /\ m \in 1 .. Len(stack)
    /\ \A i \in 1 .. Len(stack) : i <= m <=> stack[i].indent < l.indent
    /\ p = Append(stack[m].path, l.key)
    /\ tree' = Assign(p, l.text)
    /\ stack' = IF l.text = Section
                THEN Append(SubSeq(stack, 1, m), [indent |-> l.indent, path |-> p])
                ELSE SubSeq(stack, 1, m)

\* ReadLine is such a turn.
LEMMA ReadTurns ==
    ASSUME Named, Nested, NEW l \in Lines, ReadLine(l)
    PROVE  \E m, p : Turn(l, m, p)
<1>1. l.indent \in Nat
  BY LinesAssumption
<1>2. PICK m \in 1 .. Len(stack) :
        /\ Open(l.indent) = SubSeq(stack, 1, m)
        /\ \A i \in 1 .. Len(stack) : i <= m <=> stack[i].indent < l.indent
  BY <1>1, OpenFrames
<1>3. Last(Open(l.indent)) = stack[m]
  BY <1>2 DEF Last, Nested
<1>4. Turn(l, m, Append(stack[m].path, l.key))
  BY <1>2, <1>3 DEF ReadLine, Turn, Extends, Named
<1> QED
  BY <1>4

\* The path of the line is one level below the frames that are left.
LEMMA TurnPath ==
    ASSUME Named, Nested, NEW l, NEW m, NEW p, Turn(l, m, p)
    PROVE  /\ m \in Nat /\ p \in Seq(Words) /\ Len(p) = m
           /\ SubSeq(p, 1, m - 1) = stack[m].path
<1>1. m \in Nat /\ m > 0 /\ stack[m] \in Frames /\ Len(stack[m].path) = m - 1
  BY DEF Nested, Turn
<1>2. stack[m].path \in Seq(Words) /\ l.key \in Words
  BY <1>1, FileGrows DEF Frames, Turn
<1>3. p = Append(stack[m].path, l.key)
  BY DEF Turn
<1> QED
  BY <1>1, <1>2, <1>3

\* The frames after the turn.
LEMMA TurnFrames ==
    ASSUME Named, Nested, NEW l, NEW m, NEW p, Turn(l, m, p)
    PROVE  /\ \A i \in 1 .. m : stack'[i] = stack[i]
           /\ l.text # Section => Len(stack') = m
           /\ l.text = Section => /\ Len(stack') = m + 1
                                  /\ stack'[m + 1] = [indent |-> l.indent, path |-> p]
           /\ stack' \in Seq(Frames)
<1> DEFINE top == [indent |-> l.indent, path |-> p]
           left == SubSeq(stack, 1, m)
<1>1. m \in Nat /\ m \in 1 .. Len(stack) /\ stack \in Seq(Frames)
  BY TurnPath DEF Nested, Turn
<1>2. left \in Seq(Frames) /\ Len(left) = m /\ \A i \in 1 .. m : left[i] = stack[i]
  BY <1>1
<1>3. top \in Frames
  <2>1. p \in Seq(Words)
    BY TurnPath
  <2>2. l.indent \in Nat
    BY FileGrows DEF Turn
  <2> QED
    BY <2>1, <2>2 DEF Frames
<1>4. stack' = IF l.text = Section THEN Append(left, top) ELSE left
  BY DEF Turn
<1> HIDE DEF top, left
<1>5. /\ Append(left, top) \in Seq(Frames) /\ Len(Append(left, top)) = m + 1
      /\ Append(left, top)[m + 1] = top
      /\ \A i \in 1 .. m : Append(left, top)[i] = left[i]
  BY <1>1, <1>2, <1>3
<1> QED
  BY <1>2, <1>4, <1>5 DEF top

\* The stack stays nested.
LEMMA TurnNested ==
    ASSUME Named, Nested, NEW l, NEW m, NEW p, Turn(l, m, p)
    PROVE  Nested'
<1>1. /\ \A i \in 1 .. m : stack'[i] = stack[i]
      /\ l.text # Section => Len(stack') = m
      /\ l.text = Section => /\ Len(stack') = m + 1
                             /\ stack'[m + 1] = [indent |-> l.indent, path |-> p]
      /\ stack' \in Seq(Frames)
  BY TurnFrames
<1>2. m \in Nat /\ m > 0 /\ m \in 1 .. Len(stack) /\ Len(p) = m /\ Len(stack) \in Nat
      /\ \A i \in 1 .. m : i \in 1 .. Len(stack) /\ stack[i].indent < l.indent
  <2>1. m \in Nat /\ Len(p) = m
    BY TurnPath
  <2>2. m \in 1 .. Len(stack) /\ Len(stack) \in Nat
        /\ \A i \in 1 .. Len(stack) : i <= m <=> stack[i].indent < l.indent
    BY DEF Nested, Turn
  <2> QED
    BY <2>1, <2>2
<1>3. Len(stack') > 0 /\ stack'[1] = Root
  BY <1>1, <1>2 DEF Nested
<1>4. ASSUME NEW i \in 1 .. Len(stack') PROVE Len(stack'[i].path) = i - 1
  <2>1. CASE i \in 1 .. m
    BY <1>1, <1>2, <2>1 DEF Nested
  <2>2. CASE i \notin 1 .. m
    <3>1. l.text = Section /\ i = m + 1
      BY <1>1, <1>2, <2>2
    <3> QED
      BY <1>1, <1>2, <3>1
  <2> QED
    BY <2>1, <2>2
<1>5. ASSUME NEW i \in 1 .. Len(stack'), NEW j \in 1 .. Len(stack'), i < j
      PROVE  stack'[i].indent < stack'[j].indent
  <2>1. CASE j \in 1 .. m
    <3>1. i \in 1 .. m
      BY <1>1, <1>2, <1>5, <2>1
    <3> QED
      BY <1>1, <1>2, <1>5, <2>1, <3>1 DEF Nested
  <2>2. CASE j \notin 1 .. m
    <3>1. l.text = Section /\ j = m + 1 /\ i \in 1 .. m
      BY <1>1, <1>2, <1>5, <2>2
    <3> QED
      BY <1>1, <1>2, <3>1
  <2> QED
    BY <2>1, <2>2
<1> QED
  BY <1>1, <1>3, <1>4, <1>5 DEF Nested

\* The stack keeps to the open sections.
LEMMA TurnOpen ==
    ASSUME Named, Nested, StackIsOpen, NEW l, NEW m, NEW p, Turn(l, m, p)
    PROVE  StackIsOpen'
<1>0. PICK n : n = Len(file) + 1
  OBVIOUS
<1>1. Extends(l) /\ m \in 1 .. Len(stack) /\ p = Append(stack[m].path, l.key)
      /\ \A i \in 1 .. Len(stack) : i <= m <=> stack[i].indent < l.indent
  BY DEF Turn
<1>2. /\ \A i \in 1 .. Len(file) : Paths'[i] = Paths[i]
      /\ Paths'[n] = p
  BY <1>0, <1>1, PathsGrow
<1>3. /\ \A i \in 1 .. m : stack'[i] = stack[i]
      /\ l.text # Section => Len(stack') = m
      /\ l.text = Section => /\ Len(stack') = m + 1
                             /\ stack'[m + 1] = [indent |-> l.indent, path |-> p]
  BY TurnFrames
<1>4. /\ Len(file) \in Nat /\ Len(file') = n /\ n \notin 1 .. Len(file)
      /\ file'[n] = l /\ \A i \in 1 .. Len(file) : file'[i] = file[i]
      /\ 1 .. n = 1 .. Len(file) \cup {n}
  BY <1>0, <1>1, FileGrows
<1>5. m \in Nat /\ m > 0 /\ Len(stack) \in Nat
  BY TurnPath, <1>1 DEF Nested
<1>6. ASSUME NEW j \in 1 .. Len(file)
      PROVE  /\ OpenLine(j)' <=> OpenLine(j) /\ file[j].indent < l.indent
             /\ FrameOf(j)' = FrameOf(j)
  <2>1. file'[j] = file[j] /\ Paths'[j] = Paths[j]
        /\ \A k \in j + 1 .. Len(file) : file'[k] = file[k]
    BY <1>2, <1>4
  <2>2. j + 1 .. n = (j + 1 .. Len(file)) \cup {n}
    BY <1>0, <1>4
  <2> QED
    BY <1>4, <2>1, <2>2 DEF OpenLine, FrameOf
<1>7. (OpenLine(n)' <=> l.text = Section) /\ FrameOf(n)' = [indent |-> l.indent, path |-> p]
  <2>1. n + 1 .. n = {}
    BY <1>0, <1>4
  <2> QED
    BY <1>2, <1>4, <2>1 DEF OpenLine, FrameOf
<1>8. ASSUME NEW i \in 2 .. Len(stack')
      PROVE  \E j \in 1 .. n : OpenLine(j)' /\ stack'[i] = FrameOf(j)'
  <2>1. CASE i <= m
    <3>1. i \in 2 .. Len(stack) /\ stack'[i] = stack[i] /\ stack[i].indent < l.indent
      BY <1>1, <1>3, <1>5, <2>1
    <3>2. PICK j \in 1 .. Len(file) : OpenLine(j) /\ stack[i] = FrameOf(j)
      BY <3>1 DEF StackIsOpen
    <3>3. file[j].indent = stack[i].indent
      BY <3>2 DEF FrameOf
    <3> QED
      BY <1>4, <1>6, <3>1, <3>2, <3>3
  <2>2. CASE ~(i <= m)
    <3>1. l.text = Section /\ i = m + 1
      BY <1>3, <1>5, <2>2
    <3> QED
      BY <1>3, <1>4, <1>7, <3>1
  <2> QED
    BY <2>1, <2>2
<1>9. ASSUME NEW j \in 1 .. n, OpenLine(j)'
      PROVE  \E i \in 2 .. Len(stack') : stack'[i] = FrameOf(j)'
  <2>1. CASE j = n
    <3>1. l.text = Section /\ m + 1 \in 2 .. Len(stack')
      BY <1>3, <1>5, <1>7, <1>9, <2>1
    <3> QED
      BY <1>3, <1>7, <2>1, <3>1
  <2>2. CASE j # n
    <3>1. j \in 1 .. Len(file) /\ OpenLine(j) /\ file[j].indent < l.indent
      BY <1>4, <1>6, <1>9, <2>2
    <3>2. PICK i \in 2 .. Len(stack) : stack[i] = FrameOf(j)
      BY <3>1 DEF StackIsOpen
    <3>3. file[j].indent = stack[i].indent
      BY <3>2 DEF FrameOf
    <3>4. i \in 1 .. Len(stack)
      BY <1>5
    <3>5. i <= m
      BY <1>1, <3>1, <3>3, <3>4
    <3>6. i \in 2 .. Len(stack') /\ stack'[i] = stack[i]
      BY <1>3, <1>5, <3>5
    <3> QED
      BY <1>6, <3>1, <3>2, <3>6
  <2> QED
    BY <2>1, <2>2
<1> QED
  BY <1>4, <1>8, <1>9 DEF StackIsOpen

\* What Assign does to the tree.
LEMMA AssignTree ==
    ASSUME NEW p, NEW text, tree' = Assign(p, text)
    PROVE  /\ DOMAIN tree' = {q \in DOMAIN tree : ~IsPrefix(p, q)} \cup {p}
           /\ tree'[p] = text
           /\ \A q \in DOMAIN tree' : q # p => tree'[q] = tree[q]
BY DEF Assign

\* A path is below another only if it is no shorter, and then its section is, too,
\* unless the two are equal.
LEMMA BelowSection ==
    ASSUME NEW p \in Seq(Words), NEW q \in Seq(Words), Len(q) > 0,
           IsPrefix(p, SubSeq(q, 1, Len(q) - 1))
    PROVE  IsPrefix(p, q)
<1> DEFINE s == SubSeq(q, 1, Len(q) - 1)
<1>1. s \in Seq(Words) /\ Len(s) = Len(q) - 1 /\ \A i \in 1 .. Len(s) : s[i] = q[i]
  <2>1. PICK k \in Nat : k = Len(q) - 1 /\ \A i \in 1 .. k : q[i] \in Words
    OBVIOUS
  <2>2. /\ SubSeq(q, 1, k) \in Seq(Words)
        /\ Len(SubSeq(q, 1, k)) = IF 1 <= k THEN k - 1 + 1 ELSE 0
        /\ \A i \in 1 .. k - 1 + 1 : SubSeq(q, 1, k)[i] = q[1 + i - 1]
    BY <2>1, SubSeqProperties
  <2>3. /\ s \in Seq(Words)
        /\ Len(s) = IF 1 <= k THEN k - 1 + 1 ELSE 0
        /\ \A i \in 1 .. k - 1 + 1 : s[i] = q[1 + i - 1]
    BY <2>1, <2>2
  <2> HIDE DEF s
  <2>4. Len(s) = k /\ \A i \in 1 .. k : s[i] = q[i]
    BY <2>3
  <2> QED
    BY <2>1, <2>3, <2>4
<1> HIDE DEF s
<1>2. Len(p) <= Len(s) /\ SubSeq(p, 1, Len(p)) = SubSeq(s, 1, Len(p))
  BY DEF IsPrefix, s
<1>3. SubSeq(s, 1, Len(p)) = SubSeq(q, 1, Len(p))
  BY <1>1, <1>2
<1> QED
  BY <1>1, <1>2, <1>3 DEF IsPrefix

\* A path is below itself.
LEMMA BelowItself ==
    ASSUME NEW p \in Seq(Words)
    PROVE  IsPrefix(p, p)
BY DEF IsPrefix

\* The frames that are left are not below the path that is assigned.
LEMMA TurnKeepsFrames ==
    ASSUME Named, Nested, Attached, NEW l, NEW m, NEW p, Turn(l, m, p), NEW i \in 2 .. m
    PROVE  IsSection(stack[i].path)'
<1>1. m \in Nat /\ Len(p) = m /\ m \in 1 .. Len(stack) /\ Len(stack) \in Nat
  BY TurnPath DEF Turn, Nested
<1>2. i \in 1 .. Len(stack) /\ i \in 2 .. Len(stack)
  BY <1>1
<1>3. Len(stack[i].path) = i - 1
  BY <1>2 DEF Nested
<1>4. Len(stack[i].path) < Len(p)
  BY <1>1, <1>3
<1>5. ~IsPrefix(p, stack[i].path) /\ stack[i].path # p
  BY <1>1, <1>3, <1>4 DEF IsPrefix
<1>6. IsSection(stack[i].path)
  BY <1>2 DEF Attached
<1>7. stack'[i] = stack[i]
  <2>1. i \in 1 .. m
    BY <1>1
  <2> QED
    BY <2>1, TurnFrames
<1>8. tree' = Assign(p, l.text)
  BY DEF Turn
<1>9. stack[i].path \in DOMAIN tree' /\ tree'[stack[i].path] = tree[stack[i].path]
  <2> DEFINE q == stack[i].path
  <2>1. q \in DOMAIN tree
    BY <1>6 DEF IsSection
  <2>2. ~IsPrefix(p, q) /\ q # p
    BY <1>5
  <2> HIDE DEF q
  <2>3. q \in DOMAIN tree'
    BY <1>8, <2>1, <2>2, AssignTree
  <2>4. tree'[q] = tree[q]
    BY <1>8, <2>2, <2>3, AssignTree
  <2> QED
    BY <2>3, <2>4 DEF q
<1> QED
  BY <1>6, <1>7, <1>9 DEF IsSection

\* A frame that is on the stack after the turn is in the tree.
LEMMA TurnAttached ==
    ASSUME Named, Nested, Attached, NEW l, NEW m, NEW p, Turn(l, m, p)
    PROVE  Attached'
<1>1. ASSUME NEW i \in 2 .. Len(stack') PROVE IsSection(stack[i].path)'
  <2>1. m \in Nat
    BY TurnPath
  <2>2. CASE i <= m
    BY <2>1, <2>2, TurnKeepsFrames
  <2>3. CASE ~(i <= m)
    <3>1. l.text = Section /\ i = m + 1 /\ stack'[m + 1] = [indent |-> l.indent, path |-> p]
      BY <2>1, <2>3, TurnFrames
    <3>2. tree'[p] = l.text /\ p \in DOMAIN tree'
      BY AssignTree DEF Turn
    <3> QED
      BY <3>1, <3>2 DEF IsSection
  <2> QED
    BY <2>2, <2>3
<1> QED
  BY <1>1 DEF Attached

\* Every node after the turn is in a section.
LEMMA TurnRooted ==
    ASSUME Named, Nested, Attached, Rooted, NEW l, NEW m, NEW p, Turn(l, m, p)
    PROVE  Rooted'
<1>1. /\ DOMAIN tree' = {q \in DOMAIN tree : ~IsPrefix(p, q)} \cup {p}
      /\ \A q \in DOMAIN tree' : q # p => tree'[q] = tree[q]
  <2>1. tree' = Assign(p, l.text)
    BY DEF Turn
  <2> QED
    BY <2>1, AssignTree
<1>2. m \in Nat /\ p \in Seq(Words) /\ Len(p) = m /\ SubSeq(p, 1, m - 1) = stack[m].path
      /\ m \in 1 .. Len(stack)
  BY TurnPath DEF Turn
<1> SUFFICES ASSUME NEW q \in DOMAIN tree'
             PROVE  /\ q \in Seq(Words) /\ Len(q) > 0
                    /\ Len(q) > 1 => IsSection(SubSeq(q, 1, Len(q) - 1))'
  BY DEF Rooted
<1>4. CASE q = p
  <2>1. Len(p) > 0
    BY <1>2
  <2>2. ASSUME m > 1 PROVE IsSection(SubSeq(p, 1, m - 1))'
    <3>1. m \in 2 .. m /\ m \in 1 .. m
      BY <1>2, <2>2
    <3>2. IsSection(stack[m].path)' /\ stack'[m] = stack[m]
      BY <3>1, TurnKeepsFrames, TurnFrames
    <3> QED
      BY <1>2, <3>2 DEF IsSection
  <2> QED
    BY <1>2, <1>4, <2>1, <2>2
<1>5. CASE q # p
  <2>1. q \in DOMAIN tree /\ ~IsPrefix(p, q) /\ q \in Seq(Words) /\ Len(q) > 0
    BY <1>1, <1>5 DEF Rooted
  <2>2. PICK s : s = SubSeq(q, 1, Len(q) - 1)
    OBVIOUS
  <2>3. ASSUME Len(q) > 1 PROVE IsSection(s)'
    <3>1. IsSection(s)
      BY <2>1, <2>2, <2>3 DEF Rooted
    <3>2. ~IsPrefix(p, s)
      BY <1>2, <2>1, <2>2, BelowSection
    <3>3. s # p
      BY <1>2, <3>2, BelowItself
    <3>4. s \in DOMAIN tree' /\ tree'[s] = tree[s]
      BY <1>1, <3>1, <3>2, <3>3 DEF IsSection
    <3> QED
      BY <3>1, <3>4 DEF IsSection
  <2> QED
    BY <2>1, <2>2, <2>3
<1> QED
  BY <1>4, <1>5

\* The standing lines after the turn.
LEMMA StandingGrows ==
    ASSUME Named, Named', NEW l, Extends(l), NEW n, n = Len(file) + 1, NEW p,
           \A i \in 1 .. Len(file) : Paths'[i] = Paths[i], Paths'[n] = p
    PROVE  Standing' = {i \in Standing : ~IsPrefix(p, Paths[i])} \cup {n}
<1>1. /\ Len(file) \in Nat /\ Len(file') = n /\ n \notin 1 .. Len(file)
      /\ DOMAIN file = 1 .. Len(file) /\ DOMAIN file' = 1 .. n
      /\ 1 .. n = 1 .. Len(file) \cup {n} /\ n + 1 .. n = {}
  BY FileGrows DEF Named
<1>2. Standing' = {i \in 1 .. n : \A j \in i + 1 .. n : ~IsPrefix(Paths'[j], Paths'[i])}
  BY <1>1 DEF Standing
<1>3. Standing = {i \in 1 .. Len(file) :
                    \A j \in i + 1 .. Len(file) : ~IsPrefix(Paths[j], Paths[i])}
  BY <1>1 DEF Standing
<1>4. ASSUME NEW i \in 1 .. Len(file)
      PROVE  i \in Standing' <=> i \in Standing /\ ~IsPrefix(p, Paths[i])
  <2>1. /\ i + 1 .. n = (i + 1 .. Len(file)) \cup {n} /\ i \in 1 .. n
        /\ \A j \in i + 1 .. Len(file) : j \in 1 .. Len(file)
    BY <1>1
  <2>2. Paths'[i] = Paths[i] /\ Paths'[n] = p /\ \A j \in i + 1 .. Len(file) : Paths'[j] = Paths[j]
    BY <2>1
  <2>3. i \in Standing' <=> \A j \in i + 1 .. n : ~IsPrefix(Paths'[j], Paths'[i])
    BY <1>2, <2>1
  <2>4. i \in Standing <=> \A j \in i + 1 .. Len(file) : ~IsPrefix(Paths[j], Paths[i])
    BY <1>3
  <2> QED
    BY <2>1, <2>2, <2>3, <2>4, ZenonT(30)
<1>5. n \in Standing'
  BY <1>1, <1>2
<1>6. Standing' \subseteq 1 .. n /\ Standing \subseteq 1 .. Len(file)
  BY <1>2, <1>3
<1> QED
  BY <1>1, <1>4, <1>5, <1>6

\* The tree after the turn is that of the standing lines.
LEMMA TurnStands ==
    ASSUME Named, Nested, StackIsOpen, TreeStands, NEW l, NEW m, NEW p, Turn(l, m, p)
    PROVE  Named' /\ TreeStands'
<1>0. PICK n : n = Len(file) + 1
  OBVIOUS
<1>1. Extends(l) /\ m \in 1 .. Len(stack) /\ p = Append(stack[m].path, l.key)
      /\ \A i \in 1 .. Len(stack) : i <= m <=> stack[i].indent < l.indent
  BY DEF Turn
<1>2. Named' /\ (\A i \in 1 .. Len(file) : Paths'[i] = Paths[i]) /\ Paths'[n] = p
  BY <1>0, <1>1, PathsGrow
<1>3. Standing' = {i \in Standing : ~IsPrefix(p, Paths[i])} \cup {n}
  BY <1>0, <1>1, <1>2, StandingGrows
<1>4. \A i \in Standing : i \in 1 .. Len(file)
  BY DEF Standing, Named
<1>5. /\ DOMAIN tree' = {q \in DOMAIN tree : ~IsPrefix(p, q)} \cup {p}
      /\ tree'[p] = l.text
      /\ \A q \in DOMAIN tree' : q # p => tree'[q] = tree[q]
  <2>1. tree' = Assign(p, l.text)
    BY DEF Turn
  <2> QED
    BY <2>1, AssignTree
<1>6. file'[n] = l /\ \A i \in 1 .. Len(file) : file'[i] = file[i]
  BY <1>0, <1>1, FileGrows
<1>7. IsPrefix(p, p)
  BY TurnPath, BelowItself
<1>8. DOMAIN tree' = {Paths'[i] : i \in Standing'}
  <2>1. DOMAIN tree = {Paths[i] : i \in Standing}
    BY DEF TreeStands
  <2>2. ASSUME NEW q \in DOMAIN tree' PROVE q \in {Paths'[i] : i \in Standing'}
    <3>1. CASE q = p
      BY <1>2, <1>3, <3>1
    <3>2. CASE q # p
      <4>1. PICK i \in Standing : q = Paths[i] /\ ~IsPrefix(p, q)
        BY <1>5, <2>1, <3>2
      <4> QED
        BY <1>2, <1>3, <1>4, <4>1
    <3> QED
      BY <3>1, <3>2
  <2>3. ASSUME NEW i \in Standing' PROVE Paths'[i] \in DOMAIN tree'
    <3>1. CASE i = n
      BY <1>2, <1>5, <3>1
    <3>2. CASE i # n
      BY <1>2, <1>3, <1>4, <1>5, <2>1, <3>2
    <3> QED
      BY <3>1, <3>2
  <2> QED
    BY <2>2, <2>3
<1>9. ASSUME NEW i \in Standing' PROVE tree'[Paths'[i]] = file'[i].text
  <2>1. CASE i = n
    BY <1>2, <1>5, <1>6, <2>1
  <2>2. CASE i # n
    <3>1. i \in Standing /\ ~IsPrefix(p, Paths[i]) /\ Paths'[i] = Paths[i] /\ file'[i] = file[i]
      BY <1>2, <1>3, <1>4, <1>6, <2>2
    <3>2. Paths[i] # p /\ Paths[i] \in DOMAIN tree'
      BY <1>7, <1>8, <3>1
    <3>3. tree[Paths[i]] = file[i].text
      BY <3>1 DEF TreeStands
    <3> QED
      BY <1>5, <3>1, <3>2, <3>3
  <2> QED
    BY <2>1, <2>2
<1> QED
  BY <1>2, <1>8, <1>9 DEF TreeStands

\* A line read keeps all this.
LEMMA ReadKeeps ==
    ASSUME Parsed, NEW l \in Lines, ReadLine(l)
    PROVE  Parsed'
<1>1. PICK m, p : Turn(l, m, p)
  BY ReadTurns DEF Parsed
<1> QED
  BY <1>1, TurnNested, TurnOpen, TurnAttached, TurnRooted, TurnStands DEF Parsed

\* What main has loaded and validated is what the tree says.
Loaded == boot = "configured" => cfg = Load /\ Validate(Load)
ConfigInv == (boot \in {"reading", "configured"} => Parsed) /\ Loaded

\* An empty file.
LEMMA ConfigInvInit == ConfigInit => ConfigInv
<1> SUFFICES ASSUME ConfigInit PROVE ConfigInv
  OBVIOUS
<1>1. file = << >> /\ stack = <<Root>> /\ tree = << >> /\ boot = "reading"
  BY DEF ConfigInit
<1>2. Len(file) = 0 /\ file \in Seq(Lines) /\ 1 .. Len(file) = {} /\ DOMAIN file = {}
  BY <1>1
<1>3. IsPaths([i \in {} |-> i])
  BY <1>2 DEF IsPaths
<1>4. Named
  BY <1>2, <1>3, PathsExist DEF Named
<1>5. Len(stack) = 1 /\ stack[1] = Root /\ 2 .. Len(stack) = {} /\ 1 .. Len(stack) = {1}
  BY <1>1
<1>6. Root \in Frames /\ Len(Root.path) = 0
  BY DEF Root, Frames
<1>7. stack \in Seq(Frames)
  BY <1>1, <1>6
<1>8. Nested
  BY <1>5, <1>6, <1>7 DEF Nested
<1>9. StackIsOpen /\ Attached
  BY <1>2, <1>5 DEF StackIsOpen, Attached
<1>10. DOMAIN tree = {}
  BY <1>1
<1>11. Standing = {}
  BY <1>2 DEF Standing
<1>12. Rooted /\ TreeStands
  BY <1>10, <1>11 DEF Rooted, TreeStands
<1> QED
  BY <1>1, <1>4, <1>8, <1>9, <1>12 DEF ConfigInv, Parsed, Loaded

\* What is about the lines read depends on the parser's variables only.
LEMMA ParsedStays ==
    ASSUME UNCHANGED <<file, stack, tree>>
    PROVE  Parsed' = Parsed /\ Load' = Load /\ Validate(Load)' = Validate(Load)
<1>1. Paths' = Paths /\ Standing' = Standing
  BY DEF Paths, Standing, Enclosing
<1>2. Parsed' = Parsed
  BY <1>1 DEF Parsed, Named, IsPaths, PathOf, Innermost, Enclosing, Nested, StackIsOpen,
     OpenLine, FrameOf, Attached, Rooted, IsSection, TreeStands
<1>3. Load' = Load
  BY DEF Load, ParseBucketDefaults, Get, IsSection
<1>4. Validate(Load)' = Validate(Load)
  BY <1>3 DEF Validate
<1> QED
  BY <1>2, <1>3, <1>4

\* Every step of main keeps the invariant.
LEMMA ConfigInvStep == ConfigInv /\ [Next]_vars => ConfigInv'
<1> SUFFICES ASSUME ConfigInv, [Next]_vars PROVE ConfigInv'
  OBVIOUS
<1>1. CASE UNCHANGED configVars
  BY <1>1, ParsedStays DEF configVars, ConfigInv, Loaded
<1>2. ASSUME NEW l \in Lines, ReadLine(l) PROVE ConfigInv'
  <2>1. boot = "reading" /\ boot' = boot
    BY <1>2 DEF ReadLine
  <2>2. Parsed'
    BY <1>2, <2>1, ReadKeeps DEF ConfigInv
  <2> QED
    BY <2>1, <2>2 DEF ConfigInv, Loaded
<1>3. CASE ReadError
  BY <1>3 DEF ReadError, ConfigInv, Loaded
<1>4. CASE Configure
  <2>1. UNCHANGED <<file, stack, tree>> /\ Parsed
    BY <1>4 DEF Configure, ConfigInv
  <2>2. Parsed' /\ Load' = Load /\ Validate(Load)' = Validate(Load)
    BY <2>1, ParsedStays
  <2>3. boot' = "configured" => cfg' = Load /\ Validate(Load)
    BY <1>4 DEF Configure
  <2> QED
    BY <2>2, <2>3 DEF ConfigInv, Loaded
<1>5. CASE Launch
  BY <1>5 DEF Launch, ConfigInv, Loaded
<1> QED
  BY <1>1, <1>2, <1>3, <1>4, <1>5 DEF Next, ConfigNext, vars

\* parseTree: for every file, of any length and with any indentations, the stack of
\* sections puts each line below the section it is in by its indentation, and the
\* tree holds exactly the lines that no later one overwrites.
THEOREM ParsedTheorem == Spec => []ParsedAsWritten
<1>1. Init => ConfigInv
  BY ConfigInvInit DEF Init
<1>2. ConfigInv => ParsedAsWritten
  BY DEF ConfigInv, Parsed, TreeStands, ParsedAsWritten
<1> QED
  BY <1>1, <1>2, ConfigInvStep, PTL DEF Spec
-----------------------------------------------------------------------------
(* TiersLayered: what Load makes of the tree.                              *)

\* The accessors answer what the standing lines say, or else the default.
LEMMA GetSaid ==
    ASSUME Parsed, NEW section, NEW key, NEW default
    PROVE  /\ Said(section, key) # {} => Get(section, key, default) \in Said(section, key)
           /\ Said(section, key) = {} => Get(section, key, default) = default
<1> DEFINE p == Append(section, key)
           lines == {j \in Standing : Paths[j] = p /\ file[j].text # Section}
           parse(text) == Parse[Kind(key)][text]
<1>1. Said(section, key) = {parse(file[j].text) : j \in lines} \ {Nil}
  BY DEF Said
<1>2. DOMAIN tree = {Paths[i] : i \in Standing} /\ \A i \in Standing : tree[Paths[i]] = file[i].text
  BY DEF Parsed, TreeStands
<1> DEFINE set == p \in DOMAIN tree /\ tree[p] # Section
<1>3. Get(section, key, default) =
        LET v == IF set THEN parse(tree[p]) ELSE Nil IN IF v = Nil THEN default ELSE v
  BY DEF Get
<1> HIDE DEF p, parse
<1>4. CASE set
  <2>1. \A j \in lines : file[j].text = tree[p]
    BY <1>2
  <2>2. lines # {}
    BY <1>2, <1>4
  <2>3. {parse(file[j].text) : j \in lines} = {parse(tree[p])}
    BY <2>1, <2>2
  <2> QED
    BY <1>1, <1>3, <1>4, <2>3
<1>5. CASE ~set
  <2>1. lines = {}
    BY <1>2, <1>5
  <2> QED
    BY <1>1, <1>3, <1>5, <2>1
<1> QED
  BY <1>4, <1>5

\* A key that is said to have a value is in a section of the tree.
LEMMA SaidInSection ==
    ASSUME Parsed, NEW section \in Seq(Words), section # << >>, NEW key \in Words,
           Said(section, key) # {}
    PROVE  IsSection(section)
<1> DEFINE p == Append(section, key)
<1>1. PICK j \in Standing : Paths[j] = p
  BY DEF Said
<1>2. p \in DOMAIN tree
  BY <1>1 DEF Parsed, TreeStands
<1>3. Len(section) \in Nat /\ Len(section) > 0
  OBVIOUS
<1>4. Len(p) > 1 /\ SubSeq(p, 1, Len(p) - 1) = section
  BY <1>3
<1> QED
  BY <1>2, <1>4 DEF Parsed, Rooted

\* A number in the file is a number.
LEMMA CostIsNumber ==
    ASSUME Parsed, NEW section, NEW default \in Int
    PROVE  Get(section, "tokens_per_request", default) \in Int
<1> DEFINE p == Append(section, "tokens_per_request")
           set == p \in DOMAIN tree /\ tree[p] # Section
<1>1. Kind("tokens_per_request") = "int"
  BY DEF Kind
<1>2. ASSUME set PROVE Parse["int"][tree[p]] \in Int \cup {Nil}
  <2>1. PICK j \in Standing : tree[p] = file[j].text
    BY <1>2 DEF Parsed, TreeStands
  <2>2. j \in 1 .. Len(file) /\ file \in Seq(Lines)
    BY <2>1 DEF Standing, Parsed, Named
  <2>3. file[j] \in Lines
    BY <2>2
  <2>4. file[j].text \in Texts \cup {Section}
    BY <2>3, LinesAssumption
  <2> QED
    BY <1>2, <2>1, <2>4, ParseAssumption
<1>3. Get(section, "tokens_per_request", default) =
        LET v == IF set THEN Parse["int"][tree[p]] ELSE Nil IN IF v = Nil THEN default ELSE v
  BY <1>1 DEF Get
<1> HIDE DEF set, p
<1> QED
  BY <1>2, <1>3

BucketNames == BucketFields \cup {"tokens_per_request", "sliding_window"}

\* What parseBucketDefaults makes of a section and a base.
LEMMA ParsedBucket ==
    ASSUME Parsed, NEW section, NEW base, DOMAIN base = BucketNames,
           base.tokens_per_request \in Int
    PROVE  LET b == ParseBucketDefaults(section, base)
           IN  /\ DOMAIN b = BucketNames
               /\ \A f \in BucketFields : b[f] = Get(section, f, base[f])
               /\ b.tokens_per_request \in Int /\ b.tokens_per_request > 0
<1> DEFINE b == ParseBucketDefaults(section, base)
           cost == Get(section, "tokens_per_request", base.tokens_per_request)
<1>1. cost \in Int
  BY CostIsNumber
<1>2. DOMAIN b = BucketNames
  BY DEF ParseBucketDefaults
<1>3. \A f \in BucketFields : b[f] = Get(section, f, base[f])
  BY DEF ParseBucketDefaults, BucketFields, BucketNames
<1>4. b.tokens_per_request = IF cost <= 0 THEN 1 ELSE cost
  BY DEF ParseBucketDefaults, BucketNames
<1> HIDE DEF b, cost
<1>5. b.tokens_per_request \in Int /\ b.tokens_per_request > 0
  BY <1>1, <1>4
<1> QED
  BY <1>2, <1>3, <1>5 DEF b

\* The sections of tiers.
TierNames == {p[2] : p \in {q \in DOMAIN tree : /\ Len(q) = 2 /\ q[1] = "tiers" /\ IsSection(q)}}

\* Load parses the tiers' sections with the result of the defaults section.
LEMMA LoadParts ==
    /\ Load.Defaults = ParseBucketDefaults(<<"defaults">>, DefaultBucket)
    /\ Load.Tiers = [t \in TierNames |-> ParseBucketDefaults(<<"tiers", t>>, Load.Defaults)]
BY DEF Load, TierNames

\* A tier of the configuration has a section of its own, and only such.
LEMMA TierSections ==
    ASSUME Parsed
    PROVE  \A t \in Words : t \in TierNames <=> IsSection(<<"tiers", t>>)
<1> SUFFICES ASSUME NEW t \in Words PROVE t \in TierNames <=> IsSection(<<"tiers", t>>)
  OBVIOUS
<1>1. ASSUME t \in TierNames PROVE IsSection(<<"tiers", t>>)
  <2>1. PICK q \in DOMAIN tree : Len(q) = 2 /\ q[1] = "tiers" /\ IsSection(q) /\ q[2] = t
    BY <1>1 DEF TierNames
  <2>2. q \in Seq(Words)
    BY DEF Parsed, Rooted
  <2>3. q = <<"tiers", t>>
    BY <2>1, <2>2
  <2> QED
    BY <2>1, <2>3
<1>2. ASSUME IsSection(<<"tiers", t>>) PROVE t \in TierNames
  <2>1. <<"tiers", t>> \in DOMAIN tree
    BY <1>2 DEF IsSection
  <2> QED
    BY <1>2, <2>1 DEF TierNames
<1> QED
  BY <1>1, <1>2

\* A tier's name is a key of the file.
LEMMA TierNamed ==
    ASSUME Parsed, NEW t \in TierNames
    PROVE  t \in Words
<1>1. PICK q \in DOMAIN tree : Len(q) = 2 /\ q[2] = t
  BY DEF TierNames
<1>2. q \in Seq(Words)
  BY DEF Parsed, Rooted
<1>3. 2 \in 1 .. Len(q)
  BY <1>1
<1> QED
  BY <1>1, <1>2, <1>3, ElementOfSeq

\* toBucketConfig changes the window only.
LEMMA ConvertedBucket ==
    ASSUME NEW bd, DOMAIN bd = BucketNames, bd = [f \in BucketNames |-> bd[f]]
    PROVE  /\ \A f \in BucketFields : ToBucketConfig(bd)[f] = bd[f]
           /\ ToBucketConfig(bd).tokens_per_request = bd.tokens_per_request
BY DEF ToBucketConfig, BucketNames, BucketFields

\* What a tier has in a field, given what its section and the defaults section say.
Layered(t, f, v) ==
    LET own == Said(<<"tiers", t>>, f)
        common == Said(<<"defaults">>, f)
    IN v \in IF own # {} THEN own ELSE IF common # {} THEN common ELSE {DefaultBucket[f]}

\* The defaults section lies over the built-in values.
LEMMA DefaultsLayered ==
    ASSUME Parsed
    PROVE  /\ DOMAIN Load.Defaults = BucketNames
           /\ Load.Defaults.tokens_per_request \in Int /\ Load.Defaults.tokens_per_request > 0
           /\ \A f \in BucketFields :
                Load.Defaults[f] \in LET common == Said(<<"defaults">>, f)
                                     IN IF common # {} THEN common ELSE {DefaultBucket[f]}
<1>1. DOMAIN DefaultBucket = BucketNames /\ DefaultBucket.tokens_per_request \in Int
  BY DEF DefaultBucket, BucketNames, BucketFields
<1> DEFINE d == Load.Defaults
<1>2. d = ParseBucketDefaults(<<"defaults">>, DefaultBucket)
  BY LoadParts
<1>3. /\ DOMAIN d = BucketNames /\ d.tokens_per_request \in Int /\ d.tokens_per_request > 0
      /\ \A f \in BucketFields : d[f] = Get(<<"defaults">>, f, DefaultBucket[f])
  BY <1>1, <1>2, ParsedBucket
<1> HIDE DEF d
<1>4. ASSUME NEW f \in BucketFields
      PROVE  d[f] \in IF Said(<<"defaults">>, f) # {} THEN Said(<<"defaults">>, f)
                      ELSE {DefaultBucket[f]}
  BY <1>3, GetSaid
<1> QED
  BY <1>3, <1>4 DEF d

\* A tier with a section lies over the defaults.
LEMMA TierLayered ==
    ASSUME Parsed, NEW t \in TierNames
    PROVE  LET b == Load.Tiers[t]
           IN  /\ DOMAIN b = BucketNames /\ b = [f \in BucketNames |-> b[f]]
               /\ b.tokens_per_request > 0
               /\ \A f \in BucketFields : Layered(t, f, b[f])
<1> DEFINE b == Load.Tiers[t]
<1>1. b = ParseBucketDefaults(<<"tiers", t>>, Load.Defaults)
  BY LoadParts
<1>2. /\ DOMAIN b = BucketNames /\ b.tokens_per_request > 0
      /\ \A f \in BucketFields : b[f] = Get(<<"tiers", t>>, f, Load.Defaults[f])
  BY <1>1, ParsedBucket, DefaultsLayered
<1>3. b = [f \in DOMAIN b |-> b[f]]
  BY <1>1 DEF ParseBucketDefaults
<1> HIDE DEF b
<1>4. ASSUME NEW f \in BucketFields PROVE Layered(t, f, b[f])
  <2> DEFINE own == Said(<<"tiers", t>>, f)
  <2>1. (own # {} => b[f] \in own) /\ (own = {} => b[f] = Load.Defaults[f])
    BY <1>2, GetSaid
  <2>2. Load.Defaults[f] \in IF Said(<<"defaults">>, f) # {} THEN Said(<<"defaults">>, f)
                             ELSE {DefaultBucket[f]}
    BY DefaultsLayered
  <2> QED
    BY <2>1, <2>2 DEF Layered
<1> QED
  BY <1>2, <1>3, <1>4 DEF b

\* The default tier without a section of its own is the defaults section.
LEMMA DefaultTierLayered ==
    ASSUME Parsed, "default" \notin TierNames
    PROVE  LET b == Load.Defaults
           IN  /\ DOMAIN b = BucketNames /\ b = [f \in BucketNames |-> b[f]]
               /\ b.tokens_per_request > 0
               /\ \A f \in BucketFields : Layered("default", f, b[f])
<1> DEFINE b == Load.Defaults
<1>1. /\ DOMAIN b = BucketNames /\ b.tokens_per_request > 0
      /\ \A f \in BucketFields :
            b[f] \in IF Said(<<"defaults">>, f) # {} THEN Said(<<"defaults">>, f)
                     ELSE {DefaultBucket[f]}
  BY DefaultsLayered
<1>2. b = [f \in DOMAIN b |-> b[f]]
  BY LoadParts DEF ParseBucketDefaults
<1>3. "default" \in Words /\ "tiers" \in Words /\ BucketFields \subseteq Words
  BY DEF Words
<1>4. ~IsSection(<<"tiers", "default">>)
  BY <1>3, TierSections
<1>5. ASSUME NEW f \in BucketFields PROVE Said(<<"tiers", "default">>, f) = {}
  <2>1. f \in Words
    BY <1>3
  <2>2. <<"tiers", "default">> \in Seq(Words) /\ <<"tiers", "default">> # << >>
    BY <1>3
  <2> QED
    BY <1>4, <2>1, <2>2, SaidInSection
<1> HIDE DEF b
<1>6. \A f \in BucketFields : Layered("default", f, b[f])
  BY <1>1, <1>5 DEF Layered
<1> QED
  BY <1>1, <1>2, <1>6 DEF b

\* Load and main: for every file that main accepts, a tier has in each field what
\* its own section says, or else the defaults section, or else the built-in value,
\* and a positive cost; the default tier without a section has validated values.
THEOREM TiersTheorem == Spec => []TiersLayered
<1>1. Init => ConfigInv
  BY ConfigInvInit DEF Init
<1>2. ConfigInv => TiersLayered
  <2> SUFFICES ASSUME ConfigInv, boot = "configured", NEW t \in DOMAIN TierDefaults
               PROVE  /\ \A f \in BucketFields : Layered(t, f, TierDefaults[t][f])
                      /\ TierDefaults[t].tokens_per_request > 0
                      /\ (\A i \in Standing : Paths[i] # <<"tiers", t>>) =>
                          TierDefaults[t].max_tokens > 0 /\ TierDefaults[t].refill_rate >= 0
    BY DEF TiersLayered, Layered
  <2>1. Parsed /\ cfg = Load /\ Validate(Load)
    BY DEF ConfigInv, Loaded
  <2>2. DOMAIN cfg.Tiers = TierNames
    BY <2>1, LoadParts
  <2> DEFINE b == IF t \in TierNames THEN Load.Tiers[t] ELSE Load.Defaults
  <2>3. t \in TierNames \cup {"default"} /\ TierDefaults[t] = ToBucketConfig(b)
    BY <2>1, <2>2 DEF TierDefaults
  <2>4. /\ DOMAIN b = BucketNames /\ b = [f \in BucketNames |-> b[f]]
        /\ b.tokens_per_request > 0 /\ \A f \in BucketFields : Layered(t, f, b[f])
    <3>1. CASE t \in TierNames
      BY <2>1, <3>1, TierLayered
    <3>2. CASE t \notin TierNames
      <4>1. t = "default"
        BY <2>3, <3>2
      <4> QED
        BY <2>1, <3>2, <4>1, DefaultTierLayered
    <3> QED
      BY <3>1, <3>2
  <2>5. ASSUME \A i \in Standing : Paths[i] # <<"tiers", t>>
        PROVE  b = Load.Defaults /\ Load.Defaults.max_tokens > 0 /\ Load.Defaults.refill_rate >= 0
    <3>1. t \in Words
      <4>1. "default" \in Words
        BY DEF Words
      <4> QED
        BY <2>1, <2>3, <4>1, TierNamed
    <3>2. <<"tiers", t>> \notin DOMAIN tree
      BY <2>1, <2>5 DEF Parsed, TreeStands
    <3>3. t \notin TierNames
      BY <2>1, <3>1, <3>2, TierSections DEF IsSection
    <3> QED
      BY <2>1, <3>3 DEF Validate
  <2> HIDE DEF b
  <2>6. /\ \A f \in BucketFields : TierDefaults[t][f] = b[f]
        /\ TierDefaults[t].tokens_per_request = b.tokens_per_request
    BY <2>3, <2>4, ConvertedBucket
  <2>7. TierDefaults[t].max_tokens = b.max_tokens /\ TierDefaults[t].refill_rate = b.refill_rate
    BY <2>6 DEF BucketFields
  <2> QED
    BY <2>4, <2>5, <2>6, <2>7
<1> QED
  BY <1>1, <1>2, ConfigInvStep, PTL DEF Spec
=============================================================================
