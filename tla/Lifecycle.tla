----------------------------- MODULE Lifecycle ------------------------------
(***************************************************************************)
(* The servers of the process from main's start to its end: the goroutines *)
(* that run ClientServer.ListenAndServe, AdminServer.ListenAndServe and    *)
(* the metrics server, the connection limit of LimitListener, and main,    *)
(* which on a signal calls Shutdown on one server after the other under    *)
(* one deadline, waits for the goroutines, closes the audit file and ends. *)
(*                                                                         *)
(* The http.Server is external and modelled as far as src/ relies on it:   *)
(* Serve accepts until its listener is closed and hands each connection to *)
(* a goroutine of its own; Shutdown makes Serve return, closes idle        *)
(* connections and waits for the others until the deadline.  A closed idle *)
(* connection is closed again by its goroutine.  Main's read of the field  *)
(* httpServer races the goroutine's write of it: it sees it or not.        *)
(***************************************************************************)
EXTENDS Integers, FiniteSets

CONSTANTS
    Conns,      \* connections that may be open at a time, over all servers
    MaxConns    \* the argument of LimitListener

ASSUME LimitAssumption == MaxConns \in Nat \ {0}
ASSUME ConnsAssumption == IsFiniteSet(Conns)

Limited == {"client", "admin"}          \* the servers with a LimitListener
Servers == Limited \cup {"metrics"}

VARIABLES
    main,       \* "booting", "running", then the server being shut down, "wait", "stopped"
    polling,    \* main is inside http.Server.Shutdown
    expired,    \* the deadline of shutdownCtx has passed
    skipped,    \* history: servers whose Shutdown found httpServer nil
    srv,        \* each server goroutine's next step
    down,       \* inShutdown of each http.Server, its listener closed
    sem,        \* length of each limitListener's channel
    conn        \* each connection: st, its server, and its releaseOnce

lifeVars == <<main, polling, expired, skipped, srv, down, sem, conn>>

Free == [st |-> "free", of |-> "none", released |-> FALSE]
Of(s, states) == {c \in Conns : conn[c].of = s /\ conn[c].st \in states}

LifeInit ==
    /\ main = "booting" /\ polling = FALSE /\ expired = FALSE /\ skipped = {}
    /\ srv = [s \in Servers |-> "off"]
    /\ down = [s \in Servers |-> FALSE]
    /\ sem = [s \in Servers |-> 0]
    /\ conn = [c \in Conns |-> Free]

\* main creates the metrics http.Server itself and starts the goroutines; then
\* it waits for the signal.
Start(metricsEnabled) ==
    /\ main = "booting"
    /\ main' = "running"
    /\ srv' = [client |-> "spawned", admin |-> "spawned",
               metrics |-> IF metricsEnabled THEN "ready" ELSE "off"]
    /\ UNCHANGED <<polling, expired, skipped, down, sem, conn>>
-----------------------------------------------------------------------------
(* A server's goroutine.                                                   *)

Goes(s, from, to) == srv[s] = from /\ srv' = [srv EXCEPT ![s] = to]
LifeRest == UNCHANGED <<main, polling, expired, skipped, down>>

\* ListenAndServe stores the http.Server.
SetServer(s) == Goes(s, "spawned", "ready") /\ LifeRest /\ UNCHANGED <<sem, conn>>

\* net.Listen and the certificates; failure of either ends the goroutine, and
\* main goes on without this server.
Listen(s) ==
    /\ Goes(s, "ready", "bound") \/ Goes(s, "ready", "done")
    /\ LifeRest /\ UNCHANGED <<sem, conn>>

\* Serve begins, unless Shutdown was called before.
Serve(s) ==
    /\ Goes(s, "bound", IF down[s] THEN "done" ELSE "slot")
    /\ LifeRest /\ UNCHANGED <<sem, conn>>

\* limitListener.Accept waits for a slot; the metrics server has no limit.
AcquireSlot(s) ==
    /\ Goes(s, "slot", "accept")
    /\ IF s \in Limited THEN sem[s] < MaxConns /\ sem' = [sem EXCEPT ![s] = @ + 1]
       ELSE UNCHANGED sem
    /\ LifeRest /\ UNCHANGED conn

\* The wrapped listener accepts a connection.
AcceptConn(s, c) ==
    /\ Goes(s, "accept", "track") /\ ~down[s] /\ conn[c] = Free
    /\ conn' = [conn EXCEPT ![c] = [st |-> "new", of |-> s, released |-> FALSE]]
    /\ LifeRest /\ UNCHANGED sem

\* It fails: for good when it has been closed, else Serve tries again.
BugAcceptError(s) ==                        \* keeps the slot
    /\ Goes(s, "accept", IF down[s] THEN "done" ELSE "slot")
    /\ LifeRest /\ UNCHANGED <<sem, conn>>
AcceptError(s) ==
    /\ Goes(s, "accept", IF down[s] THEN "done" ELSE "slot")
    /\ sem' = IF s \in Limited THEN [sem EXCEPT ![s] = @ - 1] ELSE sem
    /\ LifeRest /\ UNCHANGED conn

\* Serve registers the connection, from when on Shutdown sees it, and starts its
\* goroutine; "late" is a connection or request that comes after Shutdown.
InFlight(s) == IF down[s] THEN "late" ELSE "active"
Track(s, c) ==
    /\ Goes(s, "track", "slot") /\ c \in Of(s, {"new"})
    /\ conn' = [conn EXCEPT ![c].st = InFlight(s)]
    /\ LifeRest /\ UNCHANGED sem
-----------------------------------------------------------------------------
(* A connection's goroutine.                                               *)

Busy == {"active", "late"}
ConnRest == LifeRest /\ UNCHANGED srv

\* limitConn.Close of the connections cs, which then are in state st: the slot
\* is given back the first time.
BugClose(cs, st) ==                         \* releases on every Close
    /\ sem' = [s \in Servers |->
                IF s \notin Limited THEN sem[s] ELSE sem[s] - Cardinality({c \in cs : conn[c].of = s})]
    /\ conn' = [c \in Conns |-> IF c \notin cs THEN conn[c] ELSE
                    IF st = "free" THEN Free ELSE [conn[c] EXCEPT !.st = st, !.released = TRUE]]
Close(cs, st) ==
    /\ sem' = [s \in Servers |->
                IF s \notin Limited THEN sem[s]
                ELSE sem[s] - Cardinality({c \in cs : conn[c].of = s /\ ~conn[c].released})]
    /\ conn' = [c \in Conns |-> IF c \notin cs THEN conn[c] ELSE
                    IF st = "free" THEN Free ELSE [conn[c] EXCEPT !.st = st, !.released = TRUE]]

\* The handler returns, or panics and RecoverMiddleware answers; the connection
\* is kept alive or closed, and closed in any case once Shutdown was called.
FinishRequest(c) ==
    /\ conn[c].st \in Busy
    /\ \/ Close({c}, "free")
       \/ ~down[conn[c].of] /\ conn' = [conn EXCEPT ![c].st = "idle"] /\ UNCHANGED sem
    /\ ConnRest

NextRequest(c) ==
    /\ conn[c].st = "idle"
    /\ conn' = [conn EXCEPT ![c].st = InFlight(conn[c].of)]
    /\ ConnRest /\ UNCHANGED sem

\* The goroutine of an idle connection ends: on its timeout, or because
\* Shutdown has closed the connection, which is then closed a second time.
ExitConn(c) == conn[c].st \in {"idle", "shut"} /\ Close({c}, "free") /\ ConnRest
-----------------------------------------------------------------------------
(* main after the signal.                                                  *)

Signal ==
    /\ main = "running" /\ main' = "client"
    /\ UNCHANGED <<polling, expired, skipped, srv, down, sem, conn>>

NextCall(s) ==
    CASE s = "client" -> "admin"
      [] s = "admin" /\ srv["metrics"] # "off" -> "metrics"
      [] OTHER -> "wait"

\* Shutdown of server s; it returns at once if httpServer is nil.
ShutdownCall(s) ==
    /\ main = s /\ ~polling
    /\ IF srv[s] = "spawned"
       THEN main' = NextCall(s) /\ skipped' = skipped \cup {s} /\ UNCHANGED <<polling, down>>
       ELSE polling' = TRUE /\ down' = [down EXCEPT ![s] = TRUE] /\ UNCHANGED <<main, skipped>>
    /\ UNCHANGED <<expired, srv, sem, conn>>

\* http.Server.Shutdown closes the idle connections; it returns when no other is
\* registered or the deadline has passed.
BugShutdownPoll(s) ==                       \* does not wait for requests
    /\ main = s /\ polling
    /\ Close(Of(s, {"idle"}), "shut")
    /\ main' = NextCall(s) /\ polling' = FALSE
    /\ UNCHANGED <<expired, skipped, srv, down>>
ShutdownPoll(s) ==
    /\ main = s /\ polling
    /\ Close(Of(s, {"idle"}), "shut")
    /\ IF Of(s, Busy) = {} \/ expired THEN main' = NextCall(s) /\ polling' = FALSE
       ELSE UNCHANGED <<main, polling>>
    /\ UNCHANGED <<expired, skipped, srv, down>>

\* Five seconds have passed.
Expire ==
    /\ main \in Servers /\ ~expired /\ expired' = TRUE
    /\ UNCHANGED <<main, polling, skipped, srv, down, sem, conn>>

\* wg.Wait returns; the audit file is closed and the process ends.
Stop ==
    /\ main = "wait" /\ \A s \in Servers : srv[s] \in {"off", "done"}
    /\ main' = "stopped"
    /\ UNCHANGED <<polling, expired, skipped, srv, down, sem, conn>>

ServerStep(s) ==
    \/ SetServer(s) \/ Listen(s) \/ Serve(s) \/ AcquireSlot(s)
    \/ \E c \in Conns : Track(s, c)
MainStep == (\E s \in Servers : ShutdownCall(s) \/ ShutdownPoll(s)) \/ Stop

LifeNext ==
    /\ main \notin {"booting", "stopped"}
    /\ \/ \E s \in Servers : ServerStep(s) \/ AcceptError(s) \/ \E c \in Conns : AcceptConn(s, c)
       \/ \E c \in Conns : FinishRequest(c) \/ NextRequest(c) \/ ExitConn(c)
       \/ Signal \/ MainStep \/ Expire

\* Goroutines go on, time passes, a closed listener ends Accept, and what the
\* handlers of the limited servers do is short and bounded by their read and
\* write timeouts.  Nothing is assumed of the metrics server's connections, for
\* which no timeouts are set, and nobody needs to connect or to send a request.
LifeFairness ==
    /\ \A s \in Servers :
        /\ WF_lifeVars(main # "stopped" /\ ServerStep(s))
        /\ WF_lifeVars(main # "stopped" /\ down[s] /\ AcceptError(s))
    /\ \A c \in Conns :
        WF_lifeVars(main # "stopped" /\ conn[c].of \in Limited /\ FinishRequest(c))
    /\ WF_lifeVars(MainStep)
    /\ WF_lifeVars(Expire)
-----------------------------------------------------------------------------
\* limitListener and limitConn (NFR3.2, D14): every slot that is taken belongs to
\* an open connection or to a pending Accept, and there are never more than the
\* limit, although idle connections are closed by Shutdown and again by their
\* goroutines.
SlotsAccounted ==
    \A s \in Limited :
        /\ sem[s] = Cardinality(Of(s, {"new", "active", "late", "idle"}))
                    + IF srv[s] = "accept" THEN 1 ELSE 0
        /\ sem[s] <= MaxConns

\* main, design.md 4.10: unless the deadline passes, a request that was under way
\* when its server's Shutdown was called is over when the audit file is closed
\* and the process ends.
InFlightDrained ==
    main = "stopped" /\ ~expired => \A s \in Servers \ skipped : Of(s, {"active"}) = {}

\* main: a signal ends the process, also when Accept waits for a slot of a full
\* listener, which closing the listener does not wake; the exception is a signal
\* so early that Shutdown finds a server whose goroutine has not set httpServer.
StopsOnSignal == (main = "client") ~> (main = "stopped" \/ skipped # {})
=============================================================================
