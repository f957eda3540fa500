-------------------------- MODULE ServerLifecycle --------------------------
(***************************************************************************)
(* The Go process from main to exit: it connects its pool, serves, drains  *)
(* when a signal comes, closes the pool and leaves.  Three kinds of        *)
(* goroutine meet here: run and the listener's goroutine, joined by errCh, *)
(* and one handler per request, which holds at most one connection of the  *)
(* pool at a time.                                                         *)
(*                                                                         *)
(* net/http and pgxpool are external: Shutdown waits for the handlers in   *)
(* flight and interrupts none of them, Close refuses new acquisitions and  *)
(* waits for the connections in use.                                       *)
(***************************************************************************)
EXTENDS Integers, FiniteSets

CONSTANTS
  Pages,      \* requests for a page or a total: no deadline of their own
  Checks,     \* health checks: two seconds
  MaxConns,   \* connections of the pool
  MaxHangs    \* bound on the times the database stops answering

ASSUME LifecycleAssumption ==
  /\ Pages \cap Checks = {}
  /\ MaxConns \in Nat \ {0}
  /\ MaxHangs \in Nat

Requests == Pages \cup Checks

VARIABLES
  phase,      \* how far run has come
  exit,       \* what run returns: "none" so far, "ok" or "error"
  signalled,  \* SIGINT or SIGTERM was received: ctx is cancelled
  listener,   \* the goroutine around ListenAndServe
  errCh,      \* its only message, a channel of one place
  handler,    \* how far each request has come
  held,       \* the requests that hold a connection
  closed,     \* pool.Close was called
  gone,       \* the requests whose client has left: their context is cancelled
  db,         \* whether the database answers
  hangs

vars == <<phase, exit, signalled, listener, errCh, handler, held, closed,
          gone, db, hangs>>

main    == <<phase, exit, closed>>
serve   == <<listener, errCh>>
world   == <<signalled, gone, db, hangs>>
request == <<handler, held>>

\* Shutdown was called: no connection is accepted any more.
InShutdown == phase \in {"shutting", "awaiting"} \/ exit # "none"

InFlight == {r \in Requests : handler[r] \in {"accepted", "querying", "reading"}}

Init ==
  /\ phase = "connecting"
  /\ exit = "none"
  /\ signalled = FALSE
  /\ listener = "none"
  /\ errCh = "none"
  /\ handler = [r \in Requests |-> "new"]
  /\ held = {}
  /\ closed = FALSE
  /\ gone = {}
  /\ db = "up"
  /\ hangs = 0

-----------------------------------------------------------------------------
(* The world.                                                              *)

\* NotifyContext keeps both signals until run returns: only the first counts.
Signal ==
  /\ ~signalled
  /\ phase # "exited"
  /\ signalled' = TRUE
  /\ UNCHANGED <<main, serve, request, gone, db, hangs>>

ClientLeaves(r) ==
  /\ r \in InFlight \ gone
  /\ gone' = gone \cup {r}
  /\ UNCHANGED <<main, serve, request, signalled, db, hangs>>

DbHangs ==
  /\ db = "up"
  /\ hangs < MaxHangs
  /\ db' = "hung"
  /\ hangs' = hangs + 1
  /\ UNCHANGED <<main, serve, request, signalled, gone>>

DbRecovers ==
  /\ db = "hung"
  /\ db' = "up"
  /\ UNCHANGED <<main, serve, request, signalled, gone, hangs>>

-----------------------------------------------------------------------------
(* run.                                                                    *)

\* NewPool pings before anything is served; the signal cancels the ping.
Connect ==
  /\ phase = "connecting"
  /\ db = "up"
  /\ ~signalled
  /\ phase' = "serving"
  /\ listener' = "starting"
  /\ UNCHANGED <<exit, closed, errCh, request, world>>

ConnectFails ==
  /\ phase = "connecting"
  /\ db = "up" \/ signalled
  /\ phase' = "exited"
  /\ exit' = "error"
  /\ closed' = TRUE
  /\ UNCHANGED <<serve, request, world>>

\* The two branches of the select in Run.
ListenerStopped ==
  /\ phase = "serving"
  /\ errCh # "none"
  /\ phase' = "closing"
  /\ exit' = errCh
  /\ UNCHANGED <<closed, serve, request, world>>

BeginShutdown ==
  /\ phase = "serving"
  /\ signalled
  /\ phase' = "shutting"
  /\ UNCHANGED <<exit, closed, serve, request, world>>

\* Bug: the server is closed at once, whoever is in flight.
DrainedAtOnce ==
  /\ phase = "shutting"
  /\ phase' = "awaiting"
  /\ UNCHANGED <<exit, closed, serve, request, world>>

\* Shutdown returns nil once no request is in flight.
Drained ==
  /\ phase = "shutting"
  /\ InFlight = {}
  /\ phase' = "awaiting"
  /\ UNCHANGED <<exit, closed, serve, request, world>>

\* The shutdown timeout: Run returns the error, and the handlers run on.
GraceOver ==
  /\ phase = "shutting"
  /\ InFlight # {}
  /\ phase' = "closing"
  /\ exit' = "error"
  /\ UNCHANGED <<closed, serve, request, world>>

AwaitListener ==
  /\ phase = "awaiting"
  /\ errCh # "none"
  /\ phase' = "closing"
  /\ exit' = errCh
  /\ UNCHANGED <<closed, serve, request, world>>

\* The deferred pool.Close.
ClosePool ==
  /\ phase = "closing"
  /\ ~closed
  /\ closed' = TRUE
  /\ UNCHANGED <<phase, exit, serve, request, world>>

\* Close has returned; the process takes the handlers that remain with it.
Exit ==
  /\ phase = "closing"
  /\ closed
  /\ held = {}
  /\ phase' = "exited"
  /\ handler' = [r \in Requests |-> IF r \in InFlight THEN "cut" ELSE handler[r]]
  /\ UNCHANGED <<exit, closed, held, serve, world>>

Run ==
  \/ Connect \/ ConnectFails \/ ListenerStopped \/ BeginShutdown \/ Drained
  \/ GraceOver \/ AwaitListener \/ ClosePool \/ Exit

-----------------------------------------------------------------------------
(* The goroutine around ListenAndServe.  It ends with ErrServerClosed, nil   *)
(* on errCh, when Shutdown was called, be it before it started to listen.    *)

Listen ==
  /\ listener = "starting"
  /\ ~InShutdown
  /\ phase # "exited"
  /\ listener' = "open"
  /\ UNCHANGED <<errCh, main, request, world>>

ListenerClosed ==
  /\ listener \in {"starting", "open"}
  /\ InShutdown
  /\ phase # "exited"
  /\ listener' = "closed"
  /\ errCh' = "ok"
  /\ UNCHANGED <<main, request, world>>

\* Bug: whatever ListenAndServe returns, nil goes to errCh.
ListenFailsSilently ==
  /\ listener \in {"starting", "open"}
  /\ ~InShutdown
  /\ listener' = "closed"
  /\ errCh' = "ok"
  /\ UNCHANGED <<main, request, world>>

\* The address is taken, or Accept fails for good.
ListenFails ==
  /\ listener \in {"starting", "open"}
  /\ ~InShutdown
  /\ listener' = "closed"
  /\ errCh' = "error"
  /\ UNCHANGED <<main, request, world>>

-----------------------------------------------------------------------------
(* A handler: one call to the repository, then the response.               *)

\* Bug: the handlers share one state.
MoveShared(r, to) == handler' = [q \in {r} |-> to]

Move(r, to) == handler' = [handler EXCEPT ![r] = to]

Release(r) == held' = held \ {r}

Accept(r) ==
  /\ handler[r] = "new"
  /\ listener = "open"
  /\ ~InShutdown
  /\ Move(r, "accepted")
  /\ UNCHANGED <<held, main, serve, world>>

\* pool.Query and pool.QueryRow acquire a connection, or wait for one.
Acquire(r) ==
  /\ handler[r] = "accepted"
  /\ ~closed
  /\ Cardinality(held) < MaxConns
  /\ held' = held \cup {r}
  /\ Move(r, "querying")
  /\ UNCHANGED <<main, serve, world>>

\* A handler that was already waiting really learns it when a connection comes
\* back.  Here it may learn it at once: it holds nothing meanwhile, and while the
\* database answers every connection does come back.
PoolIsClosed(r) ==
  /\ handler[r] = "accepted"
  /\ phase # "exited"
  /\ closed
  /\ Move(r, "failed")
  /\ UNCHANGED <<held, main, serve, world>>

RowsArrive(r) ==
  /\ handler[r] = "querying"
  /\ db = "up"
  /\ Move(r, "reading")
  /\ UNCHANGED <<held, main, serve, world>>

\* Bug: a failed statement keeps its connection.
QueryFailsLeaking(r) ==
  /\ handler[r] = "querying"
  /\ db = "up"
  /\ Move(r, "failed")
  /\ UNCHANGED <<held, main, serve, world>>

\* The statement fails: no rows to close, the connection goes back.
QueryFails(r) ==
  /\ handler[r] = "querying"
  /\ db = "up"
  /\ Release(r)
  /\ Move(r, "failed")
  /\ UNCHANGED <<main, serve, world>>

\* The last row was read, or one did not scan: the deferred rows.Close gives
\* the connection back either way.
RowsRead(r) ==
  /\ handler[r] = "reading"
  /\ Release(r)
  /\ Move(r, "answered")
  /\ UNCHANGED <<main, serve, world>>

\* Bug: rows.Close is not deferred.
ScanFailsLeaking(r) ==
  /\ handler[r] = "reading"
  /\ Move(r, "failed")
  /\ UNCHANGED <<held, main, serve, world>>

ScanFails(r) ==
  /\ handler[r] = "reading"
  /\ Release(r)
  /\ Move(r, "failed")
  /\ UNCHANGED <<main, serve, world>>

\* Bug: the health check has no deadline.
CancelledByClientOnly(r) ==
  /\ handler[r] \in {"accepted", "querying"}
  /\ phase # "exited"
  /\ r \in gone
  /\ Release(r)
  /\ Move(r, "failed")
  /\ UNCHANGED <<main, serve, world>>

\* The context of the request ends while it waits or queries: the client left,
\* or the two seconds of a health check are over.
Cancelled(r) ==
  /\ handler[r] \in {"accepted", "querying"}
  /\ phase # "exited"
  /\ r \in gone \cup Checks
  /\ Release(r)
  /\ Move(r, "failed")
  /\ UNCHANGED <<main, serve, world>>

Handle(r) ==
  \/ Acquire(r) \/ PoolIsClosed(r) \/ RowsArrive(r) \/ QueryFails(r)
  \/ RowsRead(r) \/ ScanFails(r) \/ Cancelled(r)

Next ==
  \/ Signal
  \/ \E r \in Requests : ClientLeaves(r)
  \/ DbHangs
  \/ DbRecovers
  \/ Run
  \/ Listen
  \/ ListenerClosed
  \/ ListenFails
  \/ \E r \in Requests : Accept(r) \/ Handle(r)

Spec == Init /\ [][Next]_vars

\* Goroutines run, timers fire.  Nothing is assumed of clients, of signals, or
\* of the database, which answers when it can.
FairSpec ==
  /\ Spec
  /\ WF_vars(Run)
  /\ WF_vars(Listen \/ ListenerClosed)
  /\ \A r \in Requests : WF_vars(Handle(r))

-----------------------------------------------------------------------------
(* Properties.                                                             *)

\* Every variable holds a value the code can produce.
TypeOK ==
  /\ phase \in {"connecting", "serving", "shutting", "awaiting", "closing",
                "exited"}
  /\ exit \in {"none", "ok", "error"}
  /\ signalled \in BOOLEAN /\ closed \in BOOLEAN
  /\ listener \in {"none", "starting", "open", "closed"}
  /\ errCh \in {"none", "ok", "error"}
  /\ handler \in [Requests -> {"new", "accepted", "querying", "reading",
                               "answered", "failed", "cut"}]
  /\ held \subseteq Requests
  /\ gone \subseteq Requests
  /\ db \in {"up", "hung"}
  /\ hangs \in 0 .. MaxHangs

\* No path through a handler keeps its connection: it is back in the pool when
\* the handler is over, however it ended, and the pool is never overdrawn.
NoConnectionLeaks ==
  /\ held = {r \in Requests : handler[r] \in {"querying", "reading"}}
  /\ Cardinality(held) <= MaxConns

\* A shutdown that reports success has interrupted nobody: every request that
\* was let in had its handler run to the end before the pool closed.
CleanShutdownServesAll ==
  exit = "ok" =>
    /\ signalled
    /\ InFlight = {}
    /\ \A r \in Requests : handler[r] # "cut"

\* A health check is answered even while the database hangs and every other
\* request waits for a connection.
HealthIsAnswered ==
  \A r \in Checks :
    handler[r] = "accepted" ~> handler[r] \in {"answered", "failed", "cut"}

\* If the database answers in the end, nobody waits for a connection for ever,
\* and a signal ends the process.
DbIsBack == <>[](db = "up")

EveryoneIsServed ==
  DbIsBack =>
    \A r \in Requests :
      handler[r] = "accepted" ~> handler[r] \in {"answered", "failed", "cut"}

SignalEndsProcess == DbIsBack => (signalled ~> phase = "exited")

\* config.go: "ShutdownTimeout bounds how long in-flight requests get to
\* finish": once it is over, no request finishes any more.
TimeoutBoundsRequests ==
  [][signalled /\ exit = "error" =>
       \A r \in Requests :
         handler'[r] \in {"answered", "failed"} => handler'[r] = handler[r]]_vars

-----------------------------------------------------------------------------
(* The inductive invariant behind CleanShutdownServesAll.                  *)

\* The stages of run come in order: a result once it leaves Run and not before,
\* nobody cut before the process is gone, and nobody in flight between the end
\* of Shutdown and the end of the listener.
StagesInOrder ==
  /\ phase \in {"closing", "exited"} <=> exit # "none"
  /\ phase \in {"shutting", "awaiting"} => signalled
  /\ phase = "awaiting" => InFlight = {}
  /\ phase # "exited" => \A r \in Requests : handler[r] # "cut"
  /\ phase = "connecting" => listener = "none"

\* The listener reports ErrServerClosed as success, and only Shutdown makes it
\* do so: what it reports before is an error.
SuccessMeansShutdown == errCh = "ok" => InShutdown

LifecycleInvariant == TypeOK /\ StagesInOrder /\ SuccessMeansShutdown

-----------------------------------------------------------------------------
(* The process as its callers and its operator see it.                     *)

\* Requests are let in from the moment the listener is open until it fails or
\* the shutdown begins.
Gate ==
  IF InShutdown \/ listener = "closed" THEN "shut"
  ELSE IF listener = "open" THEN "open" ELSE "new"

Graceful ==
  INSTANCE GracefulService WITH
    gate    <- Gate,
    inside  <- InFlight,
    served  <- {r \in Requests : handler[r] \in {"answered", "failed"}},
    dropped <- {r \in Requests : handler[r] = "cut"},
    outcome <- exit

\* The process keeps the promise of a graceful service, step by step: nobody is
\* let in once the gate is shut, which no later step opens again; who was let in
\* is served once, or dropped by a process that reports a failure; and success
\* is reported only when there is nobody left to serve.
KeepsService == Graceful!Spec

=============================================================================
