----------------------------- MODULE JavaServer -----------------------------
(***************************************************************************)
(* The requests of the Spring Boot process over its Hikari pool.  A thread *)
(* waits at most connection-timeout for a connection, and for ever for the *)
(* rows once it has one: no statement and no socket has a timeout, and     *)
(* nobody notices a client that leaves.  Hikari and the JDBC driver are    *)
(* external, with the defaults the configuration leaves them.              *)
(***************************************************************************)
EXTENDS Integers, FiniteSets

CONSTANTS
  Pages,      \* requests for a page or a total
  Checks,     \* health checks
  MaxConns,   \* maximum-pool-size
  MaxHangs    \* bound on the times the database stops answering

ASSUME JavaAssumption ==
  /\ Pages \cap Checks = {}
  /\ MaxConns \in Nat \ {0}
  /\ MaxHangs \in Nat

Requests == Pages \cup Checks

VARIABLES
  thread,   \* how far each request has come; its status when it is over
  held,     \* the requests that hold a connection
  db,       \* whether the database answers
  hangs

javaVars == <<thread, held, db, hangs>>

Over == {"200", "500", "503"}

JavaInit ==
  /\ thread = [r \in Requests |-> "new"]
  /\ held = {}
  /\ db = "up"
  /\ hangs = 0

DbHangs ==
  /\ db = "up"
  /\ hangs < MaxHangs
  /\ db' = "hung"
  /\ hangs' = hangs + 1
  /\ UNCHANGED <<thread, held>>

DbRecovers ==
  /\ db = "hung"
  /\ db' = "up"
  /\ UNCHANGED <<thread, held, hangs>>

-----------------------------------------------------------------------------
(* A thread.                                                               *)

\* Bug: nobody catches what the health check runs into.
FailureUncaught(r) == "500"

\* isReachable turns every failure into 503; elsewhere it is a 500.
Failure(r) == IF r \in Checks THEN "503" ELSE "500"

Move(r, to) == thread' = [thread EXCEPT ![r] = to]

Accept(r) ==
  /\ thread[r] = "new"
  /\ Move(r, "waiting")
  /\ UNCHANGED <<held, db, hangs>>

\* A connection that was used a moment ago is handed out unchecked.
Acquire(r) ==
  /\ thread[r] = "waiting"
  /\ Cardinality(held) < MaxConns
  /\ held' = held \cup {r}
  /\ Move(r, "reading")
  /\ UNCHANGED <<db, hangs>>

\* Bug: a thread waits for a connection as long as it takes.
AcquireWaits(r) ==
  /\ thread[r] = "waiting"
  /\ db = "up"
  /\ Move(r, Failure(r))
  /\ UNCHANGED <<held, db, hangs>>

\* connection-timeout is over, or no connection passes its check.
AcquireFails(r) ==
  /\ thread[r] = "waiting"
  /\ Move(r, Failure(r))
  /\ UNCHANGED <<held, db, hangs>>

RowsArrive(r) ==
  /\ thread[r] = "reading"
  /\ db = "up"
  /\ held' = held \ {r}
  /\ Move(r, "200")
  /\ UNCHANGED <<db, hangs>>

\* Bug: a failed statement keeps its connection.
StatementFailsLeaking(r) ==
  /\ thread[r] = "reading"
  /\ db = "up"
  /\ Move(r, Failure(r))
  /\ UNCHANGED <<held, db, hangs>>

StatementFails(r) ==
  /\ thread[r] = "reading"
  /\ db = "up"
  /\ held' = held \ {r}
  /\ Move(r, Failure(r))
  /\ UNCHANGED <<db, hangs>>

Serve(r) == Acquire(r) \/ AcquireFails(r) \/ RowsArrive(r) \/ StatementFails(r)

JavaNext ==
  \/ DbHangs \/ DbRecovers
  \/ \E r \in Requests : Accept(r) \/ Serve(r)

JavaSpec == JavaInit /\ [][JavaNext]_javaVars

\* Threads run and timers fire.  Nothing is assumed of the database.
FairSpec == JavaSpec /\ \A r \in Requests : WF_javaVars(Serve(r))

-----------------------------------------------------------------------------
(* Properties.                                                             *)

\* Every request is somewhere on its way or over, with a status of its kind: a
\* page never reports 503, a health check never 500.
TypeOK ==
  /\ thread \in [Requests -> {"new", "waiting", "reading"} \cup Over]
  /\ \A r \in Requests : thread[r] # IF r \in Checks THEN "500" ELSE "503"
  /\ held \subseteq Requests
  /\ db \in {"up", "hung"}
  /\ hangs \in 0 .. MaxHangs

\* No way out of a statement keeps its connection, and the pool is never
\* overdrawn.
NoConnectionLeaks ==
  /\ held = {r \in Requests : thread[r] = "reading"}
  /\ Cardinality(held) <= MaxConns

\* A request that finds the pool empty is answered, although the database hangs
\* under all those that hold a connection.
WaiterIsAnswered ==
  \A r \in Requests :
    thread[r] = "waiting" /\ Cardinality(held) = MaxConns /\ [](db = "hung")
      ~> thread[r] \in Over

=============================================================================
