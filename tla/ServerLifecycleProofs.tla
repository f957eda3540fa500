----------------------- MODULE ServerLifecycleProofs -----------------------
(***************************************************************************)
(* Proofs about ServerLifecycle, for any requests, any size of the pool    *)
(* and any number of hangs of the database.                                *)
(***************************************************************************)
EXTENDS ServerLifecycle, FiniteSetTheorems, TLAPS

Inv ==
  /\ IsFiniteSet(held)
  /\ NoConnectionLeaks
  /\ LifecycleInvariant
  /\ CleanShutdownServesAll

-----------------------------------------------------------------------------
(* Types.                                                                  *)

LEMMA TypeStep == TypeOK /\ [Next]_vars => TypeOK'
<1>. SUFFICES ASSUME TypeOK, [Next]_vars PROVE TypeOK'
  OBVIOUS
<1>. USE DEF TypeOK, main, serve, world, request
<1>1. CASE Signal \/ DbRecovers \/ UNCHANGED vars
  BY <1>1 DEF Signal, DbRecovers, vars
<1>2. CASE DbHangs
  BY <1>2, LifecycleAssumption DEF DbHangs
<1>3. CASE \E r \in Requests : ClientLeaves(r)
  BY <1>3 DEF ClientLeaves, InFlight
<1>4. CASE Connect \/ ConnectFails \/ ListenerStopped \/ BeginShutdown
  BY <1>4 DEF Connect, ConnectFails, ListenerStopped, BeginShutdown
<1>5. CASE Drained \/ GraceOver \/ AwaitListener \/ ClosePool
  BY <1>5 DEF Drained, GraceOver, AwaitListener, ClosePool
<1>6. CASE Exit
  BY <1>6 DEF Exit
<1>7. CASE Listen \/ ListenerClosed \/ ListenFails
  BY <1>7 DEF Listen, ListenerClosed, ListenFails
<1>8. ASSUME NEW r \in Requests, Accept(r) \/ Handle(r) PROVE TypeOK'
  BY <1>8 DEF Accept, Handle, Acquire, PoolIsClosed, RowsArrive, QueryFails,
              RowsRead, ScanFails, Cancelled, Move, Release
<1>. QED
  BY <1>1, <1>2, <1>3, <1>4, <1>5, <1>6, <1>7, <1>8 DEF Next, Run

LEMMA TypeInit == Init => TypeOK
<1>. SUFFICES ASSUME Init PROVE TypeOK
  OBVIOUS
<1>1. handler \in [Requests -> {"new", "accepted", "querying", "reading",
                               "answered", "failed", "cut"}]
  BY DEF Init
<1>2. hangs \in 0 .. MaxHangs
  BY LifecycleAssumption DEF Init
<1>3. /\ phase = "connecting" /\ exit = "none" /\ listener = "none"
      /\ errCh = "none" /\ db = "up"
      /\ signalled = FALSE /\ closed = FALSE
      /\ held = {} /\ gone = {}
  BY DEF Init
<1>. QED
  BY <1>1, <1>2, <1>3 DEF TypeOK

\* Every state of every run of the process is well typed.
THEOREM TypeCorrect == Spec => []TypeOK
  BY TypeInit, TypeStep, PTL DEF Spec

-----------------------------------------------------------------------------
(* The pool.                                                               *)

\* Where a request may be, as far as the pool is concerned.
Holding(r) == handler[r] \in {"querying", "reading"}

\* A step that gives back what r holds, if anything, and moves it to a place
\* where it holds nothing.
LEMMA ReleaseKeepsPool ==
  ASSUME TypeOK, IsFiniteSet(held), NoConnectionLeaks,
         NEW r \in Requests, NEW to \in {"failed", "answered"},
         Release(r), Move(r, to)
  PROVE  IsFiniteSet(held)' /\ NoConnectionLeaks'
<1>1. held' \in SUBSET held
  BY DEF Release
<1>2. IsFiniteSet(held') /\ Cardinality(held') <= Cardinality(held)
  BY <1>1, FS_Subset
<1>3. Cardinality(held') \in Nat /\ Cardinality(held) \in Nat
  BY <1>2, FS_CardinalityType
<1>4. held' = {q \in Requests : handler'[q] \in {"querying", "reading"}}
  BY DEF Release, Move, NoConnectionLeaks, TypeOK
<1>5. Cardinality(held') <= MaxConns
  BY <1>2, <1>3, LifecycleAssumption DEF NoConnectionLeaks
<1>. QED
  BY <1>2, <1>4, <1>5 DEF NoConnectionLeaks

\* A step that moves r between two places where it holds the same.
LEMMA MoveKeepsPool ==
  ASSUME TypeOK, IsFiniteSet(held), NoConnectionLeaks,
         NEW r \in Requests, NEW to, UNCHANGED held, Move(r, to),
         Holding(r) <=> to \in {"querying", "reading"}
  PROVE  IsFiniteSet(held)' /\ NoConnectionLeaks'
<1>1. {q \in Requests : handler'[q] \in {"querying", "reading"}}
        = {q \in Requests : handler[q] \in {"querying", "reading"}}
  BY DEF Move, TypeOK, Holding
<1>. QED
  BY <1>1 DEF NoConnectionLeaks

LEMMA AcquireKeepsPool ==
  ASSUME TypeOK, IsFiniteSet(held), NoConnectionLeaks,
         NEW r \in Requests, Acquire(r)
  PROVE  IsFiniteSet(held)' /\ NoConnectionLeaks'
<1>1. held' = held \cup {r} /\ Cardinality(held) < MaxConns
  BY DEF Acquire
<1>2. r \notin held
  BY DEF Acquire, NoConnectionLeaks
<1>3. /\ IsFiniteSet(held')
      /\ Cardinality(held') = Cardinality(held) + 1
  BY <1>1, <1>2, FS_AddElement
<1>4. Cardinality(held) \in Nat
  BY FS_CardinalityType
<1>5. Cardinality(held') <= MaxConns
  BY <1>1, <1>3, <1>4, LifecycleAssumption
<1>6. held' = {q \in Requests : handler'[q] \in {"querying", "reading"}}
  BY <1>1 DEF Acquire, Move, NoConnectionLeaks, TypeOK
<1>. QED
  BY <1>3, <1>5, <1>6 DEF NoConnectionLeaks

LEMMA HandlerKeepsPool ==
  ASSUME TypeOK, IsFiniteSet(held), NoConnectionLeaks,
         NEW r \in Requests, Accept(r) \/ Handle(r)
  PROVE  IsFiniteSet(held)' /\ NoConnectionLeaks'
<1>1. CASE Acquire(r)
  BY <1>1, AcquireKeepsPool
<1>2. CASE QueryFails(r) \/ RowsRead(r) \/ ScanFails(r) \/ Cancelled(r)
  <2>1. Release(r) /\ (Move(r, "failed") \/ Move(r, "answered"))
    BY <1>2 DEF QueryFails, RowsRead, ScanFails, Cancelled
  <2>. QED
    BY <2>1, ReleaseKeepsPool
<1>3. CASE Accept(r)
  BY <1>3, MoveKeepsPool DEF Accept, Holding
<1>4. CASE PoolIsClosed(r)
  BY <1>4, MoveKeepsPool DEF PoolIsClosed, Holding
<1>5. CASE RowsArrive(r)
  BY <1>5, MoveKeepsPool DEF RowsArrive, Holding
<1>. QED
  BY <1>1, <1>2, <1>3, <1>4, <1>5 DEF Handle

LEMMA PoolStep ==
  TypeOK /\ IsFiniteSet(held) /\ NoConnectionLeaks /\ [Next]_vars
    => IsFiniteSet(held)' /\ NoConnectionLeaks'
<1>. SUFFICES ASSUME TypeOK, IsFiniteSet(held), NoConnectionLeaks, [Next]_vars
              PROVE  IsFiniteSet(held)' /\ NoConnectionLeaks'
  OBVIOUS
<1>1. CASE UNCHANGED request
  BY <1>1 DEF request, NoConnectionLeaks
<1>2. CASE Exit
  <2>1. held = {} /\ held' = {}
    BY <1>2 DEF Exit
  <2>2. \A r \in Requests : handler'[r] \notin {"querying", "reading"}
    BY <1>2, <2>1 DEF Exit, InFlight, NoConnectionLeaks
  <2>. QED
    BY <2>1, <2>2 DEF NoConnectionLeaks
<1>3. ASSUME NEW r \in Requests, Accept(r) \/ Handle(r)
      PROVE  IsFiniteSet(held)' /\ NoConnectionLeaks'
  BY <1>3, HandlerKeepsPool
<1>4. \/ UNCHANGED request \/ Exit
      \/ \E r \in Requests : Accept(r) \/ Handle(r)
  BY DEF Next, Run, Signal, ClientLeaves, DbHangs, DbRecovers, Connect,
         ConnectFails, ListenerStopped, BeginShutdown, Drained, GraceOver,
         AwaitListener, ClosePool, Listen, ListenerClosed, ListenFails,
         request, vars
<1>. QED
  BY <1>1, <1>2, <1>3, <1>4

LEMMA PoolInit == Init => IsFiniteSet(held) /\ NoConnectionLeaks
<1>. SUFFICES ASSUME Init PROVE IsFiniteSet(held) /\ NoConnectionLeaks
  OBVIOUS
<1>1. held = {} /\ IsFiniteSet(held) /\ Cardinality(held) = 0
  BY FS_EmptySet DEF Init
<1>. QED
  BY <1>1, LifecycleAssumption DEF Init, NoConnectionLeaks

\* transactions.go, query: whichever way a handler ends, its connection is back
\* in the pool, and the pool is never overdrawn.
THEOREM ConnectionsComeBack == Spec => []NoConnectionLeaks
  BY TypeInit, PoolInit, TypeStep, PoolStep, PTL DEF Spec

-----------------------------------------------------------------------------
(* The shutdown.                                                           *)

\* The invariant but for its types.
Stages == StagesInOrder /\ SuccessMeansShutdown

LEMMA StagesStep ==
  TypeOK /\ Stages /\ [Next]_vars => Stages'
<1>. SUFFICES ASSUME TypeOK, Stages, [Next]_vars
              PROVE  Stages'
  OBVIOUS
<1>. USE DEF Stages, StagesInOrder, SuccessMeansShutdown,
             InShutdown, InFlight, TypeOK, main, serve, world, request
<1>1. CASE Signal \/ DbHangs \/ DbRecovers \/ UNCHANGED vars
  BY <1>1 DEF Signal, DbHangs, DbRecovers, vars
<1>2. CASE \E r \in Requests : ClientLeaves(r)
  BY <1>2 DEF ClientLeaves
<1>3. CASE Connect \/ ConnectFails
  BY <1>3 DEF Connect, ConnectFails
<1>4. CASE ListenerStopped \/ BeginShutdown
  BY <1>4 DEF ListenerStopped, BeginShutdown
<1>5. CASE Drained \/ GraceOver
  BY <1>5 DEF Drained, GraceOver
<1>6. CASE AwaitListener \/ ClosePool
  BY <1>6 DEF AwaitListener, ClosePool
<1>7. CASE Exit
  BY <1>7 DEF Exit
<1>8. CASE Listen \/ ListenerClosed \/ ListenFails
  BY <1>8 DEF Listen, ListenerClosed, ListenFails
<1>9. ASSUME NEW r \in Requests, Accept(r) \/ Handle(r)
      PROVE  Stages'
  <2>1. /\ UNCHANGED <<phase, exit, signalled, listener, errCh>>
        /\ \E to \in {"accepted", "querying", "reading", "answered", "failed"} :
             Move(r, to)
        /\ Accept(r) => ~InShutdown
        /\ Handle(r) => r \in InFlight
    BY <1>9 DEF Accept, Handle, Acquire, PoolIsClosed, RowsArrive, QueryFails,
                RowsRead, ScanFails, Cancelled
  <2>2. phase # "awaiting"
    BY <1>9, <2>1
  <2>3. \A q \in Requests : handler[q] # "cut" => handler'[q] # "cut"
    BY <2>1 DEF Move
  <2>. QED
    BY <2>1, <2>2, <2>3
<1>. QED
  BY <1>1, <1>2, <1>3, <1>4, <1>5, <1>6, <1>7, <1>8, <1>9 DEF Next, Run

\* Once run has returned success, nobody is in flight and nobody gets in.
LEMMA CleanStep ==
  TypeOK /\ Stages /\ CleanShutdownServesAll /\ [Next]_vars
    => CleanShutdownServesAll'
<1>. SUFFICES ASSUME TypeOK, Stages, CleanShutdownServesAll,
                     [Next]_vars, exit' = "ok"
              PROVE  /\ signalled'
                     /\ InFlight' = {}
                     /\ \A r \in Requests : handler'[r] # "cut"
  BY DEF CleanShutdownServesAll
<1>. USE DEF Stages, StagesInOrder, SuccessMeansShutdown, InShutdown, InFlight, TypeOK, main, serve, world, request,
             CleanShutdownServesAll
<1>1. CASE Signal \/ DbHangs \/ DbRecovers \/ UNCHANGED vars
  BY <1>1 DEF Signal, DbHangs, DbRecovers, vars
<1>2. CASE \E r \in Requests : ClientLeaves(r)
  BY <1>2 DEF ClientLeaves
<1>3. CASE Connect \/ ConnectFails
  BY <1>3 DEF Connect, ConnectFails
<1>4. CASE ListenerStopped \/ BeginShutdown
  BY <1>4 DEF ListenerStopped, BeginShutdown
<1>5. CASE Drained \/ GraceOver
  BY <1>5 DEF Drained, GraceOver
<1>6. CASE AwaitListener \/ ClosePool
  BY <1>6 DEF AwaitListener, ClosePool
<1>7. CASE Exit
  BY <1>7 DEF Exit
<1>8. CASE Listen \/ ListenerClosed \/ ListenFails
  BY <1>8 DEF Listen, ListenerClosed, ListenFails
<1>9. ASSUME NEW r \in Requests, Accept(r) \/ Handle(r) PROVE FALSE
  <2>1. /\ exit' = exit
        /\ Accept(r) => ~InShutdown
        /\ Handle(r) => r \in InFlight
    BY <1>9 DEF Accept, Handle, Acquire, PoolIsClosed, RowsArrive, QueryFails,
                RowsRead, ScanFails, Cancelled
  <2>. QED
    BY <1>9, <2>1
<1>. QED
  BY <1>1, <1>2, <1>3, <1>4, <1>5, <1>6, <1>7, <1>8, <1>9 DEF Next, Run

\* The inductive invariant of the process holds of every run.
THEOREM LifecycleSafe == Spec => []Inv
<1>1. Init => Inv
  <2>1. Init => Stages /\ CleanShutdownServesAll
    BY DEF Init, Stages, StagesInOrder, SuccessMeansShutdown,
           CleanShutdownServesAll
  <2>. QED
    BY <2>1, TypeInit, PoolInit DEF Inv, LifecycleInvariant, Stages
<1>2. Inv /\ [Next]_vars => Inv'
  BY TypeStep, PoolStep, StagesStep, CleanStep
     DEF Inv, LifecycleInvariant, Stages
<1>. QED
  BY <1>1, <1>2, PTL DEF Spec

\* main.go and http.go, Run: the stages of the process come in their order, and
\* it reports success only after a shutdown.
THEOREM StagesKeepTheirOrder == Spec => []LifecycleInvariant
<1>1. Inv => LifecycleInvariant
  BY DEF Inv
<1>. QED
  BY <1>1, LifecycleSafe, PTL

\* http.go, Run: a shutdown that returns nil has let every handler finish.
THEOREM CleanShutdownIsGraceful == Spec => []CleanShutdownServesAll
<1>1. Inv => CleanShutdownServesAll
  BY DEF Inv
<1>. QED
  BY <1>1, LifecycleSafe, PTL

-----------------------------------------------------------------------------
(* The refinement.                                                         *)

Served  == {r \in Requests : handler[r] \in {"answered", "failed"}}
Dropped == {r \in Requests : handler[r] = "cut"}

\* A request that is let in is handled from then on, and was not before.
LEMMA AcceptLetsIn ==
  ASSUME Inv, NEW r \in Requests, Accept(r)
  PROVE  Graceful!LetIn(r)
<1>1. /\ handler[r] = "new" /\ handler' = [handler EXCEPT ![r] = "accepted"]
      /\ handler \in [Requests -> {"new", "accepted", "querying", "reading",
                                   "answered", "failed", "cut"}]
      /\ UNCHANGED <<phase, exit, listener>>
  BY DEF Accept, Move, main, serve, Inv, LifecycleInvariant, TypeOK
<1>2. Gate = "open" /\ Gate' = Gate
  BY <1>1 DEF Accept, Gate, InShutdown
<1>3. r \notin InFlight \cup Served \cup Dropped
  BY <1>1 DEF InFlight, Served, Dropped
<1>4. /\ InFlight' = InFlight \cup {r}
      /\ Served' = Served /\ Dropped' = Dropped
  BY <1>1 DEF InFlight, Served, Dropped
<1>. QED
  BY <1>1, <1>2, <1>3, <1>4 DEF Graceful!LetIn, Served, Dropped

\* A step of a handler ends it, or nobody outside can tell.
LEMMA HandleServes ==
  ASSUME Inv, NEW r \in Requests, Handle(r)
  PROVE  Graceful!Serve(r) \/ UNCHANGED Graceful!service
<1>1. /\ handler[r] \in {"accepted", "querying", "reading"}
      /\ handler \in [Requests -> {"new", "accepted", "querying", "reading",
                                   "answered", "failed", "cut"}]
      /\ UNCHANGED <<phase, exit, listener>>
  BY DEF Handle, Acquire, PoolIsClosed, RowsArrive, QueryFails, RowsRead,
         ScanFails, Cancelled, main, serve, Inv, LifecycleInvariant, TypeOK
<1>2. Gate' = Gate
  BY <1>1 DEF Gate, InShutdown
<1>3. \E to \in {"querying", "reading", "answered", "failed"} : Move(r, to)
  BY DEF Handle, Acquire, PoolIsClosed, RowsArrive, QueryFails, RowsRead,
         ScanFails, Cancelled
<1>4. CASE Move(r, "querying") \/ Move(r, "reading")
  <2>1. InFlight' = InFlight /\ Served' = Served /\ Dropped' = Dropped
    BY <1>1, <1>4 DEF Move, InFlight, Served, Dropped
  <2>. QED
    BY <1>1, <1>2, <2>1 DEF Graceful!service, Served, Dropped
<1>5. CASE Move(r, "answered") \/ Move(r, "failed")
  <2>1. /\ r \in InFlight /\ InFlight' = InFlight \ {r}
        /\ Served' = Served \cup {r} /\ Dropped' = Dropped
    BY <1>1, <1>5 DEF Move, InFlight, Served, Dropped
  <2>. QED
    BY <1>1, <1>2, <2>1 DEF Graceful!Serve, Served, Dropped
<1>. QED
  BY <1>3, <1>4, <1>5

\* The end of the process drops whoever is in flight, of whom there is none
\* after a success.
LEMMA ExitDrops ==
  ASSUME Inv, Exit
  PROVE  Graceful!Drop \/ UNCHANGED Graceful!service
<1>1. /\ handler' = [r \in Requests |->
                       IF r \in InFlight THEN "cut" ELSE handler[r]]
      /\ phase = "closing" /\ phase' = "exited"
      /\ UNCHANGED <<exit, listener>>
  BY DEF Exit, serve
<1>2. exit # "none" /\ exit \in {"none", "ok", "error"}
  BY <1>1 DEF Inv, LifecycleInvariant, StagesInOrder, TypeOK
<1>3. Gate' = Gate
  BY <1>1, <1>2 DEF Gate, InShutdown
<1>4. /\ InFlight' = {}
      /\ Served' = Served
      /\ Dropped' = Dropped \cup InFlight
  BY <1>1 DEF InFlight, Served, Dropped
<1>5. exit = "ok" => InFlight = {}
  BY DEF Inv, CleanShutdownServesAll
<1>6. CASE exit = "error"
  BY <1>1, <1>3, <1>4, <1>6 DEF Graceful!Drop, Served, Dropped
<1>7. CASE exit = "ok"
  BY <1>1, <1>3, <1>4, <1>5, <1>7 DEF Graceful!service, Served, Dropped
<1>. QED
  BY <1>2, <1>6, <1>7

\* Every step of the process is one of the service, or one nobody outside can
\* tell.
LEMMA ServiceStep == Inv /\ [Next]_vars => [Graceful!Next]_(Graceful!service)
<1>. SUFFICES ASSUME Inv, [Next]_vars
              PROVE  [Graceful!Next]_(Graceful!service)
  OBVIOUS
<1>. DEFINE idle == UNCHANGED <<InFlight, Served, Dropped>>
<1>1. handler' = handler => idle
  BY DEF InFlight, Served, Dropped
<1>2. idle /\ exit' = exit /\ Gate' = Gate => UNCHANGED Graceful!service
  BY DEF Graceful!service, Served, Dropped
<1>3. idle /\ exit' = exit /\ Gate' = "shut" => Graceful!Shut
  BY DEF Graceful!Shut, Served, Dropped
<1>4. idle /\ exit' = exit /\ Gate = "new" /\ Gate' = "open" => Graceful!Open
  BY DEF Graceful!Open, Served, Dropped
<1>5. idle /\ exit = "none" /\ exit' = "error" /\ Gate' = "shut" => Graceful!Fail
  BY DEF Graceful!Fail, Served, Dropped
<1>6. /\ idle /\ InFlight = {} /\ exit = "none" /\ exit' = "ok"
      /\ Gate = "shut" /\ Gate' = "shut"
      => Graceful!Succeed
  BY DEF Graceful!Succeed, Served, Dropped
<1>7. /\ phase \in {"closing", "exited"} <=> exit # "none"
      /\ phase = "awaiting" => InFlight = {}
      /\ phase = "connecting" => listener = "none"
      /\ errCh \in {"none", "ok", "error"}
      /\ errCh = "ok" => InShutdown
  BY DEF Inv, LifecycleInvariant, StagesInOrder, SuccessMeansShutdown, TypeOK
<1>. HIDE DEF idle
<1>. USE DEF main, serve, world, request
<1>8. CASE \/ Signal \/ DbHangs \/ DbRecovers
           \/ \E r \in Requests : ClientLeaves(r)
           \/ UNCHANGED vars
  <2>1. UNCHANGED <<phase, exit, listener, handler>>
    BY <1>8 DEF Signal, DbHangs, DbRecovers, ClientLeaves, vars
  <2>. QED
    BY <1>1, <1>2, <2>1 DEF Gate, InShutdown
<1>9. CASE Connect \/ Drained \/ ClosePool
  <2>1. handler' = handler /\ exit' = exit /\ Gate' = Gate
    BY <1>7, <1>9 DEF Connect, Drained, ClosePool, Gate, InShutdown
  <2>. QED
    BY <1>1, <1>2, <2>1
<1>10. CASE ConnectFails \/ GraceOver
  <2>1. handler' = handler /\ exit = "none" /\ exit' = "error" /\ Gate' = "shut"
    BY <1>7, <1>10 DEF ConnectFails, GraceOver, Gate, InShutdown
  <2>. QED
    BY <1>1, <1>5, <2>1 DEF Graceful!Next
<1>11. CASE ListenerStopped \/ AwaitListener
  <2>1. handler' = handler /\ exit = "none" /\ exit' = errCh /\ Gate' = "shut"
    BY <1>7, <1>11 DEF ListenerStopped, AwaitListener, Gate, InShutdown
  <2>2. CASE errCh = "error"
    BY <1>1, <1>5, <2>1, <2>2 DEF Graceful!Next
  <2>3. CASE errCh = "ok"
    <3>1. InFlight = {} /\ Gate = "shut"
      BY <1>7, <1>11, <2>1, <2>3
         DEF ListenerStopped, AwaitListener, Gate, InShutdown
    <3>. QED
      BY <1>1, <1>6, <2>1, <2>3, <3>1 DEF Graceful!Next
  <2>. QED
    BY <1>7, <1>11, <2>2, <2>3 DEF ListenerStopped, AwaitListener
<1>12. CASE BeginShutdown \/ ListenFails
  <2>1. handler' = handler /\ exit' = exit /\ Gate' = "shut"
    BY <1>12 DEF BeginShutdown, ListenFails, Gate, InShutdown
  <2>. QED
    BY <1>1, <1>3, <2>1 DEF Graceful!Next
<1>13. CASE ListenerClosed
  <2>1. handler' = handler /\ exit' = exit /\ Gate' = Gate
    BY <1>13 DEF ListenerClosed, Gate, InShutdown
  <2>. QED
    BY <1>1, <1>2, <2>1
<1>14. CASE Listen
  <2>1. handler' = handler /\ exit' = exit /\ Gate = "new" /\ Gate' = "open"
    BY <1>14 DEF Listen, Gate, InShutdown
  <2>. QED
    BY <1>1, <1>4, <2>1 DEF Graceful!Next
<1>15. CASE Exit
  BY <1>15, ExitDrops DEF Graceful!Next
<1>16. ASSUME NEW r \in Requests, Accept(r) \/ Handle(r)
       PROVE  [Graceful!Next]_(Graceful!service)
  BY <1>16, AcceptLetsIn, HandleServes DEF Graceful!Next
<1>. QED
  BY <1>8, <1>9, <1>10, <1>11, <1>12, <1>13, <1>14, <1>15, <1>16 DEF Next, Run

\* main.go and http.go: whatever happens to its goroutines, its pool and its
\* database, the process is a graceful service.
THEOREM ProcessIsGraceful == Spec => KeepsService
<1>1. Init => Graceful!Init
  BY DEF Init, Graceful!Init, Gate, InShutdown, InFlight
<1>. QED
  BY <1>1, ServiceStep, LifecycleSafe, PTL
     DEF Spec, KeepsService, Graceful!Spec

=============================================================================
