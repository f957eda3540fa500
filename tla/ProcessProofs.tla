--------------------------- MODULE ProcessProofs ---------------------------
(***************************************************************************)
(* Proofs about the processes: about the settings they run on (Deployment),*)
(* for any servers, any files and overrides an operator may come up with   *)
(* and any number of edits; and about the threads of the Java process      *)
(* (JavaServer), for any requests and any size of its pool.                *)
(***************************************************************************)
EXTENDS Deployment, JavaServer, FiniteSetTheorems, TLAPS

-----------------------------------------------------------------------------
(* The settings.                                                           *)

\* Whatever is edited afterwards, a Go process that is up runs on settings that
\* were validated.
GoIsValidated ==
  \A s \in GoServers : process[s] = "up" =>
    /\ settings[s].key # Empty
    /\ settings[s].ttl \in Int /\ settings[s].ttl > 0

Inv ==
  /\ file \in [Servers -> Files]
  /\ env \in [Servers -> Environments \cup {<<>>}]
  /\ process \in [Servers -> {"down", "up", "refused"}]
  /\ settings = [s \in Servers |-> settings[s]]
  /\ GoIsValidated
  /\ NoForgeableToken
  /\ PositionsExpire

\* A configuration that loads is one a process can serve with.
LEMMA LoadedIsServable ==
  ASSUME Inv, NEW s \in GoServers, Starts(s)
  PROVE  LET c == Zero(Merge(file[s], env[s])) IN
         /\ c.key # Empty
         /\ c.ttl \in Int /\ c.ttl > 0
<1>. DEFINE read == Merge(file[s], env[s])
            c    == Zero(read)
<1>1. Parses(read) /\ Valid(c)
  BY DEF Starts, Loads, Lang
<1>2. c.ttl \in Int
  <2>1. "ttl" \in Names \ Texts
    BY DEF Names, Texts
  <2>2. file[s] \in Files /\ env[s] \in Environments \cup {<<>>}
    BY DEF Inv, Servers
  <2>3. read["ttl"] = IF "ttl" \in DOMAIN env[s] THEN env[s]["ttl"]
                      ELSE file[s]["ttl"]
    BY <2>1 DEF Merge
  <2>4. read["ttl"] \in Int \cup {Missing, Malformed}
    <3>1. CASE "ttl" \in DOMAIN env[s]
      <4>1. env[s] \in Environments
        BY <2>2, <3>1
      <4>. QED
        BY <2>1, <2>3, <3>1, <4>1, DeploymentAssumption
    <3>2. CASE "ttl" \notin DOMAIN env[s]
      <4>1. "ttl" \in DOMAIN file[s]
        BY <2>1, <2>2, DeploymentAssumption
      <4>. QED
        BY <2>1, <2>2, <2>3, <3>2, <4>1, DeploymentAssumption
    <3>. QED
      BY <3>1, <3>2
  <2>5. read["ttl"] # Malformed
    BY <1>1, <2>1 DEF Parses
  <2>6. c["ttl"] = IF read["ttl"] # Missing THEN read["ttl"] ELSE 0
    BY <2>1 DEF Zero
  <2>. QED
    BY <2>4, <2>5, <2>6
<1>. QED
  BY <1>1, <1>2 DEF Valid

LEMMA DeploymentStep == Inv /\ [Next]_vars => Inv'
<1>. SUFFICES ASSUME Inv, [Next]_vars PROVE Inv'
  OBVIOUS
<1>. USE DEF Inv, NoForgeableToken, PositionsExpire
<1>1. ASSUME NEW s \in Servers, Edit(s) PROVE Inv'
  BY <1>1 DEF Edit, GoIsValidated, walks
<1>2. ASSUME NEW s \in Servers, Start(s) PROVE Inv'
  <2>1. GoIsValidated'
    <3>. SUFFICES ASSUME NEW t \in GoServers, process'[t] = "up"
                  PROVE  /\ settings'[t].key # Empty
                         /\ settings'[t].ttl \in Int /\ settings'[t].ttl > 0
      BY DEF GoIsValidated
    <3>1. CASE t = s
      <4>1. Starts(s) /\ settings'[s] = Zero(Merge(file[s], env[s]))
        BY <1>2, <3>1 DEF Start, Lang
      <4>. QED
        BY <3>1, <4>1, LoadedIsServable
    <3>2. CASE t # s
      BY <1>2, <3>2 DEF Start, GoIsValidated, Servers
    <3>. QED
      BY <3>1, <3>2
  <2>. QED
    BY <1>2, <2>1 DEF Start, sources, walks
<1>3. ASSUME NEW s \in Servers, SignPage(s) PROVE Inv'
  <2>1. settings[s].key # Empty
    BY <1>3 DEF SignPage, Serving, Lang, GoIsValidated
  <2>2. \A x \in tokens' : x.key # Empty
    BY <1>3, <2>1 DEF SignPage
  <2>. QED
    BY <1>3, <2>2 DEF SignPage, sources, GoIsValidated
<1>4. ASSUME NEW s \in Servers, NEW x \in tokens, ResumeWalk(s, x) PROVE Inv'
  <2>. DEFINE age == now - x.at
              ttl == settings[s].ttl
  <2>1. age <= ttl
    <3>1. process[s] = "up" /\ Fresh(Lang(s), age, ttl)
      BY <1>4 DEF ResumeWalk, Serving
    <3>2. CASE s \in GoServers
      BY <3>1, <3>2 DEF Fresh, Lang, GoIsValidated
    <3>3. CASE s \notin GoServers
      BY <3>1, <3>3 DEF Fresh, Lang
    <3>. QED
      BY <3>2, <3>3
  <2>2. resumed' = resumed \cup {[age |-> age, ttl |-> ttl]}
    BY <1>4 DEF ResumeWalk
  <2>. HIDE DEF age, ttl
  <2>3. \A y \in resumed' : y.age <= y.ttl
    BY <2>1, <2>2
  <2>. QED
    BY <1>4, <2>3 DEF ResumeWalk, sources, GoIsValidated
<1>5. ASSUME NEW s \in Servers, Stop(s) PROVE Inv'
  BY <1>5 DEF Stop, sources, walks, GoIsValidated, Servers
<1>6. CASE Tick \/ UNCHANGED vars
  BY <1>6 DEF Tick, vars, sources, GoIsValidated
<1>. QED
  BY <1>1, <1>2, <1>3, <1>4, <1>5, <1>6 DEF Next

LEMMA DeploymentSafe == Spec => []Inv
<1>1. Init => Inv
  BY DEF Init, Inv, GoIsValidated, NoForgeableToken, PositionsExpire, Servers
<1>. QED
  BY <1>1, DeploymentStep, PTL DEF Spec

\* No token is ever signed with the empty key, whatever is committed or set in
\* the environment, before, between or during the lives of the processes.
THEOREM NoTokenIsForgeable == Spec => []NoForgeableToken
<1>1. Inv => NoForgeableToken
  BY DEF Inv
<1>. QED
  BY <1>1, DeploymentSafe, PTL

\* No process ever resumes a position older than the duration it runs with,
\* whichever process signed it and whatever was edited since: no Go process is
\* up on a duration under which the check of a token is skipped.
THEOREM NoPositionLivesForEver == Spec => []PositionsExpire
<1>1. Inv => PositionsExpire
  BY DEF Inv
<1>. QED
  BY <1>1, DeploymentSafe, PTL

-----------------------------------------------------------------------------
(* The threads of the Java process.  The pool is finite and holds what is  *)
(* being read, so an acquisition adds one connection to it and every way   *)
(* out of a statement takes one away.                                      *)

PoolInv == TypeOK /\ IsFiniteSet(held) /\ NoConnectionLeaks

LEMMA ThreadsInit == JavaInit => PoolInv
<1>. SUFFICES ASSUME JavaInit PROVE PoolInv
  OBVIOUS
<1>1. TypeOK
  BY JavaAssumption DEF JavaInit, TypeOK
<1>2. held = {} /\ IsFiniteSet(held) /\ Cardinality(held) = 0
  BY FS_EmptySet DEF JavaInit
<1>3. Cardinality(held) <= MaxConns
  BY <1>2, JavaAssumption
<1>. QED
  BY <1>1, <1>2, <1>3 DEF PoolInv, JavaInit, NoConnectionLeaks

LEMMA ThreadsType ==
  ASSUME TypeOK, [JavaNext]_javaVars
  PROVE  TypeOK'
<1>. USE DEF TypeOK
<1>1. CASE DbHangs \/ DbRecovers
  BY <1>1, JavaAssumption DEF DbHangs, DbRecovers
<1>2. ASSUME NEW r \in Requests, Accept(r) \/ Serve(r) PROVE TypeOK'
  BY <1>2 DEF Accept, Serve, Acquire, AcquireFails, RowsArrive, StatementFails,
              Move, Failure, Over
<1>3. CASE UNCHANGED javaVars
  BY <1>3 DEF javaVars
<1>. QED
  BY <1>1, <1>2, <1>3 DEF JavaNext

LEMMA AcquisitionKeepsPool ==
  ASSUME PoolInv, NEW r \in Requests, Acquire(r)
  PROVE  IsFiniteSet(held)' /\ NoConnectionLeaks'
<1>1. held' = held \cup {r} /\ Cardinality(held) < MaxConns
  BY DEF Acquire
<1>2. r \notin held
  BY DEF Acquire, PoolInv, NoConnectionLeaks
<1>3. IsFiniteSet(held') /\ Cardinality(held') = Cardinality(held) + 1
  BY <1>1, <1>2, FS_AddElement DEF PoolInv
<1>4. Cardinality(held) \in Nat
  BY FS_CardinalityType DEF PoolInv
<1>5. Cardinality(held') <= MaxConns
  BY <1>1, <1>3, <1>4, JavaAssumption
<1>6. held' = {q \in Requests : thread'[q] = "reading"}
  BY <1>1 DEF Acquire, Move, PoolInv, NoConnectionLeaks, TypeOK
<1>. QED
  BY <1>3, <1>5, <1>6 DEF NoConnectionLeaks

LEMMA EndOfStatementKeepsPool ==
  ASSUME PoolInv, NEW r \in Requests, NEW to \in Over,
         held' = held \ {r}, Move(r, to)
  PROVE  IsFiniteSet(held)' /\ NoConnectionLeaks'
<1>1. IsFiniteSet(held') /\ Cardinality(held') <= Cardinality(held)
  BY FS_Subset DEF PoolInv
<1>2. Cardinality(held') \in Nat /\ Cardinality(held) \in Nat
  BY <1>1, FS_CardinalityType DEF PoolInv
<1>3. held' = {q \in Requests : thread'[q] = "reading"}
  BY DEF Move, Over, PoolInv, NoConnectionLeaks, TypeOK
<1>. QED
  BY <1>1, <1>2, <1>3, JavaAssumption DEF PoolInv, NoConnectionLeaks

LEMMA ThreadsPool ==
  ASSUME PoolInv, [JavaNext]_javaVars
  PROVE  IsFiniteSet(held)' /\ NoConnectionLeaks'
<1>1. ASSUME NEW r \in Requests, RowsArrive(r) \/ StatementFails(r)
      PROVE  IsFiniteSet(held)' /\ NoConnectionLeaks'
  <2>1. held' = held \ {r} /\ (Move(r, "200") \/ Move(r, Failure(r)))
    BY <1>1 DEF RowsArrive, StatementFails
  <2>2. "200" \in Over /\ Failure(r) \in Over
    BY DEF Over, Failure
  <2>. QED
    BY <2>1, <2>2, EndOfStatementKeepsPool
<1>2. ASSUME NEW r \in Requests, Accept(r) \/ AcquireFails(r)
      PROVE  IsFiniteSet(held)' /\ NoConnectionLeaks'
  <2>1. held' = held
    BY <1>2 DEF Accept, AcquireFails
  <2>2. \A q \in Requests : thread'[q] = "reading" <=> thread[q] = "reading"
    BY <1>2 DEF Accept, AcquireFails, Move, Failure, PoolInv, TypeOK
  <2>. QED
    BY <2>1, <2>2 DEF PoolInv, NoConnectionLeaks
<1>3. CASE DbHangs \/ DbRecovers \/ UNCHANGED javaVars
  BY <1>3 DEF DbHangs, DbRecovers, javaVars, PoolInv, NoConnectionLeaks
<1>. QED
  BY <1>1, <1>2, <1>3, AcquisitionKeepsPool DEF JavaNext, Serve

LEMMA ThreadsSafe == JavaSpec => []PoolInv
<1>1. PoolInv /\ [JavaNext]_javaVars => PoolInv'
  BY ThreadsType, ThreadsPool DEF PoolInv
<1>. QED
  BY <1>1, ThreadsInit, PTL DEF JavaSpec

\* A request of the Java process ends with a status of its kind: a page or a
\* total never with 503, a health check never with 500.
THEOREM StatusFitsEndpoint == JavaSpec => []TypeOK
<1>1. PoolInv => TypeOK
  BY DEF PoolInv
<1>. QED
  BY <1>1, ThreadsSafe, PTL

\* Whichever way a statement of the Java process ends, its connection is back
\* in the pool, and the pool is never overdrawn.
THEOREM JavaConnectionsComeBack == JavaSpec => []NoConnectionLeaks
<1>1. PoolInv => NoConnectionLeaks
  BY DEF PoolInv
<1>. QED
  BY <1>1, ThreadsSafe, PTL

=============================================================================
