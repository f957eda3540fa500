---------------------------- MODULE TotalsProofs ----------------------------
(***************************************************************************)
(* What a total may say, for a table of any size and statistics of any age.*)
(* The invariant is TotalsInvariant: both properties speak of the moments  *)
(* since the request was sent, and the moment at which the statement runs  *)
(* is one of them.                                                         *)
(***************************************************************************)
EXTENDS Totals, TLAPS

\* What a statement reads now is right about now: an estimate that the planner
\* has is as far off as its statistics.
LEMMA TotalIsRight ==
  ASSUME NEW t \in Table, Known(t) => Within(t.reltuples, t)
  PROVE  /\ Total(t, TRUE) = t.count
         /\ IF Known(t) THEN Within(Total(t, FALSE), t) ELSE Total(t, FALSE) = 0
         /\ \A exact \in BOOLEAN : Total(t, exact) \in Nat
  BY DEF Table, Known, Total, Estimate

\* A write moves the rows and the churn together.
LEMMA WriteKeepsStatistics ==
  ASSUME TypeOK, NEW count, NEW written \in Nat, Write(count, written),
         count - table.count \in -written .. written,
         Known(table) => Within(table.reltuples, table)
  PROVE  /\ table' \in Table
         /\ Known(table') => Within(table'.reltuples, table')
<1>1. /\ table \in Table /\ table' = [table EXCEPT !.count = count, !.churn = @ + written]
      /\ count \in 0 .. MaxRows /\ table.churn + written <= MaxChurn
  BY DEF TypeOK, Write, Becomes
<1>2. table' = [count |-> count, reltuples |-> table.reltuples,
                churn |-> table.churn + written]
  BY <1>1 DEF Table
<1>3. table.churn + written \in 0 .. MaxChurn
  BY <1>1, TotalsAssumption DEF Table
<1>4. table' \in Table
  BY <1>1, <1>2, <1>3 DEF Table
<1>. QED
  BY <1>1, <1>2, <1>4, TotalsAssumption DEF Table, Known, Within

\* Statistics that were just taken are off by their sample at most.
LEMMA AnalyzeIsFresh ==
  ASSUME TypeOK, NEW n, Analyze(n)
  PROVE  table' \in Table /\ Within(table'.reltuples, table')
<1>1. /\ table \in Table /\ table' = [table EXCEPT !.reltuples = n, !.churn = 0]
      /\ n \in 0 .. MaxRows
      /\ n - table.count \in -SampleError .. SampleError
  BY DEF TypeOK, Analyze, Becomes
<1>2. table' = [count |-> table.count, reltuples |-> n, churn |-> 0]
  BY <1>1 DEF Table
<1>3. table' \in Table
  BY <1>1, <1>2, TotalsAssumption DEF Table
<1>. QED
  BY <1>1, <1>2, <1>3, TotalsAssumption DEF Table, Within

\* A moment that is added to the history takes nothing from an answer.
LEMMA MomentIsAdded ==
  ASSUME TotalsInvariant, Becomes(table'),
         table' \in Table, Known(table') => Within(table'.reltuples, table'),
         seeding' \in {"no", "truncated", "filled"}
  PROVE  TotalsInvariant'
<1>1. /\ request' = request /\ answer' = answer
      /\ since' = IF request = {} THEN since ELSE since \cup {table'}
  BY DEF Becomes
<1>2. TypeOK'
  BY <1>1 DEF TypeOK, TotalsInvariant
<1>3. since \subseteq since' /\ since' \subseteq since \cup {table'}
  BY <1>1
<1>4. \A t \in since' \cup {table'} : Known(t) => Within(t.reltuples, t)
  BY <1>3 DEF TotalsInvariant
<1>5. (request' # {} => table' \in since') /\ (answer' # {} => request' # {})
  BY <1>1 DEF TotalsInvariant
<1>6. ExactIsCurrent'
  BY <1>1, <1>3 DEF TotalsInvariant, ExactIsCurrent
<1>7. EstimateLags'
  BY <1>1, <1>3 DEF TotalsInvariant, EstimateLags
<1>. QED
  BY <1>2, <1>4, <1>5, <1>6, <1>7 DEF TotalsInvariant

\* An answer is right about the moment its statement ran.
LEMMA ResponseIsRight ==
  ASSUME TotalsInvariant, NEW exact \in request,
         NEW status \in {"ok", "internal_error"},
         NEW estimate \in Nat, Respond(status, exact, estimate),
         status = "ok" => estimate = Total(table, exact)
  PROVE  TotalsInvariant'
<1>. DEFINE a == [status |-> status, exact |-> exact, estimate |-> estimate]
<1>1. /\ answer' = {a}
      /\ UNCHANGED <<table, seeding, request, since>>
      /\ exact \in BOOLEAN /\ table \in Table /\ table \in since
      /\ Known(table) => Within(table.reltuples, table)
  BY DEF Respond, TypeOK, TotalsInvariant
<1>2. TypeOK'
  BY <1>1 DEF TypeOK, TotalsInvariant
<1>. HIDE DEF a
<1>3. a.status = status /\ a.exact = exact /\ a.estimate = estimate
  BY DEF a
<1>4. Total(table, TRUE) = table.count
  BY <1>1, TotalIsRight
<1>5. IF Known(table) THEN Within(Total(table, FALSE), table)
      ELSE Total(table, FALSE) = 0
  BY <1>1, TotalIsRight
<1>6. ExactIsCurrent'
  BY <1>1, <1>3, <1>4 DEF ExactIsCurrent
<1>7. EstimateLags'
  BY <1>1, <1>3, <1>5 DEF EstimateLags
<1>. QED
  BY <1>1, <1>2, <1>6, <1>7 DEF TotalsInvariant

LEMMA InitTotals == Init => TotalsInvariant
<1>. SUFFICES ASSUME Init PROVE TotalsInvariant
  OBVIOUS
<1>1. table \in Table /\ ~Known(table)
  BY TotalsAssumption DEF Init, Table, Known
<1>. QED
  BY <1>1 DEF Init, TypeOK, TotalsInvariant, ExactIsCurrent, EstimateLags

LEMMA NextTotals ==
  TotalsInvariant /\ [Next]_vars => TotalsInvariant'
<1>. SUFFICES ASSUME TotalsInvariant, [Next]_vars
              PROVE  TotalsInvariant'
  OBVIOUS
<1>. USE TotalsAssumption
<1>1. table \in Table /\ (Known(table) => Within(table.reltuples, table))
  BY DEF TypeOK, TotalsInvariant
<1>2. CASE Insert
  <2>1. Write(table.count + 1, 1) /\ seeding' = seeding
    BY <1>2 DEF Insert
  <2>2. Becomes(table')
    BY <2>1 DEF Write, Becomes
  <2>. QED
    BY <1>1, <2>1, <2>2, WriteKeepsStatistics, MomentIsAdded
       DEF Table, TypeOK, TotalsInvariant
<1>3. CASE Delete
  <2>1. Write(table.count - 1, 1) /\ seeding' = seeding
    BY <1>3 DEF Delete
  <2>2. Becomes(table')
    BY <2>1 DEF Write, Becomes
  <2>. QED
    BY <1>1, <2>1, <2>2, WriteKeepsStatistics, MomentIsAdded
       DEF Table, TypeOK, TotalsInvariant
<1>4. CASE Truncate
  <2>1. table' = [count |-> 0, reltuples |-> -1, churn |-> 0] /\ Becomes(table')
    BY <1>4 DEF Truncate, Becomes
  <2>2. table' \in Table /\ ~Known(table')
    BY <2>1 DEF Table, Known
  <2>3. seeding' = "truncated"
    BY <1>4 DEF Truncate
  <2>. QED
    BY <2>1, <2>2, <2>3, MomentIsAdded
<1>5. CASE \E n \in 0 .. MaxRows : AutoAnalyze(n) \/ Refill(n) \/ AnalyzeSeeded(n)
  <2>1. PICK n \in 0 .. MaxRows : AutoAnalyze(n) \/ Refill(n) \/ AnalyzeSeeded(n)
    BY <1>5
  <2>2. CASE Analyze(n) /\ seeding' \in {seeding, "no"}
    <3>1. Becomes(table')
      BY <2>2 DEF Analyze, Becomes
    <3>. QED
      BY <2>2, <3>1, AnalyzeIsFresh, MomentIsAdded DEF TypeOK, TotalsInvariant
  <2>3. CASE Refill(n)
    <3>1. Write(table.count + n, n) /\ seeding' = "filled"
      BY <2>3 DEF Refill
    <3>2. Becomes(table')
      BY <3>1 DEF Write, Becomes
    <3>. QED
      BY <1>1, <3>1, <3>2, WriteKeepsStatistics, MomentIsAdded DEF Table, TotalsInvariant
  <2>. QED
    BY <2>1, <2>2, <2>3 DEF AutoAnalyze, AnalyzeSeeded
<1>6. CASE \E lang \in {"go", "java"}, flag \in Flags : Send(lang, flag)
  <2>1. /\ since' = {table} /\ table' = table /\ answer' = {} /\ answer' = answer
        /\ seeding' = seeding /\ request' \subseteq BOOLEAN
    BY <1>6 DEF Send, AsksForCount, TotalsInvariant
  <2>. QED
    BY <1>1, <2>1 DEF TypeOK, TotalsInvariant, ExactIsCurrent, EstimateLags
<1>7. CASE \E exact \in request : Read(exact) \/ ReadFails(exact)
  <2>1. PICK exact \in request : Read(exact) \/ ReadFails(exact)
    BY <1>7
  <2>2. exact \in BOOLEAN
    BY DEF TypeOK, TotalsInvariant
  <2>3. Total(table, exact) \in Nat
    BY <1>1, <2>2, TotalIsRight
  <2>. QED
    BY <2>1, <2>3, ResponseIsRight DEF Read, ReadFails
<1>8. CASE Deliver
  BY <1>1, <1>8 DEF Deliver, TypeOK, TotalsInvariant, ExactIsCurrent, EstimateLags
<1>9. CASE UNCHANGED vars
  BY <1>9 DEF vars, TypeOK, TotalsInvariant, ExactIsCurrent, EstimateLags
<1>. QED
  BY <1>2, <1>3, <1>4, <1>5, <1>6, <1>7, <1>8, <1>9 DEF Next

\* A total is what it says it is: the type invariant of the answer, that an
\* exact total is current, and that an estimate lags behind the table by no
\* more than its statistics do, in every state.
THEOREM TotalsAreHonest == Spec => []TotalsInvariant
  BY InitTotals, NextTotals, PTL DEF Spec

\* Every variable of the totals holds a value the code can produce: an answer is
\* one of the two statuses, with a number that is never negative although the
\* planner's estimate may be.
THEOREM TypeCorrect == Spec => []TypeOK
<1>1. TotalsInvariant => TypeOK
  BY DEF TotalsInvariant
<1>. QED
  BY <1>1, TotalsAreHonest, PTL

\* An exact total was the number of rows at some moment after it was asked for.
THEOREM ExactTotalIsCurrent == Spec => []ExactIsCurrent
<1>1. TotalsInvariant => ExactIsCurrent
  BY DEF TotalsInvariant
<1>. QED
  BY <1>1, TotalsAreHonest, PTL

\* An estimate is off by the writes since the last ANALYZE and its sample.
THEOREM EstimateOnlyLags == Spec => []EstimateLags
<1>1. TotalsInvariant => EstimateLags
  BY DEF TotalsInvariant
<1>. QED
  BY <1>1, TotalsAreHonest, PTL

=============================================================================
