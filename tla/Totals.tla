------------------------------- MODULE Totals -------------------------------
(***************************************************************************)
(* GET /v1/transactions/total: the number of rows, counted or estimated.   *)
(* The estimate is the planner's, reltuples in pg_class, which nothing     *)
(* updates but VACUUM and ANALYZE: it lags behind the writes, and it is -1 *)
(* from the creation or the truncation of the table to the next ANALYZE.   *)
(* The table is written to, analysed and seeded again while a request is   *)
(* on its way.  The Go and the Java implementation run the same statement, *)
(* and disagree about a flag that is repeated.                             *)
(***************************************************************************)
EXTENDS Integers, FiniteSets

CONSTANTS
  MaxRows,       \* bound on the size of the table
  SampleError,   \* how far off an ANALYZE may be, which reads a sample
  MaxChurn,      \* bound on the writes between two ANALYZE
  MaxMoments     \* bound on what may happen to the table during a request

ASSUME TotalsAssumption ==
  /\ MaxRows \in Nat /\ SampleError \in Nat
  /\ MaxChurn \in Nat /\ MaxMoments \in Nat

VARIABLES
  table,     \* count of rows, reltuples, churn: rows written since it was set
  seeding,   \* the three statements of a seeding: which one was last
  request,   \* the request on its way: none, or one that is exact or not
  answer,    \* its answer: none, or one
  since      \* history: what the table was at each moment since it was sent

vars == <<table, seeding, request, answer, since>>

Table == [count : 0 .. MaxRows, reltuples : Int, churn : 0 .. MaxChurn]

Init ==
  /\ table = [count |-> 0, reltuples |-> -1, churn |-> 0]
  /\ seeding = "no"
  /\ request = {}
  /\ answer = {}
  /\ since = {}

-----------------------------------------------------------------------------
(* The table.                                                              *)

\* A request on its way sees the table before and after.
Becomes(new) ==
  /\ Cardinality(since) <= MaxMoments
  /\ table' = new
  /\ since' = IF request = {} THEN since ELSE since \cup {new}
  /\ UNCHANGED <<request, answer>>

Write(count, written) ==
  /\ count \in 0 .. MaxRows
  /\ table.churn + written <= MaxChurn
  /\ Becomes([table EXCEPT !.count = count, !.churn = @ + written])

Analyze(n) ==
  /\ n \in 0 .. MaxRows
  /\ n - table.count \in -SampleError .. SampleError
  /\ Becomes([table EXCEPT !.reltuples = n, !.churn = 0])

Insert == Write(table.count + 1, 1) /\ UNCHANGED seeding

Delete == Write(table.count - 1, 1) /\ UNCHANGED seeding

AutoAnalyze(n) == Analyze(n) /\ UNCHANGED seeding

\* A seeding is three statements, each one committed by itself.
Truncate ==
  /\ seeding = "no"
  /\ seeding' = "truncated"
  /\ Becomes([count |-> 0, reltuples |-> -1, churn |-> 0])

Refill(n) ==
  /\ seeding = "truncated"
  /\ seeding' = "filled"
  /\ Write(table.count + n, n)

AnalyzeSeeded(n) ==
  /\ seeding = "filled"
  /\ seeding' = "no"
  /\ Analyze(n)

-----------------------------------------------------------------------------
(* A request.                                                              *)

\* The flag `exact` of the query string: "true" once, "true" and another value
\* after it, or anything else.
Flags == {"true", "repeated", "other"}

\* Only the literal "true" asks for a count, everything else for the estimate.
\* gin reads the first occurrence; Spring joins them, which is not the literal.
AsksForCount(lang, flag) == flag = "true" \/ (lang = "go" /\ flag = "repeated")

Send(lang, flag) ==
  /\ request = {}
  /\ request' = {AsksForCount(lang, flag)}
  /\ since' = {table}
  /\ UNCHANGED <<table, seeding, answer>>

\* Bug: the estimate of a table never analysed goes out as it is.
EstimateUnclamped(t) == t.reltuples

Estimate(t) == IF t.reltuples < 0 THEN 0 ELSE t.reltuples

\* Bug: the flag is read the other way round.
TotalSwapped(t, exact) == IF exact THEN Estimate(t) ELSE t.count

Total(t, exact) == IF exact THEN t.count ELSE Estimate(t)

Respond(status, exact, estimate) ==
  /\ answer = {}
  /\ answer' = {[status |-> status, exact |-> exact, estimate |-> estimate]}
  /\ UNCHANGED <<table, seeding, request, since>>

\* One statement, on one snapshot; the answer says which kind of total it is.
Read(exact) == Respond("ok", exact, Total(table, exact))

ReadFails(exact) == Respond("internal_error", exact, 0)

Deliver ==
  /\ answer # {}
  /\ request' = {}
  /\ answer' = {}
  /\ since' = {}
  /\ UNCHANGED <<table, seeding>>

Next ==
  \/ Insert \/ Delete \/ Truncate
  \/ \E n \in 0 .. MaxRows : AutoAnalyze(n) \/ Refill(n) \/ AnalyzeSeeded(n)
  \/ \E lang \in {"go", "java"}, flag \in Flags : Send(lang, flag)
  \/ \E exact \in request : Read(exact) \/ ReadFails(exact)
  \/ Deliver

Spec == Init /\ [][Next]_vars

-----------------------------------------------------------------------------
(* Properties.                                                             *)

\* The table is within its bounds, and an answer is a total nobody has to
\* explain: never negative.
TypeOK ==
  /\ table \in Table
  /\ seeding \in {"no", "truncated", "filled"}
  /\ request \subseteq BOOLEAN
  /\ since \subseteq Table
  /\ answer \subseteq
       [status : {"ok", "internal_error"}, exact : BOOLEAN, estimate : Nat]

\* A total that says it is exact was the number of rows at some moment after
\* it was asked for, whatever was written, or truncated, meanwhile.
ExactIsCurrent ==
  \A a \in answer :
    a.status = "ok" /\ a.exact => \E t \in since : a.estimate = t.count

Known(t) == t.reltuples >= 0

\* How far the statistics of a table may be from its rows.
Within(estimate, t) ==
  estimate - t.count \in -(t.churn + SampleError) .. t.churn + SampleError

\* At some moment since it was asked for, the estimate was off by no more than
\* what was written since the last ANALYZE and the error of its sample; or the
\* table had no statistics, and the answer is 0.
EstimateLags ==
  \A a \in answer :
    a.status = "ok" /\ ~a.exact =>
      \E t \in since :
        IF Known(t) THEN Within(a.estimate, t) ELSE a.estimate = 0

-----------------------------------------------------------------------------
(* The inductive invariant behind both: the statistics are no worse than   *)
(* the writes since they were taken, and a request has seen the table of   *)
(* now.                                                                    *)

TotalsInvariant ==
  /\ TypeOK
  /\ \A t \in since \cup {table} : Known(t) => Within(t.reltuples, t)
  /\ request # {} => table \in since
  /\ answer # {} => request # {}
  /\ ExactIsCurrent
  /\ EstimateLags

=============================================================================
