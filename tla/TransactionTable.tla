-------------------------- MODULE TransactionTable --------------------------
(***************************************************************************)
(* The shared PostgreSQL table `transactions` as the two implementations   *)
(* read it: the total order of ORDER BY created_at, id, the keyset bound   *)
(* (created_at, id) < (?, ?) and LIMIT / OFFSET.                           *)
(*                                                                         *)
(* A row is a record [id, at, account]; `at` stands for created_at.  The   *)
(* amount and the label are carried along by the code and never read.  A   *)
(* result set is the set of its rows: every statement orders by the same   *)
(* total order, so the set determines the list.                            *)
(***************************************************************************)
EXTENDS Integers, FiniteSets

\* account_id is written as its decimal numeral, a sequence of digits; 0 is
\* the value that means "no tenant filter".
NoAccount == <<"0">>

\* "a comes before b" in ORDER BY created_at DESC, id DESC, or in the same
\* statement with ASC on both columns.  Both columns always turn together.
Before(desc, a, b) ==
  IF desc
  THEN a.at > b.at \/ (a.at = b.at /\ a.id > b.id)
  ELSE a.at < b.at \/ (a.at = b.at /\ a.id < b.id)

\* WHERE account_id = ?, or no WHERE at all.
Matching(S, account) ==
  {r \in S : account # NoAccount => r.account = account}

\* Bug: the bound compares created_at alone, without the tie-breaker.
BeyondNoTieBreak(S, desc, bound) ==
  {r \in S : IF desc THEN r.at < bound.at ELSE r.at > bound.at}

\* Bug: <= for <, the last row of the previous page is served again.
BeyondInclusive(S, desc, bound) == {r \in S : ~Before(desc, r, bound)}

\* WHERE (created_at, id) < (?, ?), or > in an ascending walk.
Beyond(S, desc, bound) == {r \in S : Before(desc, bound, r)}

\* How many rows of S an index scan meets ahead of r.
Rank(S, desc, r) == Cardinality({s \in S : Before(desc, s, r)})

\* ORDER BY ... LIMIT n.
Top(S, desc, n) == {r \in S : Rank(S, desc, r) < n}

\* ORDER BY ... LIMIT n OFFSET k.
Slice(S, desc, k, n) ==
  {r \in S : Rank(S, desc, r) >= k /\ Rank(S, desc, r) < k + n}

\* The last row of a page.
LastOf(S, desc) == CHOOSE r \in S : \A s \in S : s = r \/ Before(desc, s, r)

=============================================================================
