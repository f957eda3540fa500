--------------------------- MODULE DriftFreeWalk ---------------------------
(***************************************************************************)
(* What the keyset endpoint promises the client of a walk, without tokens, *)
(* servers, requests or a table: pages arrive in the order of the walk,    *)
(* none repeats a row, none jumps over a row that is owed, and the end is  *)
(* announced only when nothing is owed any more.  A row stops being owed   *)
(* when it is deleted, and a walk may have to start over.                  *)
(***************************************************************************)
EXTENDS TransactionTable

CONSTANTS
  Pool       \* every row the table ever holds

VARIABLES
  forward,   \* TRUE in a descending walk
  owed,      \* rows the walk may not jump over
  seen,      \* rows delivered so far
  ended      \* the end was announced

walk == <<forward, owed, seen, ended>>

Init ==
  /\ forward \in BOOLEAN
  /\ owed = {}
  /\ seen = {}
  /\ ended = FALSE

\* The walk begins, and what is owed is settled.
Begin ==
  /\ ~ended
  /\ seen = {}
  /\ owed' \in SUBSET Pool
  /\ UNCHANGED <<forward, seen, ended>>

\* Rows are deleted.
Withdraw ==
  /\ owed' \in SUBSET owed
  /\ UNCHANGED <<forward, seen, ended>>

InOrder(page) ==
  \A s \in seen, r \in page : Before(forward, s, r)

SkipsNothing(page) ==
  \A r \in owed, s \in seen \cup page :
    Before(forward, r, s) => r \in seen \cup page

Page ==
  /\ ~ended
  /\ \E page \in SUBSET Pool :
       /\ InOrder(page)
       /\ SkipsNothing(page)
       /\ seen' = seen \cup page
  /\ ended' \in BOOLEAN
  /\ ended' => owed \subseteq seen'
  /\ UNCHANGED <<forward, owed>>

StartOver ==
  /\ ~ended
  /\ seen' = {}
  /\ owed' = {}
  /\ UNCHANGED <<forward, ended>>

Next == Begin \/ Withdraw \/ Page \/ StartOver

Spec == Init /\ [][Next]_walk

=============================================================================
