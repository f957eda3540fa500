-------------------------- MODULE MCCursorExchange --------------------------
(***************************************************************************)
(* Small positions and filters for the model checking of CursorExchange.   *)
(***************************************************************************)
EXTENDS CursorExchange

\* Two rows in neighbouring microseconds of the same second, and one beyond the
\* four-digit years.
MCRows ==
  {[id |-> 1, at |-> 0, account |-> <<"1">>],
   [id |-> 2, at |-> 2, account |-> <<"1">>],
   [id |-> 3, at |-> 8, account |-> <<"1">>]}

\* Filters whose texts run into one another when a separator is missing: an
\* account that is the beginning of another one, a status that holds the
\* separator or a digit, and the two directions.
MCQueries ==
  {[account |-> <<"1">>, status |-> <<"2">>, sort |-> "created_at:desc"],
   [account |-> <<"1", "2">>, status |-> <<>>, sort |-> "created_at:desc"],
   [account |-> <<"1">>, status |-> <<"2">>, sort |-> "created_at:asc"],
   [account |-> <<"1">>, status |-> <<"2", "|">>, sort |-> "created_at:desc"]}

MCChar == {"0", "1", "2", "x", "|", "created_at:desc", "created_at:asc"}

=============================================================================
