---------------------------- MODULE MCKeysetWalk ----------------------------
(***************************************************************************)
(* Small tables and filters for the model checking of KeysetWalk.          *)
(***************************************************************************)
EXTENDS KeysetWalk

MCRow(i, t, a) == [id |-> i, at |-> t, account |-> a]

One == <<"1">>
Two == <<"2">>

\* Two rows share their created_at, against the order of their ids with the
\* others, and one row belongs to another account.
MCPool ==
  {MCRow(1, 4, One), MCRow(2, 4, One), MCRow(3, 2, One), MCRow(4, 6, Two)}

\* Three rows are enough for two pages and an end.
MCPool3 == {MCRow(1, 2, One), MCRow(2, 2, One), MCRow(3, 4, One)}

MCQuery(a, st, so) == [account |-> a, status |-> st, sort |-> so]

Down == "created_at:desc"
Up   == "created_at:asc"

MCQueries ==
  {MCQuery(One, <<>>, Down), MCQuery(NoAccount, <<>>, Up)}

\* A walk down and a walk up, of other filters.
MCQueries3 ==
  {MCQuery(One, <<"x">>, Down), MCQuery(One, <<>>, Up)}

MCChar == {"0", "1", "2", "x", "|", "created_at:desc", "created_at:asc"}

=============================================================================
