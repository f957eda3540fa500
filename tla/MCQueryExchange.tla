-------------------------- MODULE MCQueryExchange --------------------------
(***************************************************************************)
(* Small query strings for the model checking of QueryExchange.            *)
(***************************************************************************)
EXTENDS QueryExchange

MCChar ==
  {"0", "2", "x", "|", " ", ",", "+", "-", "created_at:desc", "created_at:asc"}

MCDigitValue == [c \in {"0", "2"} |-> IF c = "0" THEN 0 ELSE 2]

MCRows == {[id |-> 1, at |-> 0]}

\* Absent, empty, zero, the same account in two forms, a word.
MCAccountParams ==
  {<<>>, <<<<>>>>, <<<<"0">>>>, <<<<"2">>>>, <<<<"+", "0", "2">>>>, <<<<"x">>>>}

MCStatusParams == {<<>>, <<<<"|", "2">>>>}

MCSortParams == {<<>>, <<<<"created_at:desc">>>>, <<<<"x">>>>}

\* Absent, above the cap, negative.
MCLimitParams == {<<>>, <<<<"2", "0">>>>, <<<<"-", "2">>>>}

MCPlainQueries ==
  [account : MCAccountParams, status : MCStatusParams, sort : MCSortParams,
   limit : MCLimitParams]

\* Numerals and sorts with white space, and parameters given twice.
MCOddQueries ==
  [account : {<<<<" ", "2">>>>, <<<<"2">>, <<"2">>>>, <<<<" ">>>>},
   status : {<<>>, <<<<"x">>, <<"2">>>>},
   sort : {<<>>, <<<<" ">>>>, <<<<"created_at:asc">>>>},
   limit : {<<>>, <<<<"2">>, <<"0">>>>}]

MCQueries == MCPlainQueries \cup MCOddQueries

=============================================================================
