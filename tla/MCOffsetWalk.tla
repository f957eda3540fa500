---------------------------- MODULE MCOffsetWalk ----------------------------
(***************************************************************************)
(* Small tables and raw parameters for the model checking of OffsetWalk.   *)
(* Java's int is -8 .. 7 and the 64-bit integers are -32 .. 31.            *)
(***************************************************************************)
EXTENDS OffsetWalk

One == <<"1">>

MCNumerals == {NoAccount, One, <<"2">>}

MCRow(i, t, a) == [id |-> i, at |-> t, account |-> a]

\* Three rows of one account, two of them at the same instant as each other and
\* as a row of another account.
MCPool ==
  {MCRow(1, 4, One), MCRow(2, 4, One), MCRow(3, 2, One), MCRow(4, 4, <<"2">>)}

\* Enough for a page out of the blue.
MCPool3 == {MCRow(1, 4, One), MCRow(2, 4, One), MCRow(3, 2, One)}

MCAccounts == {One, NoAccount}

MCOnce(raws) == {Once(raw) : raw \in raws}

\* In range, at the edge of 32 bits, below one, beyond 32 bits and beyond 64;
\* with white space around it, and repeated.
MCPages ==
  MCOnce({Absent, Blank, Word, -15, 0, 1, 2, 5, 40})
  \cup {[raw |-> 2, form |-> "spaced"], [raw |-> 2, form |-> "repeated"]}
MCSizes ==
  MCOnce({Absent, Blank, 0, 2, 9, 40})
  \cup {[raw |-> 1, form |-> "spaced"], [raw |-> Absent, form |-> "repeated"]}

MCBelowOne   == MCOnce({-15, 0, 1})
MCDeepPages  == MCOnce({1, 5, 7})
MCOnePage    == MCOnce({1})
MCSmallSizes == MCOnce({1, 2})

=============================================================================
