--------------------------- MODULE QueryExchange ---------------------------
(***************************************************************************)
(* Query strings travel between the two implementations.  A client takes   *)
(* the token of a page and asks for the next one with the same query       *)
(* string, with another limit, with other filters, without its cursor, or  *)
(* with a cursor that is repeated, white space or in another form of       *)
(* base64, at any server.  All servers share a key and no token expires    *)
(* here: CursorExchange is about that.                                     *)
(***************************************************************************)
EXTENDS ListRequest

CONSTANTS
  Rows,         \* positions that are signed
  Key,
  RawQueries,   \* query strings without their cursor
  MaxIssued     \* bound on the number of tokens in circulation

RawText == Seq(Char)

ASSUME QueryAssumption ==
  /\ Rows \subseteq [id : Nat, at : 0 .. Year10000 - 1]
  /\ \A r \in Rows : r.at % Micro = 0
  /\ RawQueries \subseteq [account : Seq(RawText), status : Seq(RawText),
                           sort : Seq(RawText), limit : Seq(RawText)]
  /\ MaxIssued \in Nat
  /\ Blank \notin {NoCursor, Garbage}
  /\ {NoCursor, Garbage, Blank} \cap Tokens({Key}) = {}

VARIABLES
  issued,   \* history: every token signed, with the request it came from
  answer    \* the answer on its way, with its request: none, or one

vars == <<issued, answer>>

Init ==
  /\ issued = {}
  /\ answer = {}

\* A server answers: a page of at most `size` rows, or an error.
Handle(lang, q, cursor) ==
  answer' = {[lang |-> lang, raw |-> q, cursor |-> cursor,
              outcome |-> Outcome(lang, q, cursor, Key, 0),
              size |-> Limit(lang, q)]}

\* The page is the last one, or an error is answered: no token.
Serve(lang, q, cursor) ==
  /\ answer = {}
  /\ Handle(lang, q, cursor)
  /\ UNCHANGED issued

\* The page ends at row r and another one follows.
ServeWithNext(lang, q, cursor, r) ==
  /\ answer = {}
  /\ Cardinality(issued) < MaxIssued
  /\ Outcome(lang, q, cursor, Key, 0) = "ok"
  /\ Handle(lang, q, cursor)
  /\ LET asked   == Query(lang, q)
         payload == Payload(lang, r, Descending(asked.sort), Fingerprint(asked), 0)
     IN issued' = issued \cup
          {[token |-> Encode(payload, Key), lang |-> lang, raw |-> q]}

\* What a client may put in `cursor`.
Cursors ==
  {<<>>, <<Blank>>, <<Garbage>>}
  \cup {<<t>> : t \in UNION {Rewritten(x.token) : x \in issued}}
  \cup {<<x.token, x.token>> : x \in issued}

Deliver ==
  /\ answer # {}
  /\ answer' = {}
  /\ UNCHANGED issued

Next ==
  \/ \E lang \in Languages, q \in RawQueries, cursor \in Cursors :
       \/ Serve(lang, q, cursor)
       \/ \E r \in Rows : ServeWithNext(lang, q, cursor, r)
  \/ Deliver

Spec == Init /\ [][Next]_vars

-----------------------------------------------------------------------------
(* Properties.                                                             *)

\* The tokens an answer was asked with, when there was exactly one.
Origins(a) == {x \in issued : \E t \in Rewritten(x.token) : a.cursor = <<t>>}

\* Query strings both implementations read alike: every parameter at most
\* once, and no white space around a numeral or a sort.
Plain(q) ==
  /\ \A name \in DOMAIN q : Len(q[name]) <= 1
  /\ \A name \in {"account", "sort", "limit"} :
       \A i \in DOMAIN q[name] : " " \notin ToSet(q[name][i])

\* Cursors both read alike: at most one, and as it was written.
PlainCursor(cursor) ==
  /\ Len(cursor) <= 1
  /\ cursor # <<Blank>>
  /\ \A i \in DOMAIN cursor : cursor[i] # Garbage => cursor[i].wire = "plain"

SameWalk(q1, q2) == [q1 EXCEPT !.limit = <<>>] = [q2 EXCEPT !.limit = <<>>]

\* A client that keeps its query string, and only moves its cursor forward or
\* picks another limit, is never told that it changed its filters: by the
\* implementation that gave it the cursor whatever the string looks like, and by
\* the other one when the string is plain, whatever it leaves out and however
\* its numerals are written.
SameStringSameWalk ==
  \A a \in answer : \A x \in Origins(a) :
    /\ a.cursor = <<x.token>>
    /\ SameWalk(a.raw, x.raw)
    /\ a.lang = x.lang \/ Plain(a.raw)
    => a.outcome \in {"ok", "invalid_limit"}

\* What a query string asks for, with the absent account apart from every
\* numeral, 0 included.
Asks(lang, q) ==
  LET account == Raw(lang, Text(lang, q.account)) IN
  [account |-> IF Given(lang, account) THEN <<account>> ELSE <<>>,
   status  |-> Text(lang, q.status),
   sort    |-> Sort(lang, Text(lang, q.sort))]

\* A token is accepted only with a query string that asks for the walk it came
\* from.  The fingerprint says 0 for an absent account, so a walk over
\* everything must never pass for a walk over an account.
TokenTellsRequestsApart ==
  \A a \in answer : \A x \in Origins(a) :
    a.outcome = "ok" => Asks(a.lang, a.raw) = Asks(x.lang, x.raw)

\* The twin gives the same answer to a plain request, error for error: the
\* parameters are refused in the same order, and a page has the same size.
TwinsReadAlike ==
  \A a \in answer : \A lang \in Languages :
    Plain(a.raw) /\ PlainCursor(a.cursor) =>
      /\ Outcome(lang, a.raw, a.cursor, Key, 0) = a.outcome
      /\ Limit(lang, a.raw) = a.size

=============================================================================
