--------------------------- MODULE CursorExchange ---------------------------
(***************************************************************************)
(* Tokens travel between the two implementations.  Any server signs any    *)
(* position at any time; any server is later shown any token: one it never *)
(* signed, one whose key it has dropped since, one that is too old, one    *)
(* that belongs to other filters, one whose payload was damaged on the     *)
(* way, one whose base64 was padded or folded on the way, one a later      *)
(* build signed with another payload version.                              *)
(***************************************************************************)
EXTENDS TransactionTable, CursorCodec

CONSTANTS
  Rows,          \* positions that are signed
  GoServers, JavaServers,
  Keys,
  Queries,       \* the filters asked for
  MaxClock,      \* bound on the clock
  MaxIssued      \* bound on the number of tokens in circulation

Servers == GoServers \cup JavaServers

Row == [id : Nat, at : Nat, account : Seq(Char)]

ASSUME ExchangeAssumption ==
  /\ Rows \subseteq Row
  /\ \A r \in Rows : r.at % Micro = 0
  /\ Queries \subseteq Filters
  /\ Garbage \notin Tokens(Keys)
  /\ GoServers \cap JavaServers = {}
  /\ MaxClock \in Nat
  /\ MaxIssued \in Nat

VARIABLES
  clock,     \* wall clock
  key,       \* the key each server is configured with
  issued,    \* history: every token signed, with what it stands for
  shown      \* the presentation under way, with its outcome

vars == <<clock, key, issued, shown>>

Lang(s) == IF s \in GoServers THEN "go" ELSE "java"

-----------------------------------------------------------------------------
Init ==
  /\ clock = 0
  /\ \E k \in Keys : key = [s \in Servers |-> k]
  /\ issued = {}
  /\ shown = {}

\* The page ends at row r: the server stamps and signs its position.
Issue(s, r, q) ==
  /\ Cardinality(issued) < MaxIssued
  /\ LET payload == Payload(Lang(s), r, Descending(q.sort), Fingerprint(q), clock)
     IN issued' = issued \cup
          {[token |-> Encode(payload, key[s]), row |-> r, query |-> q,
            key |-> key[s], at |-> clock]}
  /\ shown' = {}
  /\ UNCHANGED <<clock, key>>

\* A token that no server signed as it stands: the signature of one payload
\* with another position, direction, fingerprint or date, another form of the
\* same bytes, or bytes that do not decode.
Damaged(x) ==
  LET p == x.token.payload IN
  {[x.token EXCEPT !.payload = d] :
     d \in {[p EXCEPT !.i = p.i + 1], [p EXCEPT !.d = ~p.d],
            [p EXCEPT !.t = p.t + 1]}
           \cup {[p EXCEPT !.f = Fingerprint(q)] : q \in Queries}}
  \cup Rewritten(x.token)
  \cup {Garbage}

\* The same position signed by a build with the next payload version.
Later(x) == Encode([x.token.payload EXCEPT !.v = Version + 1], x.key)

Present(s, tok, q) ==
  /\ shown = {}
  /\ shown' = {[token |-> tok, server |-> s, key |-> key[s], query |-> q,
                now |-> clock,
                outcome |-> Verdict(Lang(s), tok, key[s], clock, q)]}
  /\ UNCHANGED <<clock, key, issued>>

PresentIssued(s, q) == \E x \in issued : Present(s, x.token, q)

PresentOther(s, q) ==
  \E x \in issued : \E tok \in Damaged(x) \cup {Later(x)} : Present(s, tok, q)

Tick ==
  /\ clock < MaxClock
  /\ clock' = clock + 1
  /\ shown' = {}
  /\ UNCHANGED <<key, issued>>

\* A server restarts with another key.
Rotate(s, k) ==
  /\ key[s] # k
  /\ key' = [key EXCEPT ![s] = k]
  /\ shown' = {}
  /\ UNCHANGED <<clock, issued>>

Next ==
  \/ \E s \in Servers, r \in Rows, q \in Queries : Issue(s, r, q)
  \/ \E s \in Servers, q \in Queries : PresentIssued(s, q)
  \/ \E s \in Servers, q \in Queries : PresentOther(s, q)
  \/ Tick
  \/ \E s \in Servers, k \in Keys : Rotate(s, k)

Spec == Init /\ [][Next]_vars

-----------------------------------------------------------------------------
(* Properties.                                                             *)

\* Every token in circulation is well formed and stamped no later than now,
\* and at most one presentation is under way.
TypeOK ==
  /\ clock \in 0 .. MaxClock
  /\ key \in [Servers -> Keys]
  /\ issued \subseteq
       [token : Tokens(Keys), row : Rows, query : Queries, key : Keys,
        at : 0 .. clock]
  /\ Cardinality(issued) <= MaxIssued
  /\ Cardinality(shown) <= 1
  /\ shown \subseteq
       [token : Tokens(Keys) \cup {Garbage}, server : Servers, key : Keys,
        query : Queries, now : 0 .. clock,
        outcome : {"ok", "invalid_cursor", "cursor_expired",
                   "cursor_filter_mismatch"}]

\* The records of `issued` that a presentation may have come from, in whichever
\* form their bytes arrive.
Origins(p) == {x \in issued : p.token \in Rewritten(x.token)}

\* The token is in the form the encoders write, with a date both can read.
AsWritten(token) == token.wire = "plain" /\ token.payload.c.at < Year10000

\* A token is accepted only as what it was signed for: under the key the
\* server has now, for the same filters, at the very row the page ended with,
\* and not later than the TTL after it was signed.
AcceptedIsGenuine ==
  \A p \in shown : p.outcome = "ok" =>
    \E x \in Origins(p) :
      /\ x.key = p.key
      /\ x.query = p.query
      /\ Bound(p.token) = [at |-> x.row.at, id |-> x.row.id]
      /\ p.now - x.at <= TTL

\* A token emitted by one implementation is accepted by the other as long as
\* it arrives as it was written, both have the same key, the filters are the
\* same, and it is younger than the TTL by the fraction of a second "t" may
\* have lost.
GenuineIsAccepted ==
  \A p \in shown : \A x \in issued :
    /\ x.token = p.token
    /\ x.key = p.key
    /\ x.query = p.query
    /\ x.row.at < Year10000
    /\ p.now - x.at + Second - 1 <= TTL
    => p.outcome = "ok"

\* The refusals tell the client what to do next, so each has its own cause:
\* 410 for a token this key signed and that has outlived the TTL, whatever the
\* filters; a mismatch for one that is still good, for other filters.
RefusalTellsTheCause ==
  \A p \in shown :
    /\ p.outcome = "cursor_expired" =>
         \E x \in Origins(p) : x.key = p.key /\ p.now - x.at + Second > TTL
    /\ p.outcome = "cursor_filter_mismatch" =>
         \E x \in Origins(p) :
           x.key = p.key /\ x.query # p.query /\ p.now - x.at <= TTL

\* Changing the implementation behind the endpoint goes unnoticed: Go and Java
\* give the same verdict on a token in the form and with a date both can read.
\* Their decoders differ on other forms and dates, but only so far that one of
\* them calls the token invalid: never do two servers with the same key tell a
\* client different things about the age or the filters of one token.
TwinsAgree ==
  \A p \in shown : \A lang \in Languages :
    LET other == Verdict(lang, p.token, p.key, p.now, p.query) IN
    /\ (p.token # Garbage => AsWritten(p.token)) => other = p.outcome
    /\ other # p.outcome => "invalid_cursor" \in {other, p.outcome}

=============================================================================
