----------------------------- MODULE KeysetWalk -----------------------------
(***************************************************************************)
(* A client walks GET /v1/transactions page by page while other sessions   *)
(* write to the table.  Any instance of either implementation may answer   *)
(* any page: the servers keep nothing between two requests but their       *)
(* configuration, so everything the walk knows is in the token.            *)
(*                                                                         *)
(* A request goes through the stages of the code: received, resumed (the   *)
(* token is checked, one clock reading), fetched (one SELECT, one snapshot *)
(* of the table), answered (trim, and a second clock reading to stamp the  *)
(* next token), delivered.  Writers, the clock, key rotations and losses   *)
(* interleave with every stage.                                            *)
(***************************************************************************)
EXTENDS TransactionTable, CursorCodec, Limits

CONSTANTS
  Pool,          \* every row the table ever holds
  GoServers,     \* instances of the Go implementation
  JavaServers,   \* instances of the Spring Boot implementation
  Keys,          \* HMAC keys
  Queries,       \* filter sets a client asks for
  AskedLimits,   \* values of the limit parameter, 0 when it is absent
  MaxClock,      \* bound on the clock
  MaxFaults,     \* bound on failures, losses, rotations and changed filters
  None           \* no request in flight

Servers == GoServers \cup JavaServers

Row == [id : Nat, at : Nat, account : Seq(Char)]

Requests ==
  [server : Servers, query : Queries, limit : 1 .. MaxLimit,
   cursor : Tokens(Keys) \cup {NoCursor}]

Answers ==
  [status  : {200, 400, 410, 500},
   code    : {"ok", "invalid_cursor", "cursor_expired",
              "cursor_filter_mismatch", "internal_error"},
   data    : SUBSET Pool,
   next    : Tokens(Keys) \cup {NoCursor},
   hasMore : BOOLEAN]

ASSUME WalkAssumption ==
  /\ Pool \subseteq Row
  /\ \A r, s \in Pool : r.id = s.id => r = s     \* PRIMARY KEY
  /\ \A r \in Pool : r.at % Micro = 0            \* timestamptz
  /\ GoServers \cap JavaServers = {}
  /\ Queries \subseteq Filters
  /\ Tokens(Keys) \cap {NoCursor, Garbage} = {}
  /\ AskedLimits \subseteq Nat
  /\ MaxClock \in Nat
  /\ MaxFaults \in Nat

VARIABLES
  rows,      \* the committed rows
  fresh,     \* rows of Pool not inserted yet
  clock,     \* wall clock, in time units
  key,       \* the HMAC key each server is configured with
  query,     \* the filters of the walk
  token,     \* the last "next" the client received, NoCursor at the start
  seen,      \* the rows delivered by the walk
  base,      \* the rows in the snapshot of the walk's first page
  done,      \* the client has received next = null
  stage,     \* how far the request in flight has come
  req,       \* the request in flight
  fetched,   \* the result set of its SELECT
  answer,    \* its response
  faults     \* failures so far

vars == <<rows, fresh, clock, key, query, token, seen, base, done,
          stage, req, fetched, answer, faults>>

table  == <<rows, fresh>>
client == <<query, token, seen, base, done>>
flight == <<stage, req, fetched, answer>>

Lang(s) == IF s \in GoServers THEN "go" ELSE "java"

-----------------------------------------------------------------------------
(* Requests and responses.                                                 *)

StatusFor(code) ==
  IF code = "cursor_expired" THEN 410
  ELSE IF code = "internal_error" THEN 500
  ELSE 400

ErrorAnswer(code) ==
  [status |-> StatusFor(code), code |-> code,
   data |-> {}, next |-> NoCursor, hasMore |-> FALSE]

\* Bug: >= for >, a full last page promises another one.
HasMoreEager(found, limit) == Cardinality(found) >= limit

\* Bug: the extra row is expected once more than it is fetched.
HasMoreNever(found, limit) == Cardinality(found) > limit + 1

\* The row fetched beyond the page answers has_more and is dropped.
HasMore(found, limit) == Cardinality(found) > limit

Trim(found, desc, limit) ==
  IF HasMore(found, limit) THEN Top(found, desc, limit) ELSE found

\* Bug: the token stands for the first row of the page.
NextCursorFirst(page, r, now) ==
  LET desc == Descending(r.query.sort) IN
  Encode(Payload(Lang(r.server), LastOf(page, ~desc), desc,
                 Fingerprint(r.query), now),
         key[r.server])

NextCursor(page, r, now) ==
  LET desc == Descending(r.query.sort) IN
  Encode(Payload(Lang(r.server), LastOf(page, desc), desc,
                 Fingerprint(r.query), now),
         key[r.server])

PageAnswer(found, r, now) ==
  LET more == HasMore(found, r.limit)
      page == Trim(found, Descending(r.query.sort), r.limit)
  IN [status  |-> 200,
      code    |-> "ok",
      data    |-> page,
      next    |-> IF more THEN NextCursor(page, r, now) ELSE NoCursor,
      hasMore |-> more]

\* Two statements, never one: without a cursor there is no bound at all.
Candidates(r) ==
  LET filtered == Matching(rows, r.query.account) IN
  IF r.cursor = NoCursor THEN filtered
  ELSE Beyond(filtered, Descending(r.query.sort), Bound(r.cursor))

-----------------------------------------------------------------------------
Init ==
  /\ rows \in SUBSET Pool
  /\ IsFiniteSet(rows)
  /\ fresh = Pool \ rows
  /\ clock = 0
  /\ \E k \in Keys : key = [s \in Servers |-> k]
  /\ query \in Queries
  /\ token = NoCursor
  /\ seen = {}
  /\ base = {}
  /\ done = FALSE
  /\ stage = "idle"
  /\ req = None
  /\ fetched = {}
  /\ answer = None
  /\ faults = 0

-----------------------------------------------------------------------------
(* The world around the servers.                                           *)

\* A transaction commits a row, at the head of the order or behind it: the
\* order of commits is neither that of ids nor that of created_at.
Insert(r) ==
  /\ r \in fresh
  /\ rows' = rows \cup {r}
  /\ fresh' = fresh \ {r}
  /\ UNCHANGED <<clock, key, faults, client, flight>>

Delete(r) ==
  /\ r \in rows
  /\ rows' = rows \ {r}
  /\ UNCHANGED <<fresh, clock, key, faults, client, flight>>

Tick ==
  /\ clock < MaxClock
  /\ clock' = clock + 1
  /\ UNCHANGED <<key, faults, table, client, flight>>

Fault ==
  /\ faults < MaxFaults
  /\ faults' = faults + 1

\* The connection is closed or the client stops waiting: whatever the server
\* still does with the request has no effect, and the client asks again with
\* the token it holds.
Lose ==
  /\ stage # "idle"
  /\ Fault
  /\ stage' = "idle"
  /\ req' = None
  /\ fetched' = {}
  /\ answer' = None
  /\ UNCHANGED <<clock, key, table, client>>

\* A server restarts with another key; a response already sent survives it.
Rotate(s, k) ==
  /\ key[s] # k
  /\ Fault
  /\ key' = [key EXCEPT ![s] = k]
  /\ IF stage \in {"received", "resumed", "fetched"} /\ req.server = s
     THEN /\ stage' = "idle"
          /\ req' = None
          /\ fetched' = {}
          /\ answer' = None
     ELSE UNCHANGED flight
  /\ UNCHANGED <<clock, table, client>>

-----------------------------------------------------------------------------
(* The client.                                                             *)

Send(s, q, asked) ==
  /\ ~done
  /\ stage = "idle"
  /\ stage' = "received"
  /\ req' = [server |-> s, query |-> q, limit |-> CapLimit(asked),
             cursor |-> token]
  /\ UNCHANGED <<fetched, answer, clock, key, table, client>>

\* The next page of the walk, from any server, with any limit.
Request(s, asked) ==
  /\ Send(s, query, asked)
  /\ UNCHANGED faults

\* The client changes its filters in mid-walk and keeps its token.
RequestOther(s, q, asked) ==
  /\ token # NoCursor
  /\ q # query
  /\ Fault
  /\ Send(s, q, asked)

\* A 200 extends the walk.  A 410 or a token nobody can verify any more sends
\* the client back to the start.  After any other error it keeps its position.
Deliver ==
  /\ stage = "answered"
  /\ IF answer.status = 200
     THEN /\ seen' = seen \cup answer.data
          /\ token' = answer.next
          /\ done' = (answer.next = NoCursor)
          /\ UNCHANGED base
     ELSE IF answer.code \in {"cursor_expired", "invalid_cursor"}
     THEN /\ seen' = {}
          /\ token' = NoCursor
          /\ base' = {}
          /\ UNCHANGED done
     ELSE UNCHANGED <<seen, token, base, done>>
  /\ stage' = "idle"
  /\ req' = None
  /\ answer' = None
  /\ UNCHANGED <<query, fetched, clock, key, faults, table>>

-----------------------------------------------------------------------------
(* The servers.                                                            *)

Answer(a) ==
  /\ stage' = "answered"
  /\ answer' = a
  /\ fetched' = {}

\* List, up to the repository: the token decodes and matches the filters of
\* this very request, or the request is refused.
Resume ==
  /\ stage = "received"
  /\ LET verdict == IF req.cursor = NoCursor THEN "ok"
                    ELSE Verdict(Lang(req.server), req.cursor,
                                 key[req.server], clock, req.query)
     IN IF verdict = "ok"
        THEN stage' = "resumed" /\ UNCHANGED <<fetched, answer>>
        ELSE Answer(ErrorAnswer(verdict))
  /\ UNCHANGED <<req, clock, key, faults, table, client>>

\* FirstPage or NextPage: one SELECT of one row more than the page.
Fetch ==
  /\ stage = "resumed"
  /\ stage' = "fetched"
  /\ fetched' = Top(Candidates(req), Descending(req.query.sort), req.limit + 1)
  /\ base' = IF req.cursor = NoCursor THEN rows ELSE base
  /\ UNCHANGED <<req, answer, query, token, seen, done, clock, key, faults,
                 table>>

\* The query fails, or a row does not scan: a bare 500.
FetchFails ==
  /\ stage = "resumed"
  /\ Fault
  /\ Answer(ErrorAnswer("internal_error"))
  /\ UNCHANGED <<req, clock, key, table, client>>

Respond ==
  /\ stage = "fetched"
  /\ Answer(PageAnswer(fetched, req, clock))
  /\ UNCHANGED <<req, clock, key, faults, table, client>>

-----------------------------------------------------------------------------
Next ==
  \/ \E r \in Pool : Insert(r) \/ Delete(r)
  \/ Tick
  \/ Lose
  \/ \E s \in Servers, k \in Keys : Rotate(s, k)
  \/ \E s \in Servers, asked \in AskedLimits : Request(s, asked)
  \/ \E s \in Servers, q \in Queries, asked \in AskedLimits :
       RequestOther(s, q, asked)
  \/ Resume
  \/ Fetch
  \/ FetchFails
  \/ Respond
  \/ Deliver

Spec == Init /\ [][Next]_vars

\* A handler that has started runs on, a response that is not lost arrives,
\* and the client keeps asking until next is null.
Progress ==
  \/ \E s \in Servers, asked \in AskedLimits : Request(s, asked)
  \/ Resume
  \/ Fetch
  \/ Respond
  \/ Deliver

FairSpec == Spec /\ WF_vars(Progress)

-----------------------------------------------------------------------------
(* Properties.                                                             *)

\* Every variable holds a value the code can produce; in particular the limit
\* a request runs with is between 1 and the cap, whatever was asked.
TypeOK ==
  /\ rows \in SUBSET Pool
  /\ IsFiniteSet(rows)
  /\ fresh \in SUBSET (Pool \ rows)
  /\ clock \in 0 .. MaxClock
  /\ key \in [Servers -> Keys]
  /\ query \in Queries
  /\ token \in Tokens(Keys) \cup {NoCursor}
  /\ seen \in SUBSET Pool
  /\ base \in SUBSET Pool
  /\ done \in BOOLEAN
  /\ stage \in {"idle", "received", "resumed", "fetched", "answered"}
  /\ stage # "idle" => req \in Requests
  /\ fetched \in SUBSET Pool
  /\ IsFiniteSet(fetched)
  /\ stage = "answered" => answer \in Answers
  /\ faults \in 0 .. MaxFaults

Forward == Descending(query.sort)

\* What the walk owes its client: the rows the first page's snapshot held,
\* that match the filters and that nobody has deleted since.
Owed == Matching(base \cap rows, query.account)

PageReady == stage = "answered" /\ answer.status = 200

\* An owed row is never jumped over: when the walk has delivered a row, it has
\* delivered every owed row that comes before it, whatever was inserted or
\* deleted between two pages and whichever server answered them.
NothingSkipped ==
  \A r \in Owed, s \in seen : Before(Forward, r, s) => r \in seen

\* next = null is the authority on the end: the client then holds every owed
\* row.
EndIsComplete == done => Owed \subseteq seen

\* A page holds only rows that come after everything the client already has
\* and that match its filters: no row twice, no row out of order, even when a
\* request is repeated after its response was lost.
PagesAdvance ==
  PageReady =>
    /\ \A s \in seen, r \in answer.data : Before(Forward, s, r)
    /\ answer.data = Matching(answer.data, query.account)

\* has_more never promises too much: while nobody deletes, the page after a
\* token is not empty; and a page followed by another one is full.
HasMoreKeepsItsWord ==
  PageReady =>
    /\ answer.hasMore = (answer.next # NoCursor)
    /\ answer.hasMore => Cardinality(answer.data) = req.limit
    /\ req.cursor # NoCursor /\ answer.data = {} => rows \cup fresh # Pool

\* What sets the two endpoints apart is what writes do to them, and nothing
\* else: whenever the table holds just what it held at the first page, and the
\* client and the page hold none of the rows that came and went in between, the
\* page is the one OFFSET would select after as many rows as were delivered.
QuietPageIsOffsetPage ==
  PageReady /\ rows = base /\ seen \cup answer.data \subseteq rows =>
    answer.data = Slice(Matching(rows, query.account), Forward,
                        Cardinality(seen), req.limit)

\* Filters changed in mid-walk are refused, never answered with a page that
\* belongs to neither walk.
ChangedFiltersRefused ==
  stage = "answered" /\ req.query # query =>
    answer.code \in {"cursor_filter_mismatch", "cursor_expired",
                     "invalid_cursor"}

\* The walk does not break on its own: with unchanged filters and a server
\* that holds the key the token was signed with, the only refusal is that of
\* a token too old, whichever implementation signed it and whichever reads it
\* (for dates that both of them can write).
OwnCursorHonoured ==
  [][/\ stage = "received" /\ stage' = "answered"
     /\ req.query = query /\ token # NoCursor
     /\ \A r \in Pool : r.at < Year10000
     => answer'.code = "cursor_expired" \/ token.mac[1] # key[req.server]]_vars

-----------------------------------------------------------------------------
(* The inductive invariant: what makes a walk that lives in a token safe   *)
(* against everything that happens between two requests.                   *)

\* What a server makes of the filters q: signed under one key, with the version
\* both implementations read, the fingerprint and the direction of q.
SignedFor(tok, q) ==
  /\ \A lang \in Languages : Authentic(lang, tok, tok.mac[1])
  /\ tok.payload.v = Version
  /\ tok.payload.f = Fingerprint(q)
  /\ tok.payload.d = Descending(q.sort)
  /\ (\A r \in Pool : r.at < Year10000) => tok.payload.c.style = "yyyy"

\* The token stands for the last row delivered, and for this walk's filters.
Holds(tok, S) ==
  /\ SignedFor(tok, query)
  /\ \E last \in S :
       /\ Bound(tok) = [at |-> last.at, id |-> last.id]
       /\ \A s \in S : s = last \/ Before(Forward, s, last)

TokenIsPosition ==
  /\ token # NoCursor => Holds(token, seen) /\ ~done
  /\ token = NoCursor /\ ~done => seen = {}

\* A request carries the token the client holds, and one that got past the
\* check of its filters is a request of this walk.
RequestBelongs ==
  stage # "idle" =>
    /\ req.cursor = token
    /\ ~done
    /\ (token = NoCursor \/ stage \in {"resumed", "fetched"} \/ PageReady)
         => req.query = query

\* A deleted row does not come back, so what is owed can only shrink.
BaseIsOld == base \cap fresh = {}

\* A set of rows that continues what was seen, and that may leave an owed row
\* out only beyond its own end, when there is more to come.
Continues(S, more) ==
  /\ \A s \in seen, r \in S : Before(Forward, s, r)
  /\ \A r \in Owed : r \notin seen \cup S =>
       more /\ \A s \in S : Before(Forward, s, r)
  /\ S = Matching(S, query.account)

FetchedContinues ==
  stage = "fetched" =>
    Continues(fetched, HasMore(fetched, req.limit))

AnswerContinues ==
  PageReady =>
    /\ Continues(answer.data, answer.next # NoCursor)
    /\ answer.next # NoCursor => Holds(answer.next, answer.data)

WalkInvariant ==
  /\ TokenIsPosition
  /\ RequestBelongs
  /\ BaseIsOld
  /\ FetchedContinues
  /\ AnswerContinues
  /\ NothingSkipped
  /\ EndIsComplete

-----------------------------------------------------------------------------
\* The walk keeps the promise of a drift-free walk, step by step.
DriftFree ==
  INSTANCE DriftFreeWalk WITH
    forward <- Forward, owed <- Owed, ended <- done

KeepsThePromise == DriftFree!Spec

\* Once every server is configured with the same key for good, the walk comes
\* to its end: each page makes headway, the end is reported, no token is
\* refused for ever.
SameKey == \A s1, s2 \in Servers : key[s1] = key[s2]

WalkEnds == <>[]SameKey => <>done

=============================================================================
