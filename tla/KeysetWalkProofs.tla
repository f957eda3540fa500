-------------------------- MODULE KeysetWalkProofs --------------------------
(***************************************************************************)
(* Proofs about KeysetWalk, for every table, every history of writes, any  *)
(* number of servers, keys and filters, and every limit.                   *)
(***************************************************************************)
EXTENDS KeysetWalk, ListingLemmas

\* A well-formed token that stands for one row, in a walk with filters q.
StandsFor(tok, row, q) ==
  /\ tok \in Tokens(Keys)
  /\ tok # NoCursor
  /\ Bound(tok) = [at |-> row.at, id |-> row.id]
  /\ SignedFor(tok, q)

\* What is signed for a row of the table stands for exactly that row.
LEMMA EncodeFacts ==
  ASSUME NEW row \in Pool, NEW lang, NEW q \in Queries, NEW k \in Keys,
         NEW now \in Nat
  PROVE  StandsFor(Encode(Payload(lang, row, Descending(q.sort),
                                  Fingerprint(q), now), k), row, q)
<1>. DEFINE p == Payload(lang, row, Descending(q.sort), Fingerprint(q), now)
            tok == Encode(p, k)
<1>1. row.at \in Nat /\ row.id \in Nat /\ row.at % Micro = 0 /\ q \in Filters
  BY WalkAssumption DEF Row
<1>2. /\ tok.payload = p /\ tok \in Tokens(Keys)
      /\ Bound(tok) = [at |-> row.at, id |-> row.id]
  <2>1. tok.payload = p
    BY DEF Encode
  <2>2. /\ tok \in Tokens(Keys)
        /\ Bound(tok) = [at |-> row.at, id |-> row.id]
    <3>1. /\ Signed(lang, row, q, now, k) \in Tokens(Keys)
          /\ Bound(Signed(lang, row, q, now, k)) = [at |-> row.at, id |-> row.id]
      BY <1>1, SignedIsWellFormed
    <3>. QED
      BY <3>1 DEF Signed
  <2>. QED
    BY <2>1, <2>2, Zenon
<1>3. tok # NoCursor
  BY <1>2, WalkAssumption
<1>4. SignedFor(tok, q)
  <2>1. /\ tok.mac = <<k, p>>
        /\ tok.mac[1] = k
        /\ tok.wire = "plain"
        /\ tok # Garbage
    BY <1>2, WalkAssumption DEF Encode, Sign
  <2>2. /\ p.v = Version /\ p.f = Fingerprint(q) /\ p.d = Descending(q.sort)
        /\ p.c = FormatTime(lang, row.at)
    BY DEF Payload
  <2>3. row.at < Year10000 => p.c.style = "yyyy"
    BY <2>2 DEF FormatTime
  <2>. QED
    BY <1>2, <2>1, <2>2, <2>3 DEF SignedFor, Authentic, Decodes, Sign
<1>. QED
  BY <1>2, <1>3, <1>4, Zenon DEF StandsFor

LEMMA PoolIsOrdered ==
  /\ Ordered(Pool)
  /\ \A S \in SUBSET Pool : Ordered(S)
<1>1. Ordered(Pool)
  BY WalkAssumption DEF Ordered, Row
<1>. QED
  BY <1>1, OrderedSubset, Zenon

\* Whatever limit is asked, the request runs with one between 1 and the cap.
LEMMA CapLimitRange ==
  ASSUME NEW asked \in AskedLimits
  PROVE  CapLimit(asked) \in 1 .. MaxLimit
BY WalkAssumption, LimitsAssumption DEF CapLimit

\* A limit is a positive integer.
LEMMA LimitIsPositive ==
  ASSUME NEW r \in Requests
  PROVE  r.limit \in Nat \ {0}
BY LimitsAssumption DEF Requests

\* The rows a statement may return.
LEMMA CandidatesFacts ==
  ASSUME TypeOK, NEW r
  PROVE  /\ Candidates(r) \in SUBSET rows
         /\ IsFiniteSet(Candidates(r))
         /\ Ordered(Candidates(r))
<1>1. Candidates(r) \in SUBSET rows
  BY DEF Candidates, Matching, Beyond
<1>2. rows \in SUBSET Pool /\ IsFiniteSet(rows)
  BY DEF TypeOK
<1>3. IsFiniteSet(Candidates(r))
  BY <1>1, <1>2, FS_Subset, Zenon
<1>4. Candidates(r) \in SUBSET Pool
  BY <1>1, <1>2
<1>. QED
  BY <1>1, <1>3, <1>4, PoolIsOrdered, Zenon

-----------------------------------------------------------------------------
(* The answer to a request whose rows have been fetched.                   *)

\* The page is cut from the result set; when more was fetched than the page
\* holds, the next token stands for the last row of the page.
LEMMA PageFacts ==
  ASSUME NEW found \in SUBSET Pool, IsFiniteSet(found),
         NEW r \in Requests, NEW now \in Nat, key \in [Servers -> Keys]
  PROVE  LET page == PageAnswer(found, r, now)
             desc == Descending(r.query.sort)
         IN  /\ page \in Answers
             /\ page.status = 200
             /\ page.data \in SUBSET found
             /\ ~HasMore(found, r.limit) =>
                  page.data = found /\ page.next = NoCursor
             /\ HasMore(found, r.limit) =>
                  /\ page.data = Top(found, desc, r.limit)
                  /\ page.next # NoCursor
                  /\ SignedFor(page.next, r.query)
                  /\ \E last \in page.data :
                       /\ Bound(page.next) = [at |-> last.at, id |-> last.id]
                       /\ \A s \in page.data : s = last \/ Before(desc, s, last)
<1>. DEFINE desc == Descending(r.query.sort)
            more == HasMore(found, r.limit)
            data == Trim(found, desc, r.limit)
            page == PageAnswer(found, r, now)
            next == NextCursor(data, r, now)
<1>1. /\ r.limit \in Nat \ {0}
      /\ r.query \in Queries
      /\ r.server \in Servers
      /\ key[r.server] \in Keys
      /\ desc \in BOOLEAN
  BY LimitIsPositive DEF Requests, Descending
<1>2. Ordered(found) /\ data \in SUBSET found
  BY PoolIsOrdered DEF Trim, Top
<1>3. ASSUME more
      PROVE  /\ data = Top(found, desc, r.limit)
             /\ next \in Tokens(Keys)
             /\ next # NoCursor
             /\ SignedFor(next, r.query)
             /\ \E last \in data :
                  /\ Bound(next) = [at |-> last.at, id |-> last.id]
                  /\ \A s \in data : s = last \/ Before(desc, s, last)
  <2>1. data = Top(found, desc, r.limit)
    BY <1>3 DEF Trim
  <2>2. found # {}
    <3>. SUFFICES ASSUME found = {} PROVE FALSE
      OBVIOUS
    <3>1. Cardinality(found) = 0
      BY FS_EmptySet
    <3>. QED
      BY <3>1, <1>1, <1>3 DEF HasMore
  <2>3. data # {}
    BY <1>1, <1>2, <2>1, <2>2, TopIsNonEmpty
  <2>4. IsFiniteSet(data) /\ Ordered(data)
    BY <1>2, FS_Subset, OrderedSubset, Zenon
  <2>. DEFINE last == LastOf(data, desc)
  <2>5. last \in data /\ \A s \in data : s = last \/ Before(desc, s, last)
    BY <1>1, <2>3, <2>4, LastExists, Zenon
  <2>6. last \in Pool
    BY <1>2, <2>5
  <2>. HIDE DEF last
  <2>. DEFINE tok == Encode(Payload(Lang(r.server), last, desc,
                                    Fingerprint(r.query), now), key[r.server])
  <2>7. next = tok
    BY Zenon DEF NextCursor, last
  <2>8. StandsFor(tok, last, r.query)
    BY <1>1, <2>6, EncodeFacts
  <2>. HIDE DEF tok, next
  <2>. QED
    BY <2>1, <2>5, <2>7, <2>8 DEF StandsFor
<1>4. /\ page.status = 200
      /\ page.data = data
      /\ page.next = IF more THEN next ELSE NoCursor
  BY DEF PageAnswer
<1>5. page \in Answers
  <2>1. (IF more THEN next ELSE NoCursor) \in Tokens(Keys) \cup {NoCursor}
    BY <1>3
  <2>2. data \in SUBSET Pool
    BY <1>2
  <2>3. more \in BOOLEAN
    BY DEF HasMore
  <2>. HIDE DEF more, next, data
  <2>4. page = [status |-> 200, code |-> "ok", data |-> data,
                next |-> IF more THEN next ELSE NoCursor, hasMore |-> more]
    BY DEF PageAnswer, more, next, data
  <2>. QED
    BY <2>1, <2>2, <2>3, <2>4 DEF Answers
<1>6. ~more => data = found
  BY DEF Trim
<1>. HIDE DEF page, next, data
<1>7. more => /\ page.data = Top(found, desc, r.limit)
              /\ page.next # NoCursor
              /\ SignedFor(page.next, r.query)
              /\ \E last \in page.data :
                   /\ Bound(page.next) = [at |-> last.at, id |-> last.id]
                   /\ \A s \in page.data : s = last \/ Before(desc, s, last)
  BY <1>3, <1>4
<1>8. ~more => page.data = found /\ page.next = NoCursor
  BY <1>4, <1>6
<1>9. page.data \in SUBSET found
  BY <1>2, <1>4
<1>. QED
  BY <1>4, <1>5, <1>7, <1>8, <1>9 DEF page

-----------------------------------------------------------------------------
(* Types.                                                                  *)

\* A request is well formed whatever the client asks for.
LEMMA SendType ==
  ASSUME TypeOK, NEW s \in Servers, NEW q \in Queries, NEW asked \in AskedLimits,
         Send(s, q, asked)
  PROVE  stage' = "received" /\ req' \in Requests
BY CapLimitRange DEF Send, Requests, TypeOK

\* A refusal is an answer.
LEMMA ErrorType ==
  ASSUME NEW code \in {"invalid_cursor", "cursor_expired",
                       "cursor_filter_mismatch", "internal_error"}
  PROVE  ErrorAnswer(code) \in Answers
BY DEF ErrorAnswer, StatusFor, Answers

\* What Resume may conclude from a token.
LEMMA VerdictType ==
  ASSUME NEW lang, NEW tok, NEW k, NEW now, NEW q
  PROVE  Verdict(lang, tok, k, now, q) \in
           {"ok", "invalid_cursor", "cursor_expired", "cursor_filter_mismatch"}
BY DEF Verdict, DecodeAt

\* No step of a walk takes a variable out of its type.
LEMMA TypeStep == TypeOK /\ [Next]_vars => TypeOK'
<1>. SUFFICES ASSUME TypeOK, [Next]_vars PROVE TypeOK'
  OBVIOUS
<1>1. ASSUME NEW r \in Pool, Insert(r) PROVE TypeOK'
  <2>1. IsFiniteSet(rows')
    BY <1>1, FS_AddElement DEF Insert, TypeOK
  <2>. QED
    BY <1>1, <2>1 DEF Insert, TypeOK, client, flight
<1>2. ASSUME NEW r \in Pool, Delete(r) PROVE TypeOK'
  <2>1. IsFiniteSet(rows')
    BY <1>2, FS_RemoveElement DEF Delete, TypeOK
  <2>. QED
    BY <1>2, <2>1 DEF Delete, TypeOK, client, flight
<1>3. CASE Tick
  BY <1>3, WalkAssumption DEF Tick, TypeOK, table, client, flight
<1>4. CASE Lose
  BY <1>4, FS_EmptySet, WalkAssumption DEF Lose, Fault, TypeOK, table, client
<1>5. ASSUME NEW s \in Servers, NEW k \in Keys, Rotate(s, k) PROVE TypeOK'
  <2>1. key' \in [Servers -> Keys]
    BY <1>5 DEF Rotate, TypeOK
  <2>2. faults' \in 0 .. MaxFaults
    BY <1>5, WalkAssumption DEF Rotate, Fault, TypeOK
  <2>3. \/ stage' = "idle" /\ fetched' = {}
        \/ UNCHANGED flight
    BY <1>5 DEF Rotate
  <2>. QED
    BY <1>5, <2>1, <2>2, <2>3, FS_EmptySet
       DEF Rotate, TypeOK, table, client, flight
<1>6. ASSUME NEW s \in Servers, NEW asked \in AskedLimits, Request(s, asked)
      PROVE  TypeOK'
  <2>1. Send(s, query, asked) /\ query \in Queries
    BY <1>6 DEF Request, TypeOK
  <2>2. stage' = "received" /\ req' \in Requests
    BY <2>1, SendType
  <2>. QED
    BY <1>6, <2>2 DEF Request, Send, TypeOK, table, client
<1>7. ASSUME NEW s \in Servers, NEW q \in Queries, NEW asked \in AskedLimits,
             RequestOther(s, q, asked)
      PROVE  TypeOK'
  <2>1. Send(s, q, asked)
    BY <1>7 DEF RequestOther
  <2>2. stage' = "received" /\ req' \in Requests
    BY <2>1, SendType
  <2>. QED
    BY <1>7, <2>2, WalkAssumption
       DEF RequestOther, Send, Fault, TypeOK, table, client
<1>8. CASE Resume
  <2>. DEFINE verdict == IF req.cursor = NoCursor THEN "ok"
                         ELSE Verdict(Lang(req.server), req.cursor,
                                      key[req.server], clock, req.query)
  <2>1. verdict \in {"ok", "invalid_cursor", "cursor_expired",
                     "cursor_filter_mismatch"}
    BY VerdictType
  <2>2. \/ stage' = "resumed" /\ UNCHANGED <<fetched, answer>>
        \/ Answer(ErrorAnswer(verdict)) /\ verdict # "ok"
    BY <1>8 DEF Resume
  <2>3. stage' = "answered" => answer' \in Answers
    BY <2>1, <2>2, ErrorType DEF Answer
  <2>4. /\ stage' \in {"resumed", "answered"}
        /\ fetched' = fetched \/ fetched' = {}
    BY <2>2 DEF Answer
  <2>5. stage # "idle"
    BY <1>8 DEF Resume
  <2>. QED
    BY <1>8, <2>3, <2>4, <2>5, FS_EmptySet DEF Resume, TypeOK, table, client
<1>9. CASE Fetch
  <2>1. fetched' \in SUBSET Pool /\ IsFiniteSet(fetched')
    <3>1. /\ Candidates(req) \in SUBSET rows
          /\ IsFiniteSet(Candidates(req))
      BY CandidatesFacts
    <3>2. fetched' \in SUBSET Candidates(req)
      BY <1>9 DEF Fetch, Top
    <3>3. IsFiniteSet(fetched')
      BY <3>1, <3>2, FS_Subset, Zenon
    <3>. QED
      BY <3>1, <3>2, <3>3 DEF TypeOK
  <2>. QED
    BY <1>9, <2>1 DEF Fetch, TypeOK, table
<1>10. CASE FetchFails
  <2>1. answer' \in Answers
    BY <1>10, ErrorType DEF FetchFails, Answer
  <2>. QED
    BY <1>10, <2>1, FS_EmptySet, WalkAssumption
       DEF FetchFails, Fault, Answer, TypeOK, table, client
<1>11. CASE Respond
  <2>1. /\ fetched \in SUBSET Pool /\ IsFiniteSet(fetched)
        /\ req \in Requests
        /\ clock \in Nat
        /\ key \in [Servers -> Keys]
    BY <1>11 DEF Respond, TypeOK
  <2>2. PageAnswer(fetched, req, clock) \in Answers
    BY <2>1, PageFacts
  <2>. QED
    BY <1>11, <2>1, <2>2, FS_EmptySet
       DEF Respond, Answer, TypeOK, table, client
<1>12. CASE Deliver
  <2>1. answer.data \in SUBSET Pool /\ answer.next \in Tokens(Keys) \cup {NoCursor}
    BY <1>12 DEF Deliver, TypeOK, Answers
  <2>. QED
    BY <1>12, <2>1 DEF Deliver, TypeOK, table
<1>13. CASE UNCHANGED vars
  BY <1>13 DEF vars, TypeOK
<1>. QED
  BY <1>1, <1>2, <1>3, <1>4, <1>5, <1>6, <1>7, <1>8, <1>9, <1>10, <1>11, <1>12,
     <1>13 DEF Next

\* A walk begins well typed.
LEMMA TypeInit == Init => TypeOK
<1>. SUFFICES ASSUME Init PROVE TypeOK
  OBVIOUS
<1>1. key \in [Servers -> Keys]
  <2>1. PICK k \in Keys : key = [s \in Servers |-> k]
    BY DEF Init
  <2>. QED
    BY <2>1
<1>2. clock \in 0 .. MaxClock /\ faults \in 0 .. MaxFaults
  BY WalkAssumption DEF Init
<1>. QED
  BY <1>1, <1>2, FS_EmptySet DEF Init, TypeOK

\* Every state of every walk is well typed; in particular no request runs with
\* a limit outside 1 .. MaxLimit, and every token is one Encode produces.
THEOREM TypeCorrect == Spec => []TypeOK
BY TypeInit, TypeStep, PTL DEF Spec

-----------------------------------------------------------------------------
(* The walk.  One lemma for each action that moves it; every lemma assumes *)
(* the whole invariant before the step.                                    *)

Inv == TypeOK /\ WalkInvariant

\* The direction of the walk is a boolean, whatever the filters.
LEMMA ForwardType == Forward \in BOOLEAN
BY DEF Forward, Descending

\* Rows of the table are totally ordered along the walk.
LEMMA WalkOrder ==
  /\ \A a \in Pool : ~Before(Forward, a, a)
  /\ \A a, b, c \in Pool :
       Before(Forward, a, b) /\ Before(Forward, b, c) => Before(Forward, a, c)
  /\ \A a, b \in Pool : ~Before(Forward, b, a) => a = b \/ Before(Forward, a, b)
BY ForwardType, PoolIsOrdered, BeforeIsStrict

\* A request of the walk that carries the token asks for the rows after the
\* last one delivered, and no owed row is among those before it.
LEMMA OwedAreCandidates ==
  ASSUME Inv, stage = "resumed", NEW r \in Matching(rows, query.account),
         r \notin seen,
         req.cursor # NoCursor => r \in base
  PROVE  r \in Candidates(req)
<1>1. req.query = query /\ req.cursor = token
  BY DEF Inv, WalkInvariant, RequestBelongs
<1>2. CASE req.cursor = NoCursor
  BY <1>1, <1>2 DEF Candidates
<1>3. CASE req.cursor # NoCursor
  <2>1. Holds(token, seen)
    BY <1>1, <1>3 DEF Inv, WalkInvariant, TokenIsPosition
  <2>2. PICK last \in seen :
          /\ Bound(token) = [at |-> last.at, id |-> last.id]
          /\ \A s \in seen : s = last \/ Before(Forward, s, last)
    BY <2>1 DEF Holds
  <2>3. r \in Pool /\ last \in Pool /\ r # last
    BY <2>2 DEF Inv, TypeOK, Matching
  <2>4. ~Before(Forward, r, last)
    <3>1. r \in Owed
      BY <1>3 DEF Owed, Matching
    <3>. QED
      BY <3>1, <2>2 DEF Inv, WalkInvariant, NothingSkipped
  <2>5. Before(Forward, last, r)
    BY <2>3, <2>4, WalkOrder
  <2>6. Before(Forward, Bound(token), r)
    BY <2>2, <2>5 DEF Before
  <2>. QED
    BY <1>1, <1>3, <2>6 DEF Candidates, Beyond, Forward
<1>. QED
  BY <1>2, <1>3

\* A request never asks for a row the client already has.
LEMMA CandidatesAreNew ==
  ASSUME Inv, stage = "resumed", NEW r \in Candidates(req), NEW s \in seen
  PROVE  Before(Forward, s, r)
<1>1. req.query = query /\ req.cursor = token /\ ~done
  BY DEF Inv, WalkInvariant, RequestBelongs
<1>2. token # NoCursor
  BY <1>1 DEF Inv, WalkInvariant, TokenIsPosition
<1>3. Holds(token, seen)
  BY <1>2 DEF Inv, WalkInvariant, TokenIsPosition
<1>4. PICK last \in seen :
        /\ Bound(token) = [at |-> last.at, id |-> last.id]
        /\ \A x \in seen : x = last \/ Before(Forward, x, last)
  BY <1>3 DEF Holds
<1>5. r \in rows /\ Before(Forward, Bound(token), r)
  BY <1>1, <1>2 DEF Candidates, Beyond, Matching, Forward
<1>6. Before(Forward, last, r)
  BY <1>4, <1>5 DEF Before
<1>7. r \in Pool /\ s \in Pool /\ last \in Pool
  BY <1>4, <1>5 DEF Inv, TypeOK
<1>. QED
  BY <1>4, <1>6, <1>7, WalkOrder

\* One SELECT of one row more than the page leaves an owed row out only when
\* there is more to come.
LEMMA FetchContinues ==
  ASSUME Inv, Fetch
  PROVE  WalkInvariant'
<1>. DEFINE C == Candidates(req)
<1>1. /\ stage = "resumed" /\ stage' = "fetched"
      /\ fetched' = Top(C, Descending(req.query.sort), req.limit + 1)
      /\ base' = IF req.cursor = NoCursor THEN rows ELSE base
      /\ UNCHANGED <<req, answer, query, token, seen, done, rows, fresh>>
  BY DEF Fetch, table
<1>2. req.query = query /\ req.cursor = token /\ ~done
  BY <1>1 DEF Inv, WalkInvariant, RequestBelongs
<1>3. req.limit \in Nat \ {0}
  BY <1>1, LimitIsPositive DEF Inv, TypeOK
<1>4. C \in SUBSET rows /\ IsFiniteSet(C) /\ Ordered(C)
  BY CandidatesFacts DEF Inv
<1>. HIDE DEF C
<1>5. fetched' = Top(C, Forward, req.limit + 1)
  BY <1>1, <1>2 DEF Forward
<1>6. \A r \in C : r \notin fetched' =>
        /\ HasMore(fetched', req.limit)
        /\ \A s \in fetched' : Before(Forward, s, r)
  <2>. SUFFICES ASSUME NEW r \in C, r \notin fetched'
                PROVE  /\ HasMore(fetched', req.limit)
                       /\ \A s \in fetched' : Before(Forward, s, r)
    OBVIOUS
  <2>1. req.limit + 1 \in Nat
    BY <1>3
  <2>2. /\ ~(Cardinality(fetched') < req.limit + 1)
        /\ \A s \in fetched' : Before(Forward, s, r)
    BY <1>4, <1>5, <2>1, ForwardType, LeftOutIsLater
  <2>3. fetched' \in SUBSET C /\ IsFiniteSet(fetched')
    <3>1. fetched' \in SUBSET C
      BY <1>5 DEF Top
    <3>. QED
      BY <3>1, <1>4, FS_Subset, Zenon
  <2>4. Cardinality(fetched') \in Nat
    BY <2>3, FS_CardinalityType, Zenon
  <2>. QED
    BY <2>2, <2>4, <1>3 DEF HasMore
<1>7. fetched' \in SUBSET C
  BY <1>5 DEF Top
<1>8. Forward' = Forward
  BY <1>1 DEF Forward
<1>9. \A r \in Owed' : r \notin seen => r \in C
  <2>. SUFFICES ASSUME NEW r \in Owed', r \notin seen PROVE r \in C
    OBVIOUS
  <2>1. r \in Matching(rows, query.account)
    BY <1>1 DEF Owed, Matching
  <2>2. req.cursor # NoCursor => r \in base
    BY <1>1 DEF Owed, Matching
  <2>. QED
    BY <1>1, <2>1, <2>2, OwedAreCandidates DEF C
<1>10. \A s \in seen, r \in fetched' : Before(Forward, s, r)
  BY <1>1, <1>7, CandidatesAreNew DEF C
<1>11. fetched' = Matching(fetched', query.account)
  <2>1. C = Matching(C, query.account)
    BY <1>2 DEF C, Candidates, Beyond, Matching
  <2>. QED
    BY <2>1, <1>7 DEF Matching
<1>12. FetchedContinues'
  BY <1>1, <1>6, <1>8, <1>9, <1>10, <1>11
     DEF FetchedContinues, Continues, HasMore
<1>13. TokenIsPosition'
  BY <1>1, <1>8 DEF Inv, WalkInvariant, TokenIsPosition, Holds
<1>14. RequestBelongs'
  BY <1>1, <1>2 DEF RequestBelongs, PageReady
<1>15. BaseIsOld'
  BY <1>1 DEF Inv, WalkInvariant, TypeOK, BaseIsOld
<1>16. AnswerContinues'
  BY <1>1 DEF AnswerContinues, PageReady
<1>17. NothingSkipped'
  <2>1. CASE req.cursor = NoCursor
    <3>1. seen = {}
      BY <2>1, <1>2 DEF Inv, WalkInvariant, TokenIsPosition
    <3>. QED
      BY <3>1, <1>1 DEF NothingSkipped
  <2>2. CASE req.cursor # NoCursor
    BY <2>2, <1>1, <1>8 DEF Inv, WalkInvariant, NothingSkipped, Owed
  <2>. QED
    BY <2>1, <2>2
<1>18. EndIsComplete'
  BY <1>1, <1>2 DEF EndIsComplete
<1>. QED
  BY <1>12, <1>13, <1>14, <1>15, <1>16, <1>17, <1>18 DEF WalkInvariant

\* Trimming the row fetched beyond the page keeps what FetchContinues says:
\* the token that goes with a full page stands for its last row.
LEMMA RespondContinues ==
  ASSUME Inv, Respond
  PROVE  WalkInvariant'
<1>. DEFINE page == PageAnswer(fetched, req, clock)
            more == HasMore(fetched, req.limit)
<1>1. /\ stage = "fetched" /\ stage' = "answered"
      /\ answer' = page
      /\ UNCHANGED <<req, query, token, seen, base, done, rows, fresh>>
  BY DEF Respond, Answer, table, client
<1>2. req.query = query /\ req.cursor = token /\ ~done
  BY <1>1 DEF Inv, WalkInvariant, RequestBelongs
<1>3. /\ req \in Requests
      /\ fetched \in SUBSET Pool /\ IsFiniteSet(fetched)
      /\ clock \in Nat
      /\ key \in [Servers -> Keys]
  BY <1>1 DEF Inv, TypeOK
<1>4. req.limit \in Nat /\ Ordered(fetched)
  BY <1>3, LimitIsPositive, PoolIsOrdered
<1>5. /\ page.status = 200
      /\ page.data \in SUBSET fetched
      /\ ~more => page.data = fetched /\ page.next = NoCursor
      /\ more =>
           /\ page.data = Top(fetched, Forward, req.limit)
           /\ page.next # NoCursor
           /\ SignedFor(page.next, query)
           /\ \E last \in page.data :
                /\ Bound(page.next) = [at |-> last.at, id |-> last.id]
                /\ \A s \in page.data : s = last \/ Before(Forward, s, last)
  BY <1>2, <1>3, PageFacts DEF Forward
<1>6. Continues(fetched, more)
  BY <1>1 DEF Inv, WalkInvariant, FetchedContinues
<1>. HIDE DEF page, more
<1>7. Continues(page.data, page.next # NoCursor)
  <2>1. CASE ~more
    BY <2>1, <1>5, <1>6 DEF Continues
  <2>2. CASE more
    <3>1. \A s \in seen, r \in page.data : Before(Forward, s, r)
      BY <1>5, <1>6 DEF Continues
    <3>2. ASSUME NEW r \in Owed, r \notin seen \cup page.data,
                 NEW s \in page.data
          PROVE  Before(Forward, s, r)
      <4>1. CASE r \in fetched
        BY <4>1, <3>2, <2>2, <1>3, <1>4, <1>5, ForwardType, LeftOutIsLater
      <4>2. CASE r \notin fetched
        BY <4>2, <3>2, <1>5, <1>6 DEF Continues
      <4>. QED
        BY <4>1, <4>2
    <3>3. page.data = Matching(page.data, query.account)
      BY <1>5, <1>6 DEF Continues, Matching
    <3>. QED
      BY <2>2, <1>5, <3>1, <3>2, <3>3 DEF Continues
  <2>. QED
    BY <2>1, <2>2
<1>8. page.next # NoCursor => Holds(page.next, page.data)
  BY <1>5 DEF Holds
<1>9. AnswerContinues'
  BY <1>1, <1>7, <1>8
     DEF AnswerContinues, Continues, Holds, Owed, Forward
<1>10. FetchedContinues'
  BY <1>1 DEF FetchedContinues
<1>11. TokenIsPosition'
  BY <1>1 DEF Inv, WalkInvariant, TokenIsPosition, Holds, Forward
<1>12. RequestBelongs'
  BY <1>1, <1>2 DEF RequestBelongs
<1>13. BaseIsOld' /\ NothingSkipped' /\ EndIsComplete'
  BY <1>1 DEF Inv, WalkInvariant, BaseIsOld, NothingSkipped, EndIsComplete,
              Owed, Forward
<1>. QED
  BY <1>9, <1>10, <1>11, <1>12, <1>13 DEF WalkInvariant

\* A page received extends the walk without a gap; a refusal that ends the
\* life of the token starts it over.
LEMMA DeliverContinues ==
  ASSUME Inv, Deliver
  PROVE  WalkInvariant'
<1>1. /\ stage = "answered" /\ stage' = "idle"
      /\ UNCHANGED <<query, rows, fresh>>
      /\ ~done
  BY DEF Deliver, table, Inv, WalkInvariant, RequestBelongs
<1>2. Forward' = Forward
  BY <1>1 DEF Forward
<1>3. RequestBelongs' /\ FetchedContinues' /\ AnswerContinues'
  BY <1>1 DEF RequestBelongs, FetchedContinues, AnswerContinues, PageReady
<1>4. CASE answer.status = 200
  <2>1. /\ seen' = seen \cup answer.data
        /\ token' = answer.next
        /\ done' = (answer.next = NoCursor)
        /\ base' = base
    BY <1>4 DEF Deliver
  <2>2. /\ Continues(answer.data, answer.next # NoCursor)
        /\ answer.next # NoCursor => Holds(answer.next, answer.data)
    BY <1>1, <1>4 DEF Inv, WalkInvariant, AnswerContinues, PageReady
  <2>3. Owed' = Owed
    BY <1>1, <2>1 DEF Owed
  <2>4. /\ seen \in SUBSET Pool /\ answer.data \in SUBSET Pool
        /\ Owed \in SUBSET Pool
    BY <1>1 DEF Inv, TypeOK, Answers, Owed, Matching
  <2>5. NothingSkipped'
    <3>. SUFFICES ASSUME NEW r \in Owed, NEW s \in seen \cup answer.data,
                         Before(Forward, r, s), r \notin seen \cup answer.data
                  PROVE  FALSE
      BY <1>2, <2>1, <2>3 DEF NothingSkipped
    <3>1. CASE s \in seen
      BY <3>1 DEF Inv, WalkInvariant, NothingSkipped
    <3>2. CASE s \in answer.data
      <4>1. Before(Forward, s, r)
        BY <3>2, <2>2 DEF Continues
      <4>2. ~Before(Forward, r, r)
        BY <2>4, WalkOrder
      <4>. QED
        BY <4>1, <4>2, <2>4, WalkOrder
    <3>. QED
      BY <3>1, <3>2
  <2>6. EndIsComplete'
    BY <2>1, <2>2, <2>3 DEF EndIsComplete, Continues
  <2>7. TokenIsPosition'
    <3>1. ASSUME answer.next # NoCursor
          PROVE  Holds(answer.next, seen \cup answer.data)
      <4>1. PICK last \in answer.data :
              /\ Bound(answer.next) = [at |-> last.at, id |-> last.id]
              /\ \A s \in answer.data : s = last \/ Before(Forward, s, last)
        BY <3>1, <2>2 DEF Holds
      <4>2. \A s \in seen : Before(Forward, s, last)
        BY <2>2 DEF Continues
      <4>3. SignedFor(answer.next, query)
        BY <3>1, <2>2 DEF Holds
      <4>. QED
        BY <4>1, <4>2, <4>3 DEF Holds
    <3>. QED
      BY <1>1, <1>2, <2>1, <3>1 DEF TokenIsPosition, Holds
  <2>8. BaseIsOld'
    BY <1>1, <2>1 DEF Inv, WalkInvariant, BaseIsOld
  <2>. QED
    BY <1>3, <2>5, <2>6, <2>7, <2>8 DEF WalkInvariant
<1>5. CASE /\ answer.status # 200
           /\ answer.code \in {"cursor_expired", "invalid_cursor"}
  <2>1. seen' = {} /\ token' = NoCursor /\ base' = {} /\ ~done'
    BY <1>1, <1>5 DEF Deliver
  <2>. QED
    BY <1>3, <2>1 DEF WalkInvariant, TokenIsPosition, BaseIsOld,
                      NothingSkipped, EndIsComplete
<1>6. CASE /\ answer.status # 200
           /\ answer.code \notin {"cursor_expired", "invalid_cursor"}
  <2>1. UNCHANGED <<seen, token, base, done>>
    BY <1>6 DEF Deliver
  <2>. QED
    BY <1>1, <1>2, <1>3, <2>1
       DEF Inv, WalkInvariant, TokenIsPosition, Holds, BaseIsOld,
           NothingSkipped, EndIsComplete, Owed
<1>. QED
  BY <1>4, <1>5, <1>6

\* A token only resumes the walk it was issued for: the fingerprint it carries
\* is that of one filter set and no other.
LEMMA ResumeBelongs ==
  ASSUME Inv, Resume
  PROVE  WalkInvariant'
<1>1. /\ stage = "received" /\ stage' \in {"resumed", "answered"}
      /\ UNCHANGED <<req, query, token, seen, base, done, rows, fresh>>
  BY DEF Resume, Answer, table, client
<1>2. req.cursor = token /\ ~done
  BY <1>1 DEF Inv, WalkInvariant, RequestBelongs
<1>3. ~PageReady'
  <2>. DEFINE verdict == IF req.cursor = NoCursor THEN "ok"
                         ELSE Verdict(Lang(req.server), req.cursor,
                                      key[req.server], clock, req.query)
  <2>1. \/ stage' = "resumed"
        \/ answer' = ErrorAnswer(verdict)
    BY DEF Resume, Answer
  <2>2. ErrorAnswer(verdict).status # 200
    BY DEF ErrorAnswer, StatusFor
  <2>. QED
    BY <2>1, <2>2 DEF PageReady
<1>4. ASSUME stage' = "resumed" PROVE req.query = query
  <2>1. CASE token = NoCursor
    BY <1>1, <2>1 DEF Inv, WalkInvariant, RequestBelongs
  <2>2. CASE token # NoCursor
    <3>1. Verdict(Lang(req.server), token, key[req.server], clock,
                  req.query) = "ok"
      BY <1>2, <1>4, <2>2 DEF Resume, Answer
    <3>2. token.payload.f = Fingerprint(req.query)
      BY <3>1 DEF Verdict
    <3>3. token.payload.f = Fingerprint(query)
      BY <2>2 DEF Inv, WalkInvariant, TokenIsPosition, Holds, SignedFor
    <3>4. req.query \in Filters /\ query \in Filters
      BY <1>1, WalkAssumption DEF Inv, TypeOK, Requests
    <3>. QED
      BY <3>2, <3>3, <3>4, FingerprintIsInjective
  <2>. QED
    BY <2>1, <2>2
<1>5. RequestBelongs'
  <2>1. token = NoCursor => req.query = query
    BY <1>1 DEF Inv, WalkInvariant, RequestBelongs
  <2>. QED
    BY <1>1, <1>2, <1>3, <1>4, <2>1 DEF RequestBelongs
<1>6. FetchedContinues' /\ AnswerContinues'
  BY <1>1, <1>3 DEF FetchedContinues, AnswerContinues
<1>7. TokenIsPosition' /\ BaseIsOld' /\ NothingSkipped' /\ EndIsComplete'
  BY <1>1 DEF Inv, WalkInvariant, TokenIsPosition, Holds, BaseIsOld,
              NothingSkipped, EndIsComplete, Owed, Forward
<1>. QED
  BY <1>5, <1>6, <1>7 DEF WalkInvariant

\* Asking moves nothing.
LEMMA SendBelongs ==
  ASSUME Inv, NEW s \in Servers, NEW q \in Queries, NEW asked \in AskedLimits,
         Send(s, q, asked), token = NoCursor => q = query
  PROVE  WalkInvariant'
<1>1. /\ stage' = "received" /\ ~done
      /\ req'.cursor = token /\ req'.query = q
      /\ UNCHANGED <<query, token, seen, base, done, rows, fresh>>
  BY DEF Send, table, client
<1>2. RequestBelongs'
  BY <1>1 DEF RequestBelongs, PageReady
<1>3. FetchedContinues' /\ AnswerContinues'
  BY <1>1 DEF FetchedContinues, AnswerContinues, PageReady
<1>4. TokenIsPosition' /\ BaseIsOld' /\ NothingSkipped' /\ EndIsComplete'
  BY <1>1 DEF Inv, WalkInvariant, TokenIsPosition, Holds, BaseIsOld,
              NothingSkipped, EndIsComplete, Owed, Forward
<1>. QED
  BY <1>2, <1>3, <1>4 DEF WalkInvariant

\* What is owed may shrink under a walk, and nothing else about it changes: a
\* row inserted after the first page is not owed, a row deleted is no longer.
LEMMA WritesAreHarmless ==
  ASSUME Inv, UNCHANGED client, UNCHANGED flight,
         Owed' \in SUBSET Owed, BaseIsOld'
  PROVE  WalkInvariant'
<1>1. Forward' = Forward
  BY DEF client, Forward
<1>2. RequestBelongs' /\ TokenIsPosition'
  BY <1>1 DEF Inv, WalkInvariant, RequestBelongs, TokenIsPosition, Holds,
              PageReady, client, flight
<1>3. FetchedContinues'
  BY <1>1 DEF Inv, WalkInvariant, FetchedContinues, Continues, client, flight
<1>4. AnswerContinues'
  BY <1>1 DEF Inv, WalkInvariant, AnswerContinues, Continues, PageReady,
              Holds, client, flight
<1>5. NothingSkipped' /\ EndIsComplete'
  BY <1>1 DEF Inv, WalkInvariant, NothingSkipped, EndIsComplete, client
<1>. QED
  BY <1>2, <1>3, <1>4, <1>5 DEF WalkInvariant

\* Forgetting the request in flight leaves the walk where the client has it.
LEMMA LossIsHarmless ==
  ASSUME Inv, UNCHANGED client, UNCHANGED table, stage' = "idle"
  PROVE  WalkInvariant'
BY DEF Inv, WalkInvariant, RequestBelongs, TokenIsPosition, Holds, Forward,
       FetchedContinues, AnswerContinues, PageReady, BaseIsOld,
       NothingSkipped, EndIsComplete, Owed, client, table

\* WalkInvariant is inductive.
LEMMA WalkStep == Inv /\ [Next]_vars => WalkInvariant'
<1>. SUFFICES ASSUME Inv, [Next]_vars PROVE WalkInvariant'
  OBVIOUS
<1>1. ASSUME NEW r \in Pool, Insert(r) PROVE WalkInvariant'
  <2>1. r \notin base
    BY <1>1 DEF Insert, Inv, WalkInvariant, BaseIsOld
  <2>2. Owed' \in SUBSET Owed /\ BaseIsOld'
    BY <1>1, <2>1 DEF Insert, client, Owed, Matching, Inv, WalkInvariant,
                      BaseIsOld
  <2>. QED
    BY <1>1, <2>2, WritesAreHarmless DEF Insert
<1>2. ASSUME NEW r \in Pool, Delete(r) PROVE WalkInvariant'
  <2>1. Owed' \in SUBSET Owed /\ BaseIsOld'
    BY <1>2 DEF Delete, client, Owed, Matching, Inv, WalkInvariant, BaseIsOld
  <2>. QED
    BY <1>2, <2>1, WritesAreHarmless DEF Delete
<1>3. ASSUME UNCHANGED table, UNCHANGED client, UNCHANGED flight
      PROVE  WalkInvariant'
  <2>1. Owed' \in SUBSET Owed /\ BaseIsOld'
    BY <1>3 DEF table, client, Owed, Inv, WalkInvariant, BaseIsOld
  <2>. QED
    BY <1>3, <2>1, WritesAreHarmless
<1>4. CASE Tick
  BY <1>3, <1>4 DEF Tick
<1>5. CASE Lose
  BY <1>5, LossIsHarmless DEF Lose, table
<1>6. ASSUME NEW s \in Servers, NEW k \in Keys, Rotate(s, k)
      PROVE  WalkInvariant'
  <2>1. /\ UNCHANGED <<table, client>>
        /\ UNCHANGED flight \/ stage' = "idle"
    BY <1>6 DEF Rotate
  <2>. QED
    BY <2>1, <1>3, LossIsHarmless
<1>7. ASSUME NEW s \in Servers, NEW asked \in AskedLimits, Request(s, asked)
      PROVE  WalkInvariant'
  <2>1. Send(s, query, asked) /\ query \in Queries
    BY <1>7 DEF Request, Inv, TypeOK
  <2>. QED
    BY <2>1, SendBelongs
<1>8. ASSUME NEW s \in Servers, NEW q \in Queries, NEW asked \in AskedLimits,
             RequestOther(s, q, asked)
      PROVE  WalkInvariant'
  BY <1>8, SendBelongs DEF RequestOther
<1>9. CASE Resume
  BY <1>9, ResumeBelongs
<1>10. CASE Fetch
  BY <1>10, FetchContinues
<1>11. CASE FetchFails
  <2>1. /\ ErrorAnswer("internal_error").status # 200
        /\ stage' = "answered"
        /\ answer' = ErrorAnswer("internal_error")
        /\ UNCHANGED <<req, query, token, seen, base, done, rows, fresh>>
    BY <1>11 DEF FetchFails, Answer, table, client, ErrorAnswer, StatusFor
  <2>2. RequestBelongs'
    BY <1>11, <2>1
       DEF FetchFails, PageReady, Inv, WalkInvariant, RequestBelongs
  <2>. QED
    BY <2>1, <2>2
       DEF PageReady, Inv, WalkInvariant, FetchedContinues, AnswerContinues,
           TokenIsPosition, Holds, BaseIsOld, NothingSkipped, EndIsComplete,
           Owed, Forward
<1>12. CASE Respond
  BY <1>12, RespondContinues
<1>13. CASE Deliver
  BY <1>13, DeliverContinues
<1>14. CASE UNCHANGED vars
  BY <1>3, <1>14 DEF vars, table, client, flight
<1>. QED
  BY <1>1, <1>2, <1>4, <1>5, <1>6, <1>7, <1>8, <1>9, <1>10, <1>11, <1>12,
     <1>13, <1>14 DEF Next

\* The walk's inductive invariant holds of every walk.
THEOREM WalkSafe == Spec => []Inv
<1>1. Init => TypeOK /\ WalkInvariant
  <2>1. Init => TypeOK
    BY TypeInit
  <2>2. Init => WalkInvariant
    BY DEF Init, WalkInvariant, RequestBelongs, TokenIsPosition,
           FetchedContinues, AnswerContinues, PageReady, BaseIsOld,
           NothingSkipped, EndIsComplete, Owed, Matching
  <2>. QED
    BY <2>1, <2>2
<1>. QED
  BY <1>1, TypeStep, WalkStep, PTL DEF Spec, Inv

\* The walk never loses its place: the token always stands for the last row
\* delivered and the walk's filters, and a page on its way continues from it.
THEOREM WalkKeepsItsPlace == Spec => []WalkInvariant
<1>1. Inv => WalkInvariant
  BY DEF Inv
<1>. QED
  BY <1>1, WalkSafe, PTL

-----------------------------------------------------------------------------
(* What the client relies on.                                              *)

\* No owed row is ever jumped over.
THEOREM NothingIsSkipped == Spec => []NothingSkipped
<1>1. Inv => NothingSkipped
  BY DEF Inv, WalkInvariant
<1>. QED
  BY <1>1, WalkSafe, PTL

\* When next is null, the client has every owed row.
THEOREM TheEndIsComplete == Spec => []EndIsComplete
<1>1. Inv => EndIsComplete
  BY DEF Inv, WalkInvariant
<1>. QED
  BY <1>1, WalkSafe, PTL

\* Every page is made of rows the client does not have yet and that come after
\* all those it has.
THEOREM EveryPageAdvances == Spec => []PagesAdvance
<1>1. Inv => PagesAdvance
  BY DEF Inv, WalkInvariant, AnswerContinues, Continues, PagesAdvance
<1>. QED
  BY <1>1, WalkSafe, PTL

\* Rows are answered only to the filters of the walk, and any other filters are
\* refused with the reason.
LEMMA RefusedStep ==
  Inv /\ ChangedFiltersRefused /\ [Next]_vars => ChangedFiltersRefused'
<1>. SUFFICES ASSUME Inv, ChangedFiltersRefused, [Next]_vars,
                     stage' = "answered", req'.query # query'
              PROVE  answer'.code \in {"cursor_filter_mismatch",
                                       "cursor_expired", "invalid_cursor"}
  BY DEF ChangedFiltersRefused
<1>1. CASE UNCHANGED flight /\ query' = query
  BY <1>1 DEF ChangedFiltersRefused, flight
<1>2. CASE Resume
  <2>. DEFINE verdict == Verdict(Lang(req.server), req.cursor,
                                 key[req.server], clock, req.query)
  <2>1. req.query # query
    BY <1>2 DEF Resume, client
  <2>2. req.cursor # NoCursor
    BY <1>2, <2>1 DEF Resume, Inv, WalkInvariant, RequestBelongs
  <2>3. answer' = ErrorAnswer(verdict) /\ verdict # "ok"
    BY <1>2, <2>2 DEF Resume, Answer
  <2>4. verdict \in {"ok", "invalid_cursor", "cursor_expired",
                     "cursor_filter_mismatch"}
    BY VerdictType
  <2>. QED
    BY <2>3, <2>4 DEF ErrorAnswer
<1>3. CASE stage \in {"resumed", "fetched"} /\ UNCHANGED <<req, query>>
  BY <1>3 DEF Inv, WalkInvariant, RequestBelongs
<1>4. CASE Lose \/ Fetch \/ Deliver
  BY <1>4 DEF Lose, Fetch, Deliver
<1>5. ASSUME NEW s \in Servers, NEW q, NEW asked, Send(s, q, asked)
      PROVE  FALSE
  BY <1>5 DEF Send
<1>6. ASSUME NEW s \in Servers, NEW k \in Keys, Rotate(s, k)
      PROVE  UNCHANGED flight /\ query' = query
  BY <1>6 DEF Rotate, client
<1>. QED
  BY <1>1, <1>2, <1>3, <1>4, <1>5, <1>6
     DEF Next, Insert, Delete, Tick, Request, RequestOther, FetchFails,
         Respond, vars, flight, client

THEOREM OtherFiltersAreRefused == Spec => []ChangedFiltersRefused
<1>1. Init => ChangedFiltersRefused
  BY DEF Init, ChangedFiltersRefused
<1>. QED
  BY <1>1, RefusedStep, WalkSafe, PTL DEF Spec

\* A server that holds the key never refuses the walk's own token, except for
\* its age.
THEOREM OwnCursorIsHonoured == Spec => OwnCursorHonoured
<1>. DEFINE Honoured ==
       (/\ stage = "received" /\ stage' = "answered"
        /\ req.query = query /\ token # NoCursor
        /\ \A r \in Pool : r.at < Year10000)
       => answer'.code = "cursor_expired" \/ token.mac[1] # key[req.server]
<1>1. ASSUME Inv, [Next]_vars PROVE Honoured
  <2>. SUFFICES ASSUME stage = "received", stage' = "answered",
                       req.query = query, token # NoCursor,
                       \A r \in Pool : r.at < Year10000,
                       token.mac[1] = key[req.server]
                PROVE  answer'.code = "cursor_expired"
    OBVIOUS
  <2>. DEFINE verdict == Verdict(Lang(req.server), token,
                                 key[req.server], clock, req.query)
  <2>1. Resume
    BY <1>1 DEF Next, Insert, Delete, Tick, Lose, Rotate, Request,
                RequestOther, Send, Fetch, FetchFails, Respond, Deliver,
                vars, flight
  <2>2. req.cursor = token
    BY <1>1 DEF Inv, WalkInvariant, RequestBelongs
  <2>3. answer' = ErrorAnswer(verdict) /\ verdict # "ok"
    BY <2>1, <2>2 DEF Resume, Answer
  <2>4. SignedFor(token, req.query)
    BY <1>1 DEF Inv, WalkInvariant, TokenIsPosition, Holds
  <2>5. verdict \in {"ok", "cursor_expired"}
    <3>1. Authentic(Lang(req.server), token, key[req.server])
      BY <2>4 DEF SignedFor, Lang, Languages
    <3>. QED
      BY <2>4, <3>1 DEF SignedFor, Verdict, DecodeAt, Readable, ParsesTime
  <2>. QED
    BY <2>3, <2>5 DEF ErrorAnswer
<1>2. Inv /\ [Next]_vars => [Honoured]_vars
  BY <1>1
<1>. QED
  BY <1>2, WalkSafe, PTL DEF Spec, OwnCursorHonoured

-----------------------------------------------------------------------------
(* Refinement.                                                             *)

\* Every walk, with its tokens, losses, rotations and writers, is a walk as
\* DriftFreeWalk promises it.
LEMMA PromiseStep == Inv /\ [Next]_vars => [DriftFree!Next]_(DriftFree!walk)
<1>. SUFFICES ASSUME Inv, [Next]_vars
              PROVE  DriftFree!Next \/ UNCHANGED DriftFree!walk
  OBVIOUS
<1>1. ASSUME UNCHANGED <<query, seen, done, base, rows>>
      PROVE  UNCHANGED DriftFree!walk
  BY <1>1 DEF DriftFree!walk, Forward, Owed
<1>2. ASSUME NEW r \in Pool, Insert(r) PROVE UNCHANGED DriftFree!walk
  <2>1. Owed' = Owed
    BY <1>2 DEF Insert, client, Owed, Inv, WalkInvariant, BaseIsOld
  <2>. QED
    BY <1>2, <2>1 DEF Insert, client, DriftFree!walk, Forward
<1>3. ASSUME NEW r \in Pool, Delete(r) PROVE DriftFree!Withdraw
  BY <1>3 DEF Delete, client, Owed, Matching, Forward, DriftFree!Withdraw
<1>4. ASSUME Fetch PROVE DriftFree!Begin \/ UNCHANGED DriftFree!walk
  <2>1. /\ stage = "resumed" /\ req.cursor = token /\ ~done
        /\ UNCHANGED <<query, seen, done, rows>>
    BY <1>4 DEF Fetch, table, Inv, WalkInvariant, RequestBelongs
  <2>2. CASE req.cursor = NoCursor
    <3>1. seen = {}
      BY <2>1, <2>2 DEF Inv, WalkInvariant, TokenIsPosition
    <3>2. Owed' \in SUBSET Pool
      BY <2>1 DEF Owed, Matching, Inv, TypeOK
    <3>. QED
      BY <2>1, <3>1, <3>2 DEF DriftFree!Begin, Forward
  <2>3. CASE req.cursor # NoCursor
    <3>1. base' = base
      BY <1>4, <2>3 DEF Fetch
    <3>. QED
      BY <1>1, <2>1, <3>1
  <2>. QED
    BY <2>2, <2>3
<1>5. ASSUME Deliver
      PROVE  \/ DriftFree!Page \/ DriftFree!StartOver
             \/ UNCHANGED DriftFree!walk
  <2>1. /\ stage = "answered" /\ ~done
        /\ UNCHANGED <<query, rows>>
        /\ answer \in Answers
    BY <1>5 DEF Deliver, table, Inv, TypeOK, WalkInvariant, RequestBelongs
  <2>2. /\ Forward' = Forward
        /\ \A a, b : DriftFree!Before(Forward, a, b) = Before(Forward, a, b)
    BY <2>1 DEF Forward, Before, DriftFree!Before
  <2>3. CASE answer.status = 200
    <3>1. /\ seen' = seen \cup answer.data
          /\ done' = (answer.next = NoCursor)
          /\ base' = base
      BY <1>5, <2>3 DEF Deliver
    <3>2. Continues(answer.data, answer.next # NoCursor)
      BY <2>1, <2>3 DEF Inv, WalkInvariant, AnswerContinues, PageReady
    <3>3. Owed' = Owed
      BY <2>1, <3>1 DEF Owed
    <3>4. answer.data \in SUBSET Pool
      BY <2>1 DEF Answers
    <3>5. DriftFree!InOrder(answer.data)
      BY <2>2, <3>2 DEF DriftFree!InOrder, Continues
    <3>6. NothingSkipped'
      BY <1>5, DeliverContinues DEF WalkInvariant
    <3>7. DriftFree!SkipsNothing(answer.data)
      BY <2>2, <3>1, <3>3, <3>6 DEF DriftFree!SkipsNothing, NothingSkipped
    <3>8. done' => Owed \subseteq seen'
      BY <3>1, <3>2 DEF Continues
    <3>9. done' \in BOOLEAN
      BY <3>1
    <3>. QED
      BY <2>1, <2>2, <3>1, <3>3, <3>4, <3>5, <3>7, <3>8, <3>9
         DEF DriftFree!Page
  <2>4. CASE /\ answer.status # 200
             /\ answer.code \in {"cursor_expired", "invalid_cursor"}
    <3>1. seen' = {} /\ base' = {} /\ done' = done
      BY <1>5, <2>4 DEF Deliver
    <3>. QED
      BY <2>1, <2>2, <3>1 DEF DriftFree!StartOver, Owed, Matching
  <2>5. CASE /\ answer.status # 200
             /\ answer.code \notin {"cursor_expired", "invalid_cursor"}
    <3>1. UNCHANGED <<seen, base, done>>
      BY <1>5, <2>5 DEF Deliver
    <3>. QED
      BY <1>1, <2>1, <3>1
  <2>. QED
    BY <2>3, <2>4, <2>5
<1>6. \/ UNCHANGED <<query, seen, done, base, rows>>
      \/ Fetch \/ Deliver
      \/ \E r \in Pool : Insert(r) \/ Delete(r)
  BY DEF Next, Tick, Lose, Rotate, Request, RequestOther, Send, Resume,
         FetchFails, Respond, table, client, vars
<1>. QED
  BY <1>1, <1>2, <1>3, <1>4, <1>5, <1>6 DEF DriftFree!Next

THEOREM WalkIsDriftFree == Spec => KeepsThePromise
<1>1. Init => DriftFree!Init
  BY ForwardType DEF Init, DriftFree!Init, Owed, Matching
<1>. QED
  BY <1>1, PromiseStep, WalkSafe, PTL
     DEF Spec, KeepsThePromise, DriftFree!Spec

-----------------------------------------------------------------------------
(* What has_more promises.                                                 *)

\* Nobody has deleted a row yet.
Unspoiled == rows \cup fresh = Pool

\* A matching row lies beyond the position of a token.
LeadsOn(tok) ==
  \E r \in Matching(rows, query.account) : Before(Forward, Bound(tok), r)

\* While nobody deletes, a token leads on, and what was fetched is still there.
Promise ==
  /\ Unspoiled /\ token # NoCursor => LeadsOn(token)
  /\ Unspoiled /\ stage = "fetched" =>
       /\ fetched \in SUBSET rows
       /\ req.cursor # NoCursor => fetched # {}
  /\ Unspoiled /\ PageReady /\ answer.next # NoCursor => LeadsOn(answer.next)
  /\ HasMoreKeepsItsWord

\* Writes while a request is on its way, or not: an insertion takes nothing
\* away, and a deletion spoils the table.
LEMMA WritesKeepThePromise ==
  ASSUME Inv, Promise, NEW r \in Pool, Insert(r) \/ Delete(r)
  PROVE  Promise'
<1>1. CASE Insert(r)
  <2>1. /\ rows \in SUBSET rows'
        /\ Unspoiled' <=> Unspoiled
        /\ UNCHANGED <<client, flight>>
    BY <1>1 DEF Insert, Unspoiled
  <2>2. \A tok : LeadsOn(tok) => LeadsOn(tok)'
    BY <2>1 DEF LeadsOn, Matching, Forward, client
  <2>. QED
    BY <2>1, <2>2 DEF Promise, HasMoreKeepsItsWord, PageReady, Unspoiled, client,
                      flight
<1>2. CASE Delete(r)
  <2>1. ~Unspoiled' /\ rows' \cup fresh' # Pool
    BY <1>2 DEF Delete, Unspoiled, Inv, TypeOK
  <2>. QED
    BY <1>2, <2>1 DEF Delete, Promise, HasMoreKeepsItsWord, PageReady, client,
                      flight
<1>. QED
  BY <1>1, <1>2

\* The statement of a walk's next page finds a row while nobody deletes.
LEMMA FetchKeepsThePromise ==
  ASSUME Inv, Promise, Fetch
  PROVE  Promise'
<1>1. /\ stage = "resumed" /\ stage' = "fetched"
      /\ fetched' = Top(Candidates(req), Descending(req.query.sort),
                        req.limit + 1)
      /\ UNCHANGED <<req, query, token, rows, fresh>>
  BY DEF Fetch, table
<1>2. req.query = query /\ req.cursor = token /\ req \in Requests
  BY <1>1 DEF Inv, TypeOK, WalkInvariant, RequestBelongs
<1>3. req.limit + 1 \in Nat \ {0}
  BY <1>2, LimitIsPositive
<1>4. /\ Candidates(req) \in SUBSET rows
      /\ IsFiniteSet(Candidates(req))
      /\ Ordered(Candidates(req))
  BY CandidatesFacts DEF Inv
<1>5. fetched' \in SUBSET rows
  BY <1>1, <1>4 DEF Top
<1>6. ASSUME Unspoiled, req.cursor # NoCursor
      PROVE  fetched' # {}
  <2>1. Candidates(req) # {}
    BY <1>2, <1>6 DEF Promise, LeadsOn, Candidates, Beyond, Forward
  <2>. QED
    BY <1>1, <1>2, <1>3, <1>4, <2>1, ForwardType, TopIsNonEmpty DEF Forward
<1>. QED
  BY <1>1, <1>5, <1>6
     DEF Promise, Unspoiled, LeadsOn, Matching, Forward, PageReady,
         HasMoreKeepsItsWord

\* A page that announces another one is full, and leaves a row out that comes
\* after its last one.
LEMMA RespondKeepsThePromise ==
  ASSUME Inv, Promise, Respond
  PROVE  Promise'
<1>. DEFINE page == PageAnswer(fetched, req, clock)
            more == HasMore(fetched, req.limit)
<1>1. /\ stage = "fetched" /\ stage' = "answered"
      /\ answer' = page
      /\ UNCHANGED <<req, query, token, rows, fresh>>
  BY DEF Respond, Answer, table, client
<1>2. req.query = query
  BY <1>1 DEF Inv, WalkInvariant, RequestBelongs
<1>3. /\ req \in Requests
      /\ fetched \in SUBSET Pool /\ IsFiniteSet(fetched)
      /\ clock \in Nat
      /\ key \in [Servers -> Keys]
  BY <1>1 DEF Inv, TypeOK
<1>4. /\ req.limit \in Nat \ {0} /\ Ordered(fetched)
      /\ Cardinality(fetched) \in Nat
  BY <1>3, LimitIsPositive, PoolIsOrdered, FS_CardinalityType
<1>5. /\ page.status = 200
      /\ page.data \in SUBSET fetched
      /\ ~more => page.data = fetched /\ page.next = NoCursor
      /\ more =>
           /\ page.data = Top(fetched, Forward, req.limit)
           /\ page.next # NoCursor
           /\ \E last \in page.data :
                Bound(page.next) = [at |-> last.at, id |-> last.id]
  BY <1>2, <1>3, PageFacts DEF Forward
<1>6. page.hasMore = more
  BY DEF PageAnswer
<1>7. fetched = Matching(fetched, query.account)
  BY <1>1 DEF Inv, WalkInvariant, FetchedContinues, Continues
<1>8. more <=> Cardinality(fetched) > req.limit
  BY DEF HasMore
<1>9. more \in BOOLEAN
  BY DEF HasMore
<1>. HIDE DEF page, more
<1>10. more => Cardinality(page.data) = req.limit
  BY <1>3, <1>4, <1>5, <1>8, ForwardType, TopIsShort
<1>11. fetched # {} => page.data # {}
  BY <1>3, <1>4, <1>5, ForwardType, TopIsNonEmpty
<1>12. ASSUME Unspoiled, more PROVE LeadsOn(page.next)
  <2>1. PICK last \in page.data :
          Bound(page.next) = [at |-> last.at, id |-> last.id]
    BY <1>5, <1>12
  <2>2. PICK r \in fetched : r \notin page.data
    <3>1. page.data # fetched
      BY <1>4, <1>8, <1>10, <1>12
    <3>. QED
      BY <1>5, <3>1
  <2>3. Before(Forward, last, r)
    BY <1>3, <1>4, <1>5, <1>12, <2>2, ForwardType, LeftOutIsLater
  <2>4. Before(Forward, Bound(page.next), r)
    BY <2>1, <2>3 DEF Before
  <2>5. r \in Matching(rows, query.account)
    BY <1>1, <1>7, <1>12, <2>2 DEF Promise, Matching
  <2>. QED
    BY <2>4, <2>5 DEF LeadsOn
<1>13. HasMoreKeepsItsWord'
  <2>1. req.cursor # NoCursor /\ page.data = {} => rows \cup fresh # Pool
    BY <1>1, <1>11 DEF Promise, Unspoiled
  <2>2. page.hasMore = (page.next # NoCursor)
    BY <1>5, <1>6, <1>9
  <2>3. page.hasMore => Cardinality(page.data) = req.limit
    BY <1>6, <1>10
  <2>. QED
    BY <1>1, <2>1, <2>2, <2>3 DEF HasMoreKeepsItsWord
<1>14. Unspoiled /\ page.next # NoCursor => LeadsOn(page.next)
  BY <1>5, <1>12
<1>. QED
  BY <1>1, <1>13, <1>14
     DEF Promise, Unspoiled, LeadsOn, Matching, Forward, PageReady

LEMMA PromiseKept == Inv /\ Promise /\ [Next]_vars => Promise'
<1>. SUFFICES ASSUME Inv, Promise, [Next]_vars PROVE Promise'
  OBVIOUS
<1>. DEFINE quiet ==
              /\ UNCHANGED <<rows, fresh, query, token>>
              /\ \/ stage' = stage /\ req' = req /\ fetched' = fetched
                                    /\ answer' = answer
                 \/ stage' \in {"idle", "received", "resumed"}
                 \/ stage' = "answered" /\ answer'.status # 200
<1>1. quiet => Promise'
  BY DEF Promise, Unspoiled, LeadsOn, Matching, Forward, PageReady,
         HasMoreKeepsItsWord
<1>2. ASSUME NEW r \in Pool, Insert(r) \/ Delete(r) PROVE Promise'
  BY <1>2, WritesKeepThePromise
<1>3. CASE Tick \/ Lose
  <2>1. quiet
    BY <1>3 DEF Tick, Lose, table, client, flight
  <2>. QED
    BY <1>1, <2>1
<1>4. ASSUME NEW s \in Servers, NEW k \in Keys, Rotate(s, k) PROVE Promise'
  <2>1. quiet
    BY <1>4 DEF Rotate, table, client, flight
  <2>. QED
    BY <1>1, <2>1
<1>5. ASSUME NEW s \in Servers, NEW q, NEW asked, Send(s, q, asked)
      PROVE  Promise'
  <2>1. quiet
    BY <1>5 DEF Send, table, client
  <2>. QED
    BY <1>1, <2>1
<1>6. CASE Resume
  <2>1. \A code : ErrorAnswer(code).status # 200
    BY DEF ErrorAnswer, StatusFor
  <2>2. quiet
    BY <1>6, <2>1 DEF Resume, Answer, table, client
  <2>. QED
    BY <1>1, <2>2
<1>7. CASE Fetch
  BY <1>7, FetchKeepsThePromise
<1>8. CASE FetchFails
  <2>1. ErrorAnswer("internal_error").status # 200
    BY DEF ErrorAnswer, StatusFor
  <2>2. quiet
    BY <1>8, <2>1 DEF FetchFails, Answer, table, client
  <2>. QED
    BY <1>1, <2>2
<1>9. CASE Respond
  BY <1>9, RespondKeepsThePromise
<1>10. CASE Deliver
  <2>1. /\ stage' = "idle"
        /\ UNCHANGED <<rows, fresh, query>>
        /\ \/ PageReady /\ token' = answer.next
           \/ token' \in {NoCursor, token}
    BY <1>10 DEF Deliver, table, PageReady
  <2>. QED
    BY <2>1 DEF Promise, Unspoiled, LeadsOn, Matching, Forward, PageReady,
                HasMoreKeepsItsWord
<1>11. CASE UNCHANGED vars
  <2>1. quiet
    BY <1>11 DEF vars
  <2>. QED
    BY <1>1, <2>1
<1>. QED
  BY <1>2, <1>3, <1>4, <1>5, <1>6, <1>7, <1>8, <1>9, <1>10, <1>11
     DEF Next, Request, RequestOther

\* contract.md: has_more and next agree, a page that is followed by another one
\* is full, and the page after a token is empty only if rows were deleted.
THEOREM HasMoreIsKept == Spec => []HasMoreKeepsItsWord
<1>1. Init => Promise
  BY DEF Init, Promise, PageReady, HasMoreKeepsItsWord
<1>2. Promise => HasMoreKeepsItsWord
  BY DEF Promise
<1>. QED
  BY <1>1, <1>2, PromiseKept, WalkSafe, PTL DEF Spec

-----------------------------------------------------------------------------
(* What a quiet table leaves of the difference between the two endpoints.  *)

\* A page is never longer than its limit, and what was delivered matches the
\* filters of the walk.
PagesFit ==
  /\ seen = Matching(seen, query.account)
  /\ PageReady => Cardinality(answer.data) <= req.limit

LEMMA RespondFits ==
  ASSUME Inv, PagesFit, Respond
  PROVE  PagesFit'
<1>. DEFINE page == PageAnswer(fetched, req, clock)
            more == HasMore(fetched, req.limit)
<1>1. /\ stage = "fetched"
      /\ answer' = page
      /\ UNCHANGED <<req, query, seen>>
  BY DEF Respond, Answer, client
<1>2. /\ req \in Requests
      /\ fetched \in SUBSET Pool /\ IsFiniteSet(fetched)
      /\ clock \in Nat
      /\ key \in [Servers -> Keys]
  BY <1>1 DEF Inv, TypeOK
<1>3. /\ req.limit \in Nat /\ Ordered(fetched)
      /\ Cardinality(fetched) \in Nat
      /\ Descending(req.query.sort) \in BOOLEAN
  BY <1>2, LimitIsPositive, PoolIsOrdered, FS_CardinalityType DEF Descending
<1>4. /\ ~more => page.data = fetched
      /\ more => page.data = Top(fetched, Descending(req.query.sort), req.limit)
  BY <1>2, PageFacts
<1>5. ~more => Cardinality(fetched) <= req.limit
  BY <1>3 DEF HasMore
<1>. HIDE DEF page, more
<1>6. Cardinality(page.data) <= req.limit
  BY <1>2, <1>3, <1>4, <1>5, TopIsShort
<1>. QED
  BY <1>1, <1>6 DEF PagesFit, PageReady

LEMMA PagesFitKept == Inv /\ PagesFit /\ [Next]_vars => PagesFit'
<1>. SUFFICES ASSUME Inv, PagesFit, [Next]_vars PROVE PagesFit'
  OBVIOUS
<1>. DEFINE quiet ==
              /\ UNCHANGED <<query, seen>>
              /\ \/ stage' = stage /\ req' = req /\ answer' = answer
                 \/ stage' # "answered"
                 \/ answer'.status # 200
<1>1. quiet => PagesFit'
  BY DEF PagesFit, PageReady
<1>2. CASE \/ \E r \in Pool : Insert(r) \/ Delete(r)
           \/ Tick
           \/ UNCHANGED vars
  <2>1. quiet
    BY <1>2 DEF Insert, Delete, Tick, client, flight, vars
  <2>. QED
    BY <1>1, <2>1
<1>3. CASE Lose \/ (\E s \in Servers, k \in Keys : Rotate(s, k))
  <2>1. quiet
    BY <1>3 DEF Lose, Rotate, client, flight
  <2>. QED
    BY <1>1, <2>1
<1>4. ASSUME NEW s \in Servers, NEW q, NEW asked, Send(s, q, asked)
      PROVE  PagesFit'
  <2>1. quiet
    BY <1>4 DEF Send, client
  <2>. QED
    BY <1>1, <2>1
<1>5. CASE Resume \/ FetchFails
  <2>1. \A code : ErrorAnswer(code).status # 200
    BY DEF ErrorAnswer, StatusFor
  <2>2. quiet
    BY <1>5, <2>1 DEF Resume, FetchFails, Answer, client
  <2>. QED
    BY <1>1, <2>2
<1>6. CASE Fetch
  <2>1. quiet
    BY <1>6 DEF Fetch
  <2>. QED
    BY <1>1, <2>1
<1>7. CASE Respond
  BY <1>7, RespondFits
<1>8. CASE Deliver
  <2>1. stage' = "idle" /\ query' = query
    BY <1>8 DEF Deliver
  <2>2. \/ PageReady /\ seen' = seen \cup answer.data
        \/ seen' \in {{}, seen}
    BY <1>8 DEF Deliver, PageReady
  <2>3. PageReady => answer.data = Matching(answer.data, query.account)
    BY DEF Inv, WalkInvariant, AnswerContinues, Continues
  <2>4. seen' = Matching(seen', query.account)
    BY <2>2, <2>3 DEF PagesFit, Matching
  <2>. QED
    BY <2>1, <2>4 DEF PagesFit, PageReady
<1>. QED
  BY <1>2, <1>3, <1>4, <1>5, <1>6, <1>7, <1>8 DEF Next, Request, RequestOther

\* In a quiet table, the pages of the keyset walk are those of OFFSET.
THEOREM QuietPagesAreOffsetPages == Spec => []QuietPageIsOffsetPage
<1>1. Init => PagesFit
  BY DEF Init, PagesFit, PageReady, Matching
<1>2. ASSUME Inv, PagesFit, HasMoreKeepsItsWord
      PROVE  QuietPageIsOffsetPage
  <2>. SUFFICES ASSUME PageReady, rows = base,
                       seen \cup answer.data \subseteq rows
                PROVE  answer.data = Slice(Matching(rows, query.account),
                                           Forward, Cardinality(seen),
                                           req.limit)
    BY DEF QuietPageIsOffsetPage
  <2>. DEFINE M    == Matching(rows, query.account)
              page == answer.data
              more == answer.next # NoCursor
  <2>1. M = Owed /\ M \in SUBSET rows
    BY DEF Owed, Matching
  <2>2. IsFiniteSet(M) /\ Ordered(M)
    <3>1. IsFiniteSet(rows) /\ rows \in SUBSET Pool
      BY <1>2 DEF Inv, TypeOK
    <3>. QED
      BY <2>1, <3>1, FS_Subset, PoolIsOrdered
  <2>3. Continues(page, more) /\ NothingSkipped
    BY <1>2 DEF Inv, WalkInvariant, AnswerContinues
  <2>4. /\ seen \in SUBSET M
        /\ page \in SUBSET M
    BY <1>2, <2>3 DEF PagesFit, Continues, Matching
  <2>5. /\ \A r \in M, s \in seen : Before(Forward, r, s) => r \in seen
        /\ \A s \in seen, d \in page : Before(Forward, s, d)
        /\ \A r \in M \ (seen \cup page), d \in page : Before(Forward, d, r)
        /\ ~more => seen \cup page = M
    BY <2>1, <2>3, <2>4 DEF Continues, NothingSkipped
  <2>6. /\ page = Slice(M, Forward, Cardinality(seen), Cardinality(page))
        /\ \A n \in Nat :
             seen \cup page = M /\ Cardinality(page) <= n =>
               page = Slice(M, Forward, Cardinality(seen), n)
    <3>. HIDE DEF M, page, more
    <3>. QED
      BY <2>2, <2>4, <2>5, ForwardType, ContinuationIsSlice
  <2>7. req.limit \in Nat /\ Cardinality(page) <= req.limit
    BY <1>2, LimitIsPositive DEF Inv, TypeOK, PageReady, PagesFit
  <2>8. more => Cardinality(page) = req.limit
    BY <1>2 DEF HasMoreKeepsItsWord
  <2>. QED
    BY <2>5, <2>6, <2>7, <2>8
<1>. QED
  BY <1>1, <1>2, PagesFitKept, WalkSafe, HasMoreIsKept, PTL DEF Spec

=============================================================================
