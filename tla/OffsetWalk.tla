----------------------------- MODULE OffsetWalk -----------------------------
(***************************************************************************)
(* The counter-example: a client walks GET /v1/transactions/offset by page *)
(* number while other sessions write.  The position is a rank, so a row    *)
(* that is inserted or deleted ahead of it shifts every page to come.      *)
(*                                                                         *)
(* Next to its walk the client also asks for pages out of the blue, with   *)
(* any raw value of `page` and `size` in any form.                         *)
(***************************************************************************)
EXTENDS TransactionTable, QueryParameters, Sequences

CONSTANTS
  Numerals,      \* texts of account ids
  Pool,          \* every row the table ever holds
  GoServers, JavaServers,
  Accounts,      \* the values of account_id, NoAccount when it is absent
  WalkSizes,     \* values of `size` a walk uses
  Pages,         \* what a client may send as `page`
  Sizes,         \* what a client may send as `size`
  MaxFaults,     \* bound on failures, losses and stray requests
  None           \* no request in flight

Servers == GoServers \cup JavaServers

Row == [id : Nat, at : Nat, account : Numerals]

Requests ==
  [server : Servers, page : Parameter, size : Parameter, ofWalk : BOOLEAN]

ASSUME OffsetAssumption ==
  /\ Pool \subseteq Row
  /\ \A r, s \in Pool : r.id = s.id => r = s     \* PRIMARY KEY
  /\ GoServers \cap JavaServers = {}
  /\ WalkSizes \subseteq Nat
  /\ Pages \cup Sizes \subseteq Parameter
  /\ MaxFaults \in Nat

VARIABLES
  rows,      \* the committed rows
  fresh,     \* rows of Pool not inserted yet
  account,   \* the filter of the walk
  size,      \* the size of its pages
  reached,   \* pages delivered so far
  seen,      \* rows delivered so far
  base,      \* rows of the walk in the snapshot of its first page
  repeats,   \* how many rows were delivered again
  inserted,  \* writes that met the walk's filter since that snapshot
  deleted,
  done,      \* the client has received has_more = false
  stage, req, answer,
  faults

vars == <<rows, fresh, account, size, reached, seen, base, repeats, inserted,
          deleted, done, stage, req, answer, faults>>

client == <<account, size, reached, seen, repeats, done>>
flight == <<stage, req, answer>>

Lang(s) == IF s \in GoServers THEN "go" ELSE "java"

\* ORDER BY created_at DESC, id DESC: there is no other order here.
Newest == TRUE

Mine(r) == Matching({r}, account) # {}

-----------------------------------------------------------------------------
Refusal(code) ==
  [status |-> IF code = "internal_error" THEN 500 ELSE 400, code |-> code,
   data |-> {}, page |-> 0, size |-> 0, hasMore |-> FALSE]

\* Bug: the extra row is not trimmed.
SelectPageUntrimmed(S, page, k, n) ==
  LET found == Slice(S, Newest, k, n + 1) IN
  IF k < 0 THEN Refusal("internal_error")
  ELSE [status |-> 200, code |-> "ok", data |-> found, page |-> page,
        size |-> n, hasMore |-> Cardinality(found) > n]

\* One SELECT ... LIMIT size + 1 OFFSET k, then trim.  PostgreSQL refuses a
\* negative OFFSET.
SelectPage(S, page, k, n) ==
  LET found == Slice(S, Newest, k, n + 1)
      more  == Cardinality(found) > n
  IN IF k < 0 THEN Refusal("internal_error")
     ELSE [status |-> 200, code |-> "ok",
           data |-> IF more THEN Top(found, Newest, n) ELSE found,
           page |-> page, size |-> n, hasMore |-> more]

\* The parameters are read in the order of the query string's fields, and the
\* first one that does not read is the one reported.
ListByOffset(lang, S, rawPage, rawSize) ==
  IF PageRefused(lang, rawPage) THEN Refusal("invalid_page")
  ELSE IF SizeRefused(lang, rawSize) THEN Refusal("invalid_limit")
  ELSE LET page == PageNumber(lang, rawPage)
           n    == PageSize(lang, rawSize)
       IN SelectPage(S, page, Offset(lang, page, n), n)

-----------------------------------------------------------------------------
Init ==
  /\ rows \in SUBSET Pool
  /\ IsFiniteSet(rows)
  /\ fresh = Pool \ rows
  /\ account \in Accounts
  /\ size \in WalkSizes
  /\ reached = 0
  /\ seen = {}
  /\ base = {}
  /\ repeats = 0
  /\ inserted = 0
  /\ deleted = 0
  /\ done = FALSE
  /\ stage = "idle"
  /\ req = None
  /\ answer = None
  /\ faults = 0

Insert(r) ==
  /\ r \in fresh
  /\ rows' = rows \cup {r}
  /\ fresh' = fresh \ {r}
  /\ inserted' = IF Mine(r) THEN inserted + 1 ELSE inserted
  /\ UNCHANGED <<base, deleted, faults, client, flight>>

Delete(r) ==
  /\ r \in rows
  /\ rows' = rows \ {r}
  /\ deleted' = IF Mine(r) THEN deleted + 1 ELSE deleted
  /\ UNCHANGED <<fresh, base, inserted, faults, client, flight>>

Fault ==
  /\ faults < MaxFaults
  /\ faults' = faults + 1

Lose ==
  /\ stage # "idle"
  /\ Fault
  /\ stage' = "idle"
  /\ req' = None
  /\ answer' = None
  /\ UNCHANGED <<rows, fresh, base, inserted, deleted, client>>

Send(s, page, asked, ofWalk) ==
  /\ stage = "idle"
  /\ stage' = "received"
  /\ req' = [server |-> s, page |-> page, size |-> asked, ofWalk |-> ofWalk]
  /\ UNCHANGED <<answer, rows, fresh, base, inserted, deleted, client>>

\* The next page of the walk.
Request(s) ==
  /\ ~done
  /\ Send(s, Once(reached + 1), Once(size), TRUE)
  /\ UNCHANGED faults

\* A page out of the blue, by whatever the client puts in the query string.
Jump(s, page, asked) ==
  /\ Fault
  /\ Send(s, page, asked, FALSE)

\* What the server makes of the two parameters.
PageRead == Reading(Lang(req.server), req.page)
SizeRead == Reading(Lang(req.server), req.size)

\* The handler, with the one snapshot its statement reads.  What the walk is
\* held to is counted from the snapshot of its first page.
Handle ==
  /\ stage = "received"
  /\ stage' = "answered"
  /\ answer' = ListByOffset(Lang(req.server), Matching(rows, account),
                            PageRead, SizeRead)
  /\ IF req.ofWalk /\ reached = 0
     THEN /\ base' = Matching(rows, account)
          /\ inserted' = 0
          /\ deleted' = 0
     ELSE UNCHANGED <<base, inserted, deleted>>
  /\ UNCHANGED <<req, faults, rows, fresh, client>>

\* The query fails: a bare 500.
HandleFails ==
  /\ stage = "received"
  /\ ~PageRefused(Lang(req.server), PageRead)
  /\ ~SizeRefused(Lang(req.server), SizeRead)
  /\ Fault
  /\ stage' = "answered"
  /\ answer' = Refusal("internal_error")
  /\ UNCHANGED <<req, rows, fresh, base, inserted, deleted, client>>

Deliver ==
  /\ stage = "answered"
  /\ IF req.ofWalk /\ answer.status = 200
     THEN /\ reached' = reached + 1
          /\ seen' = seen \cup answer.data
          /\ repeats' = repeats + Cardinality(seen \cap answer.data)
          /\ done' = ~answer.hasMore
     ELSE UNCHANGED <<reached, seen, repeats, done>>
  /\ stage' = "idle"
  /\ req' = None
  /\ answer' = None
  /\ UNCHANGED <<account, size, faults, rows, fresh, base, inserted, deleted>>

Next ==
  \/ \E r \in Pool : Insert(r) \/ Delete(r)
  \/ Lose
  \/ \E s \in Servers : Request(s)
  \/ \E s \in Servers, p \in Pages, n \in Sizes : Jump(s, p, n)
  \/ Handle
  \/ HandleFails
  \/ Deliver

Spec == Init /\ [][Next]_vars

-----------------------------------------------------------------------------
(* Properties.                                                             *)

\* Every variable holds a value the code can produce.
TypeOK ==
  /\ rows \in SUBSET Pool
  /\ IsFiniteSet(rows)
  /\ fresh \in SUBSET (Pool \ rows)
  /\ account \in Accounts
  /\ size \in WalkSizes
  /\ reached \in Nat
  /\ seen \in SUBSET Pool
  /\ base \in SUBSET Pool
  /\ repeats \in Nat /\ inserted \in Nat /\ deleted \in Nat
  /\ done \in BOOLEAN
  /\ stage \in {"idle", "received", "answered"}
  /\ stage # "idle" => req \in Requests
  /\ stage = "answered" =>
       /\ answer.code \in {"ok", "invalid_page", "invalid_limit",
                           "internal_error"}
       /\ answer.status = 200 =>
            /\ answer.data \in SUBSET Pool
            /\ IsFiniteSet(answer.data)
            /\ answer.hasMore \in BOOLEAN
            /\ answer.size \in 1 .. MaxLimit
            /\ Cardinality(answer.data) <= answer.size
  /\ faults \in 0 .. MaxFaults

\* What drifts is bounded by what is written.  The walk hands out no row twice
\* unless a row was inserted meanwhile, and no more rows than were inserted.
RepeatsNeedInserts == repeats <= inserted

\* A row present from the first page on is jumped over only when another one
\* was deleted meanwhile, and no more rows than were deleted.
JumpedOver ==
  {r \in (base \cap rows) \ seen : done \/ \E s \in seen : Before(Newest, r, s)}

LossesNeedDeletes == Cardinality(JumpedOver) <= deleted

-----------------------------------------------------------------------------
(* The inductive invariant behind both bounds, for a client that has been  *)
(* given the rows S and goes on at rank k, or has come to its end.         *)

Walked == Matching(rows, account)

\* The rows of S the pages to come would hand out again, of the rows W.
Due(W, S, k) == {r \in S \cap W : Rank(W, Newest, r) >= k}

\* The rows of K that no page to come will hand out, or only behind a row that
\* comes after them.
Missed(W, K, S, k, end) ==
  {r \in K \ S :
     \/ end
     \/ Rank(W, Newest, r) < k
     \/ \E s \in S : Before(Newest, r, s)}

\* Each insertion pushes at most one row over the rank k, each deletion pulls
\* at most one under it.
Bounded(S, k, again, end) ==
  /\ again + Cardinality(Due(Walked, S, k)) <= inserted
  /\ Cardinality(Missed(Walked, base \cap rows, S, k, end)) <= deleted
  /\ S \cap fresh = {}
  /\ ~end => k = 0 \/ k < Cardinality(Pool)

WalkPage == stage = "answered" /\ req.ofWalk /\ answer.status = 200

\* The bounds hold for what the client holds and for what it is about to hold;
\* a request of the walk asks for the page that comes next.
DriftInvariant ==
  /\ Bounded(seen, reached * CapLimit(size), repeats, done)
  /\ WalkPage =>
       Bounded(seen \cup answer.data, (reached + 1) * CapLimit(size),
               repeats + Cardinality(seen \cap answer.data), ~answer.hasMore)
  /\ stage # "idle" /\ req.ofWalk =>
       ~done /\ req.page = Once(reached + 1) /\ req.size = Once(size)
  /\ reached = 0 => seen = {} /\ repeats = 0
  /\ base \cap fresh = {}
  /\ base = Matching(base, account)

-----------------------------------------------------------------------------
\* The numbers a request is written with, when it has one of each.
AskedOnce == req.page.form = "once" /\ req.size.form = "once"

\* Parameters both implementations hold without loss.
InRange(raw, n) ==
  /\ raw \in 1 .. IntHalf - 1
  /\ n \in 0 .. LongHalf - 1
  /\ (raw - 1) * CapLimit(n) < IntHalf

\* An answered page is the one asked for, row for row: the rows that rank from
\* (page - 1) * size on at the time of the SELECT, and has_more exactly when
\* another row ranks after them.  Reaching a page that small never fails.
RanksAsked ==
  LET mine  == Matching(rows, account)
      n     == CapLimit(req.size.raw)
      first == (req.page.raw - 1) * n
  IN /\ answer'.data = Slice(mine, Newest, first, n)
     /\ answer'.hasMore = (Cardinality(mine) > first + n)
     /\ answer'.page = req.page.raw

PageIsTheOneAsked ==
  [][Handle /\ AskedOnce /\ InRange(req.page.raw, req.size.raw)
       => answer'.code = "ok" /\ RanksAsked]_vars

\* Raw values that every width holds.
Plain(raw) == raw \in {Absent, Word} \cup (-IntHalf .. IntHalf - 1)

\* A client that writes each parameter once, without white space, cannot tell
\* which implementation answers, as long as it stays within 32 bits: they give
\* its request the same answer, the same refusal included.
TwinsAgree ==
  [][LET page  == req.page.raw
         asked == req.size.raw
     IN /\ Handle /\ AskedOnce
        /\ Plain(page) /\ Plain(asked)
        /\ \/ PageRefused("go", page)
           \/ SizeRefused("go", asked)
           \/ (PageNumber("go", page) - 1) * PageSize("go", asked) < IntHalf
        => \A lang \in {"go", "java"} :
             ListByOffset(lang, Matching(rows, account),
                          Reading(lang, req.page), Reading(lang, req.size))
               = answer']_vars

\* contract.md, errors: "`page` < 1 ou non numérique" is a 400 invalid_page.
PageBelowOneIsRefused ==
  [][Handle /\ AskedOnce /\ req.page.raw \in Int /\ req.page.raw < 1
       => answer'.code = "invalid_page"]_vars

\* contract.md, parameters of the offset endpoint: "`page` ... 1-based, `>= 1`",
\* with no upper bound: any such page is answered, with the rows of its ranks.
EveryPageIsServed ==
  [][/\ Handle /\ AskedOnce
     /\ req.page.raw \in Int /\ req.page.raw >= 1
     /\ req.size.raw \in 0 .. MaxLimit
       => answer'.code = "ok" /\ RanksAsked]_vars

=============================================================================
