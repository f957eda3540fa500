# Keyset and offset pagination: a TLA+ project

This directory holds the TLA+ model of the pagination API of this repository:
one HTTP contract (`spec/contract.md`) implemented twice, in Go (`go/`) and in
Spring Boot (`spring-boot/`), over one PostgreSQL table (`sql/`). The claim of
the repository is that a *keyset* walk, whose position travels in a signed,
expiring, stateless cursor, has no drift while the table is written to, that an
*offset* walk does, and that the two implementations can be swapped behind a
client in the middle of a walk.

The claim is checked with TLC on small instances, and its safety part is proved
with TLAPS for every table, every number of servers, keys, filters and limits.

## 1. The system

| component | state it keeps | operations | talks to |
|---|---|---|---|
| table `transactions` (`sql/01-schema.sql`, `go/internal/postgres`, `repository/` in Java) | rows `(id, account_id, created_at, ...)`, primary key `id` | `FirstPage`, `NextPage`, `PageByOffset`, counts | written by sessions the API knows nothing of |
| cursor codec (`go/pkg/cursor`, `cursor/` in Java) | none; configured with a key and a TTL | `Encode`, `DecodeAt`, the filter fingerprint | called by the services with the clock |
| keyset listing (`service/transactions.go`, `TransactionService.java`, the two handlers) | none between requests | `List`: check the token, one `SELECT` of `limit + 1` rows, trim, sign the next token | codec, repository |
| offset listing (same files) | none | `ListByOffset`: page and size to a rank, one `SELECT` | repository |
| request parameters (`handler/requests.go`, `QueryParameters.java`, `domain/`) | none | read, refuse in an order, cap, fill in defaults | the handlers; the fingerprint of the codec |
| totals (`Total`, `CountExact`, `CountEstimate`, `findTotal`) | none; the planner's statistics in `pg_class` | count, or read the estimate and clamp it | repository, `ANALYZE`, the seeding |
| Go process (`main.go`, `handler/http.go`, `postgres/pool.go`) | signal context, listener goroutine, `errCh`, pool | connect, serve, shut down, close the pool, exit | handlers share the pool |
| Java process (`spring-boot/`, `application.yml`) | the Hikari pool | a thread per request: wait for a connection, wait for the rows; `isReachable` | repository, database |
| configuration (`config/config.go`, `PaginationConfiguration.java`, `CursorProperties.java`) | what a process has read | load, merge the environment, validate, start or refuse | file, environment |
| logging, test utilities | see `PROJECT.json` | | |

What is hard about it:

* **interleaving** - rows are inserted and deleted between any two pages and
  between the check of a token and its `SELECT`; rows share their `created_at`
  across a page boundary;
* **stateless position** - everything a walk knows is in a token the client
  brings back later, to another server, in another language, after a lost
  response, with other filters, or too late;
* **key rotation** - servers are restarted one by one with another key;
* **two implementations of one arithmetic** - truncated stamps, two clock
  readings in one request, comparisons written differently, integers of
  different widths;
* **query strings** - absent, empty, blank and repeated parameters, numerals
  written in several forms, all of which must name the same walk twice, or
  else be refused alike;
* **statistics older than the table** - the estimate is written by `ANALYZE`
  alone, is -1 after a `TRUNCATE`, and a seeding is three statements;
* **settings read once** - the environment may spoil a file that was valid, and
  the two implementations refuse different things;
* **a bounded pool** - handlers wait for connections that other handlers hold,
  with a database that may hang, clients that leave and a signal at any time.

What makes each part correct:

* table and statements: one total order under every statement, both columns
  turning together, so that a bound cuts the table in two (`ListingLemmas`, and
  every property of the walks);
* codec: accepted means genuine, genuine means accepted, a refusal tells its
  cause, both implementations agree on what either of them writes
  (`CursorExchange`);
* keyset listing: no owed row skipped, none repeated, the end told only when
  nothing is owed, changed filters refused, the walk's own token honoured, the
  walk ends, and in a quiet table its pages are those of `OFFSET` (`KeysetWalk`);
* offset listing and parameters: the page is the one asked for, the drift is
  bounded by the writes, both implementations agree on plain parameters
  (`OffsetWalk`);
* request parameters: a client that keeps its query string keeps its walk, two
  different requests never share a token, both implementations read alike
  (`QueryExchange`);
* totals: an exact total is current, an estimate only lags (`Totals`);
* configuration: nobody signs with an empty key, and no position is resumed
  past the duration of the process that is asked (`Deployment`);
* Go process: no leaked connection, no starvation, an end, and a graceful service
  to those outside (`ServerLifecycle`, `GracefulService`);
* Java process: no leaked connection, and whoever waits for one is answered
  (`JavaServer`).

Every hazard, at its line, with the properties that would catch it, is listed in
`PROJECT.json`.

## 2. The modules

```
 KeysetWalk      = TransactionTable + CursorCodec + Limits
                   implements DriftFreeWalk (over TransactionTable)
 CursorExchange  = CursorCodec
 ListRequest     = TransactionTable + CursorCodec + QueryParameters (+ Limits)
 QueryExchange   = ListRequest
 OffsetWalk      = TransactionTable + QueryParameters (+ Limits)

 ServerLifecycle
                   implements GracefulService

 JavaServer    Deployment    Totals
```

* **TransactionTable** - what PostgreSQL makes of the statements: the order of
  `ORDER BY created_at, id` in both directions (`Before`), the tenant filter
  (`Matching`), the row-wise bound (`Beyond`), `LIMIT` (`Top`) and `OFFSET`
  (`Slice`). A result set is a set of rows: all statements order by the same
  total order, so the set determines the list.
* **CursorCodec** - payload, signature, the order of the checks, the age, the
  fingerprint, and `Verdict`, what a service makes of a token. `lang` is "go"
  or "java" wherever the two sources differ: the comparison that decides on the
  age, the error for a reversed direction, the years of five digits. A signature
  is the pair of key and payload and a fingerprint is the digested text, that
  is, HMAC and SHA-256 are injective and nobody signs without the key. The text
  of a token is its bytes and the form they arrive in (`wire`): as both encoders
  write them, with the `=` of padded base64, or with line breaks, and each
  decoder takes its own two of the three (`Decodes`). Both ignore the trailing
  bits of the last character, which are left out, and JSON loses nothing. Texts
  are sequences over `Char`, since the separator in a fingerprint is what one of
  the hazards is about.
* **Limits**, **QueryParameters** - the cap on `limit` and `size`, and the two
  readings of a numeric parameter with their integer widths: Java casts to
  32 bits after it read 64, and multiplies in 32 bits. A parameter is a value and
  the form it is written in: once, with white space around it, or repeatedly
  (`Reading`).
* **ListRequest** - the query string of `GET /v1/transactions` as sequences of
  occurrences of texts: gin binds the first occurrence, Spring joins them with
  commas; `trim`, numerals in any form, defaults, and `Outcome`, which parameter
  is refused first and what the codec says of the cursor.
* **KeysetWalk** - the composition: one client walks `GET /v1/transactions`
  over any number of servers of both kinds. A request goes through the stages
  of the code: `Request` -> `Resume` (everything before the repository, one
  clock reading) -> `Fetch` (one statement, one snapshot) -> `Respond` (trim,
  second clock reading, sign) -> `Deliver`. `Insert`, `Delete`, `Tick`,
  `Rotate`, `Lose`, `FetchFails` and `RequestOther` (filters changed in
  mid-walk) interleave with every stage.
* **DriftFreeWalk** - the abstract specification: what a client may rely on,
  without tokens, servers or a table. `KeysetWalk` implements it
  (`KeepsThePromise`); the mapping sends `owed` to the rows of the first page's
  snapshot that match the filters and still exist.
* **CursorExchange** - tokens on their own: any server signs any position, any
  server is shown any token, genuine, damaged, in another form of base64, of
  another version, signed under a dropped key.
* **OffsetWalk** - the same client over `GET /v1/transactions/offset`, and next
  to its walk requests with any `page` and `size` in any form. It counts how far the
  walk drifts and how much was written meanwhile.
* **QueryExchange** - clients bring tokens back with the same query string, with
  another limit, with other filters, twice, in another form of base64, or with a
  blank cursor, to a server of either kind (`ListRequest` over `CursorCodec`).
* **Totals** - the table as a count, the planner's `reltuples` and the writes
  since it was set; inserts, deletes, an `ANALYZE` at any time, the three
  statements of `testutil/seed.go`, and requests for an exact or an estimated
  total between them, as either implementation reads the flag.
* **Deployment** - the file and the environment of each server, edited at any
  time; `Start` reads, merges and validates them as `config.Load` and `NewPool`
  do, or as Spring and Hikari do (`ContextStarts`). The positions a process signs
  (`SignPage`) outlive it, and any process may be asked to resume them
  (`ResumeWalk`): in Go a duration of zero or less switches the check of the age
  off (`Fresh`), so all depends on what a process starts with.
* **JavaServer** - a thread per request over the Hikari pool: it waits for a
  connection at most as long as `connection-timeout`, and for its rows as long
  as the database takes.
* **ServerLifecycle** - `run`, the listener's goroutine with its one-place
  channel, and a handler per request over a bounded pool. A handler that waits
  for a connection when the pool is closed really wakes when one is released; in
  the model it may wake at once (`PoolIsClosed`), holding nothing meanwhile.
* **GracefulService** - the abstract specification of the process: a gate that
  opens once, requests that are let in and served, or dropped by a process that
  reports a failure, and a success that waits for everyone. `ServerLifecycle`
  implements it (`KeepsService`); the mapping sends the stages of a handler to
  inside, served and dropped, and the listener and the shutdown to the gate.
* **MC...** modules instantiate these for TLC. **ListingLemmas**,
  **KeysetWalkProofs**, **CursorExchangeProofs**, **OffsetWalkProofs**,
  **QueryExchangeProofs**, **TotalsProofs**, **ServerLifecycleProofs** and
  **ProcessProofs** (over `Deployment` and `JavaServer`) hold the proofs.

Operators preceded by a comment `Bug:` are not part of the model. Each is the
mutated form of the definition below it, the way a plausible slip in the code
would change it, and is used to confirm that the properties notice
(`PROJECT.json`, `mutants`).

`PROJECT.json` maps every definition that models code to its lines.

## 3. Bounds and abstractions

| constant | value in the runs | why it is enough |
|---|---|---|
| `Pool` | 3 or 4 rows | two pages and an end; two rows with the same `created_at`, a row of another account, rows to insert ahead of the walk and behind it |
| servers | one Go, one Java | servers keep nothing; a second one of a kind differs only by its key |
| `Keys` | 2 | before and after a rotation |
| limits | `DefaultLimit` 1, `MaxLimit` 1 or 2 | absent, below and above the cap |
| `Micro`, `Second`, `TTL` | 2, 2 to 4, 2 to 6 units | stamps within a second, the truncation of "t", both sides of the last valid instant |
| `Year10000` | 8 in `exchange`, out of reach elsewhere | positions on both sides |
| `IntHalf`, `LongHalf` | 8, 32 | the ratio matters, not the size: values in range, beyond 32 bits, and beyond 64; a value with white space around it, and a repeated one |
| `MaxFaults` | 1 or 2 | a rotation and a loss in one walk |
| `MaxConns` | 1 | fewer connections than requests |
| `MaxHangs` | 1 | a hang at any moment, with or without recovery |
| `RawQueries` | 117 query strings | every parameter absent, empty, in range, out of range or refused, the same numeral in two forms, and repeated or blank ones |
| `MaxIssued` | 1 | one token is shown to every server with every query string |
| `MaxRows`, `MaxChurn`, `SampleError`, `MaxMoments` | 3, 3, 1, 2 | statistics on both sides of the count, unset and stale; a write before and after the statement of a total |
| `Files`, `Environments`, `MaxEdits`, `MaxTime` | 10 files, 8 environments, 2, 2 | one thing wrong at a time in either source, and an edit of each during the life of a process; ages on both sides of the durations 1 and 2 |
| `Pages`, `Checks` | 2 and 1 requests on 1 connection | one holds it, one waits for it, one checks |

Where two accounts, statuses or directions matter (fingerprints) the filters
are chosen so that their texts run into one another if a separator is missing.

A row that was deleted never comes back, since `id` is an identity column. A
row that is inserted may appear anywhere in the order, because neither ids nor `created_at` follow the order of commits. `status` is
part of the fingerprint and of no statement, in the code as in the model.

Deadlock is not checked where a run really ends: the client of a walk that has
received `next = null` with a full clock, a process that has exited, the
threads of a Java process when all have answered.

A row of `KeysetWalk` never comes back after its deletion; `TRUNCATE ... RESTART
IDENTITY`, which the seeding uses, is part of `Totals` only.

## 4. The runs

| run | states | shows |
|---|---|---|
| `walk_drift` | 372 k | `NothingSkipped`, `EndIsComplete`, `PagesAdvance`, `HasMoreKeepsItsWord`, `QuietPageIsOffsetPage` (whenever the table is what it was at the first page, a page is the one `OFFSET` would select), the inductive invariant and the refinement, under concurrent writes with a lost response, a failed query, a rotation or changed filters, over both implementations |
| `walk_lifetime` | 606 k | with a running clock and a token that expires: for a walk down and a walk up, `ChangedFiltersRefused`, `OwnCursorHonoured`, and `WalkEnds`, the walk comes to its end once all servers agree on the key |
| `exchange` | 889 k | `AcceptedIsGenuine`, `GenuineIsAccepted`, `RefusalTellsTheCause`, `TwinsAgree` for tokens that travel between the implementations, with a position beyond the year 10000 and other forms of base64 among them. `TwinsAgree`: a token in the form the encoders write gets one verdict; on any other the two differ only by one of them calling it invalid, never about its age or its filters |
| `query_strings` | 170 k | `SameStringSameWalk`: a client that keeps its query string, moves its cursor and changes its limit is never refused as one that changed its filters, by the implementation that gave it the cursor, nor by the other one if the string is plain (each parameter at most once, no white space in its numerals and its sort); `TokenTellsRequestsApart`: a token is accepted only with a query string that asks for its walk; `TwinsReadAlike`: plain requests, with a cursor in the form the encoders write or none, get the same answer or the same refusal |
| `offset_drift` | 4.4 M | an offset walk repeats at most as many rows as were inserted, and jumps over at most as many as were deleted; the inductive invariant of the proofs; for any page and size, written once, in range: the page is the one asked for row by row; and written once, without white space, within 32 bits: Go and Java answer alike |
| `lifecycle` | 48 k | no connection leaks, a shutdown that reports success interrupted nobody, health checks are answered while the database hangs, everyone is served and a signal ends the process if the database answers in the end; the refinement of `GracefulService`; the inductive invariant of the proofs, types included |
| `java_requests` | 336 | in the Java process no connection leaks, and a request that waits for one is answered although the database hangs under all those that hold one |
| `totals` | 31 k | `ExactIsCurrent`: an exact total was the count at some moment of its request, `EstimateLags`: an estimate is off by no more than the writes since the last `ANALYZE` and the error of its sample; the inductive invariant of the proofs, types included |
| `deployment` | 2.3 M | whatever is edited between and during the lives of the processes, no token is signed with an empty key, and no process resumes a position older than the duration it runs with |

Runs in which TLC finds a statement of the repository violated:

| run | statement | what the code does |
|---|---|---|
| `page_below_one` | `contract.md:116`, a page below 1 is refused | Java casts the page to `int` before it compares: -4294967295 is page 1 |
| `deep_page` | `contract.md:63`, page is `>= 1` with no upper bound | Java's `(page - 1) * size` overflows: a 500, or another page |
| `shutdown_timeout` | `config.go:35`, the timeout bounds how long requests get to finish | handlers run on after it, and the deferred `pool.Close` waits for them |

Other disagreements are visible in the model and have no run of their own. The
properties that meet them leave them out in so many words:

* a `created_at` in the year 10000 or later is written in two forms, and read
  back by neither implementation from the other (`Year10000` in
  `GenuineIsAccepted` and in `TwinsAgree` of `CursorExchange`);
* `Base64.getUrlDecoder` of Java takes a token with the padding that
  `RawURLEncoding` of Go refuses, and Go skips the line breaks that Java refuses
  (`wire`, in `AsWritten` of `CursorExchange` and in `PlainCursor` of
  `QueryExchange`). Neither encoder writes such a token;
* a `page` or `size` with white space around it is trimmed by Java and invalid
  for Go; given twice it is the first one for Go, and both of them, joined and
  invalid, for Java (`AskedOnce` in `OffsetWalk`);
* `exact=true&exact=...` asks for a count in Go and for the estimate in Java
  (`AsksForCount` in `Totals`), although `QueryParameters.java:65` says that both
  answer alike. What is answered says which of the two it is;
* a `page` or `size` of white space is absent for Java and invalid for Go, and
  beyond 64 bits it is refused by both, where `QueryParameters.java:42` says that
  an oversized limit is served (`Plain` in `OffsetWalk`);
* with `status` given twice gin takes the first and Spring both, joined: the
  unchanged query string is a `cursor_filter_mismatch` at the twin (`Plain` in
  `QueryExchange`);
* a blank `cursor` starts the walk over in Java and is refused by Go (`<<Blank>>`
  in `TwinsReadAlike`);
* nothing validates `shutdown_timeout`: at zero, the first shutdown with a
  request in flight fails (`Valid` of `Deployment` does not name it, and
  `GraceOver` of `ServerLifecycle` may come at once);
* with a connection in hand and a database that hangs, `isReachable` of the Java
  process answers neither 200 nor 503 (`WaiterIsAnswered` is about the threads
  that wait for a connection).

### Fairness

* `KeysetWalk!FairSpec` is weak fairness of one disjunction, `Progress`: the
  client keeps asking until `next` is null, a handler that has started runs on
  (the Go scheduler and the servlet threads), a response that is not lost
  arrives. It says nothing of losses, failures and rotations, which `MaxFaults`
  bounds, nor of writes, which `Pool` bounds: a walk over a table that grows for
  ever has no end, and a client whose every response is lost makes no headway.
  The clock is bounded by `MaxClock`, so a token stops expiring at some point;
  in the world this stands for a client that asks for its next page within the
  TTL from some moment on.
* `ServerLifecycle!FairSpec` is weak fairness of `Run`, of the listener's
  goroutine and of each handler: goroutines are scheduled and timers fire.
  Nothing is assumed of clients, signals or the database; the two properties
  that need the database say so (`DbIsBack`).
* `JavaServer!FairSpec` is weak fairness of `Serve` for each request: threads run
  and the timer of `connection-timeout` fires. A thread that waits for rows is
  served only if the database answers, of which nothing is assumed.

## 5. What is proved

`KeysetWalkProofs` proves, from `WalkAssumption`, `CodecAssumption` and
`LimitsAssumption` (primary key, timestamps of whole microseconds, a fingerprint's
account without the separator, limits that are positive) and for any values of
the constants that satisfy them:

| theorem | statement |
|---|---|
| `TypeCorrect` | `Spec => []TypeOK` |
| `WalkSafe` | `Spec => [](TypeOK /\ WalkInvariant)`, the inductive invariant |
| `NothingIsSkipped`, `TheEndIsComplete`, `EveryPageAdvances`, `OtherFiltersAreRefused` | the safety invariants of the runs |
| `WalkKeepsItsPlace` | `Spec => []WalkInvariant` |
| `HasMoreIsKept` | `has_more` and `next` agree, a page with a successor is full, the page after a token is empty only after a deletion |
| `OwnCursorIsHonoured` | the action property of `walk_lifetime` |
| `QuietPagesAreOffsetPages` | `Spec => []QuietPageIsOffsetPage` |
| `WalkIsDriftFree` | `Spec => KeepsThePromise`, the refinement |

The argument. `NothingSkipped` is not inductive: whether a page skips a row
depends on where its `SELECT` started, which depends on a token that may have
been signed before any number of writes, losses and rotations. The invariant
`WalkInvariant` carries what links them:

* `TokenIsPosition` - the token the client holds stands for the last row it
  received, in the direction and for the filters of the walk. Without it the
  bound of the next `SELECT` would be unrelated to `seen`;
* `RequestBelongs` - a request in flight carries that token, and one that got
  past the filter check has the walk's filters. This is where `RequestOther`
  is excluded from the rest of the argument;
* `BaseIsOld` - a row of the first snapshot is not waiting to be inserted, so
  what is owed can only shrink: an `Insert` between `Fetch` and `Deliver` adds
  no debt;
* `FetchedContinues`, `AnswerContinues` - the rows on their way come after
  everything seen, and leave an owed row out only beyond their own end and only
  when more is announced. `Delete` preserves it because an owed row that
  disappears is no longer owed; `Respond` preserves it because the row dropped
  from `limit + 1` is the last one.

Each step of `Next` is a lemma of its own. `ListingLemmas` holds the facts about
`Before`, `Top`, `Beyond`, `Slice` and `LastOf` over finite sets (the order is
total by the primary key, a page is a prefix of the rows beyond the bound, what
it leaves out comes later), and those about tokens: one that is accepted was
signed for the filters asked for, which rests on `Fingerprint` being injective
although a status may hold the separator.

`ListingLemmas` also proves `QuietPagesAgree`: over one and the same finite
table, for either direction and any limit, the keyset statement that continues
after the last of the first `k` rows selects the rows that the offset statement
selects at rank `k`. `QuietPagesAreOffsetPages` is its form for the walk, where
the pages were read one by one, with any limits and by any servers: what was
delivered is closed under coming earlier (`NothingSkipped`), so it is the rows of
the first ranks (`PrefixHasFirstRanks`), and so is what is delivered after the
page; the page is the slice between the two (`ContinuationIsSlice`), full or
last (`HasMoreIsKept`). "Quiet" means that the table is what it was, not that
nobody wrote: rows may have come and gone.

`ServerLifecycleProofs` proves, from `LifecycleAssumption` (a pool of at least
one connection) and for any set of requests, `TypeCorrect`,
`ConnectionsComeBack` (`NoConnectionLeaks`) and `CleanShutdownIsGraceful`
(`CleanShutdownServesAll`), and the invariant itself (`StagesKeepTheirOrder`).
The first two are inductive by themselves once the
set of held connections is known to be finite: every way out of a handler either
releases or moves between two places that hold the same. The third needs
`LifecycleInvariant`: the stages of `run` come in order, nobody is in flight
between the end of `Shutdown` and the end of the listener, and the listener
reports success only after `Shutdown`. Without that last part `run` could return
success from the branch of the `select` that waits for nobody.

`ProcessIsGraceful` (`Spec => KeepsService`) is the refinement. Two steps need
the invariant: `run` takes its result from the channel, where a success implies
that everyone has left (`Succeed`), and the end of the process cuts handlers off
only after a failure (`Drop`). The others map to one step of the service, or to
none: the pool, the database, the clients and the order in which the listener and
`run` learn of the shutdown cannot be seen from outside.

`HasMoreIsKept` needs an invariant of its own, `Promise`: as long as nobody has
deleted a row, a matching row lies beyond the position of the client's token and
beyond that of a token on its way, and the rows a request has fetched are still
there. An insertion takes nothing away, a deletion ends the promise, and
`Respond` renews it with the row it drops.

`CursorExchangeProofs` proves, from `ExchangeAssumption` (positions are whole
microseconds, what was damaged is no token), `TypeCorrect`, the inductive
invariant (`ExchangeSafe`: an issued token was signed for what its record says,
and a token that is shown derives from one that was issued), and from it
`OnlyGenuineIsAccepted`, `GenuineTravels`, `RefusalsAreTrue` and
`TwinsNeverDiffer` (`TwinsAgree`, with its two halves: one verdict for a token in
the form the encoders write, and nothing but "invalid" between the two for any
other). The lemma they rest on is that only the token issued reads
under its key, which in turn rests on an injective fingerprint and on bounds of
the second that a truncated stamp may lose.

`OffsetWalkProofs` proves, from `OffsetAssumption` and `ParametersAssumption`,
`TypeCorrect`, `PageIsRight` (`PageIsTheOneAsked`) and `TwinsAlike`
(`TwinsAgree`), for any integer widths; the first for any parameters, the second
for parameters that are written once, the third for those that have no white
space besides and stay within 32 bits. For a table that
holds, over its whole life, fewer rows than Java's `int` can count
(`SmallTable`: beyond it the arithmetic wraps, see the run `deep_page`), it
proves `DriftIsBounded`, and from it `RepeatsAreBounded` and `LossesAreBounded`.
Neither bound is inductive: when a row is inserted ahead of the walk nothing is
repeated yet, only the next page will repeat it. `DriftInvariant` counts the
debt: `Due`, the delivered rows that now rank at or beyond the next page, and
`Missed`, the rows of the first snapshot that now rank before it and were not
delivered. An insertion moves ranks back by one and pushes at most one row over
a given rank, a deletion pulls at most one under it (`OneRowCrosses`, from the
fact that ranks are unique), and a page turns as many due rows into repeats as
it holds (`DueAfterPage`) and misses no row that was not missed before
(`MissedAfterPage`). The invariant holds twice, for what the client holds and
for what it is about to hold, since writes happen while a page is on its way and
the page may get lost.

`TotalsProofs` proves, for a table of any size and any sampling error,
`TotalsAreHonest` (`TotalsInvariant`, types included), and from it `TypeCorrect`,
`ExactTotalIsCurrent` and `EstimateOnlyLags`. The invariant says that the
statistics of every table a request has seen are no worse than the writes since
they were taken, and that a request has seen the table of now.

`ProcessProofs` proves two things. For any files, environments and number of
servers, `NoTokenIsForgeable` and `NoPositionLivesForEver` (`PositionsExpire`).
Neither is inductive: what a process signs and resumes depends on settings it
read before any number of edits. The invariant adds `GoIsValidated`: the settings
of a Go process that is up have passed `Valid`, after the merge and not before
it, zero values of missing settings included. And, from `JavaAssumption`, for any requests and any size of the Hikari
pool, `StatusFitsEndpoint` (`TypeOK`: what is answered has a status of its
endpoint) and `JavaConnectionsComeBack` (`NoConnectionLeaks`), along the lines of
`ConnectionsComeBack`.

`QueryExchangeProofs` proves, from `QueryAssumption`, `ListRequestAssumption`,
`ParametersAssumption` and `CodecAssumption` and for any query strings over any
alphabet that has the digits and the separators, `SameStringIsSameWalk`, `TokenIsOfOneRequest` and
`PlainRequestsHaveOneAnswer`. The inductive invariant (`ExchangeSafe`) says that
every token in circulation was signed by `Encode` for the filters its request
reads as, and that an answer is what the code makes of its request. The rest is
about texts:

* the account a request is accepted with is a canonical numeral. `Canonical`
  drops the sign and the zeros in front and keeps the value (`CanonicalValue`):
  `Value` is a recursive function over the positions of a text, and what it
  computes is shown by induction over those positions (`IntervalInduction`, from
  the least element of a set of naturals), not over the texts. So an account that
  is accepted is never the numeral `0` that stands for no account, and
  `TokenIsOfOneRequest` follows from the fingerprint being injective;
* `SameStringIsSameWalk` is for any query string where the token comes back to
  the implementation that issued it, and for plain ones where it comes to the
  other: a status given twice is its counterexample beyond that (section 4);
* with a fingerprint that is injective, a token of one walk under the query
  string of another is a mismatch before its direction is looked at
  (`WalkTellsRequest`): the two implementations, which would refuse a reversed
  direction with different codes, never come to that check;
* parameters given once and without white space read alike after `trim` and
  without it, joined and unjoined (`PlainIsReadAlike`), and are then refused in
  the same order.

Not proved, only model-checked: `WalkEnds`, `HealthIsAnswered`,
`EveryoneIsServed`, `SignalEndsProcess` and `WaiterIsAnswered`. They are liveness
under fairness, which is outside what the installed provers do. Every invariant,
every action property and both refinements that a run checks are theorems. No
module declares a recursive operator; the value of a numeral is a recursive
function.

## 6. What is not modelled

* the start and the shutdown of the Spring Boot process, which are the
  framework's with default settings: no code of the repository takes part;
* logging, which no decision depends on, and the settings that only change what
  is logged or where to connect;
* test containers and the build (the seeding itself is part of `Totals`);
* execution plans: that the keyset statement uses its index is a matter of
  cost, which the model has no notion of;
* a keyset walk across `TRUNCATE ... RESTART IDENTITY`, which hands out used ids
  again: the seeding is for tests and demonstrations, and the contract promises
  nothing about it;
* digits beyond ASCII, which `Long.parseLong` takes and Go does not, and white
  space other than the space;
* an environment that sets a number or a duration to the empty text, which the
  libraries that convert it each take in their own way.

## 7. Plan

Done so far, in this order: the table and the codec, the keyset walk with its
abstract specification and its proofs, the exchange of tokens, the offset walk,
the life of the Go process and its proofs; the query string and its exchange, the
totals, the deployment and the Java process; the proofs of the token exchange, of
the totals, of the deployment, of `has_more` and of the bounds on the drift; then
those of the query string and its numerals, of the Java process, of the
equivalence of the two endpoints over a quiet table, and the graceful service as
an abstract specification of the Go process.

Next:

1. the invariance half of the liveness arguments: for `WalkEnds`, that every page
   delivered strictly shrinks the rows ahead of the walk or ends it, as an action
   property; for `SignalEndsProcess`, that a handler under a closed pool only
   moves towards its end;
2. an abstract specification of `QueryExchange` (a service that remembers, for
   each token, the request it was issued to), towards one statement for
   `SameStringSameWalk` and `TokenTellsRequestsApart`;
3. `OffsetWalk` as an implementation of a walk that may repeat and lose rows
   within a budget of writes.
