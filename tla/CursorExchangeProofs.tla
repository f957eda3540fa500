------------------------ MODULE CursorExchangeProofs ------------------------
(***************************************************************************)
(* Proofs about CursorExchange, for any positions, filters, keys, servers  *)
(* and clock, and for any number of tokens.                                *)
(***************************************************************************)
EXTENDS CursorExchange, ListingLemmas

-----------------------------------------------------------------------------
(* The inductive invariant: what is issued was signed for what its record  *)
(* says, and what is shown derives from what was issued.                   *)

SignedAsRecorded(x) ==
  \E lang \in Languages : x.token = Signed(lang, x.row, x.query, x.at, x.key)

Derives(tok, x) == tok \in {x.token, Later(x)} \cup Damaged(x)

Judged(p) ==
  /\ p.outcome = Verdict(Lang(p.server), p.token, p.key, p.now, p.query)
  /\ \E x \in issued : Derives(p.token, x)

Inv ==
  /\ TypeOK
  /\ IsFiniteSet(issued)
  /\ \A x \in issued : SignedAsRecorded(x)
  /\ \A p \in shown : Judged(p)

-----------------------------------------------------------------------------
(* What is issued.                                                         *)

IssuedRecords ==
  [token : Tokens(Keys), row : Rows, query : Queries, key : Keys, at : Nat]

\* The parts of a token that was issued.
LEMMA IssuedParts ==
  ASSUME NEW x \in IssuedRecords, SignedAsRecorded(x)
  PROVE  /\ x.token # Garbage
         /\ x.token.wire = "plain"
         /\ x.token.mac = <<x.key, x.token.payload>>
         /\ x.token.payload \in Payloads
         /\ x.token.payload.v = Version
         /\ x.token.payload.c.at = x.row.at
         /\ x.row.at < Year10000 => x.token.payload.c.style = "yyyy"
         /\ x.token.payload.f = Fingerprint(x.query)
         /\ x.token.payload.d = Descending(x.query.sort)
         /\ x.token.payload.t = Unix(x.at)
         /\ Bound(x.token) = [at |-> x.row.at, id |-> x.row.id]
<1>1. PICK lang \in Languages :
        x.token = Signed(lang, x.row, x.query, x.at, x.key)
  BY DEF SignedAsRecorded
<1>2. /\ x.row.at \in Nat /\ x.row.id \in Nat /\ x.row.at % Micro = 0
      /\ x.query \in Filters /\ x.key \in Keys /\ x.at \in Nat
      /\ x.token \in Tokens(Keys)
  BY ExchangeAssumption DEF IssuedRecords, Row
<1>3. /\ x.token.payload.c.at = x.row.at
      /\ Bound(x.token) = [at |-> x.row.at, id |-> x.row.id]
  BY <1>1, <1>2, SignedIsWellFormed
<1>4. x.token # Garbage /\ x.token.payload \in Payloads
  BY <1>2, ExchangeAssumption DEF Tokens
<1>5. /\ x.token.wire = "plain"
      /\ x.token.mac = <<x.key, x.token.payload>>
      /\ x.token.payload = Payload(lang, x.row, Descending(x.query.sort),
                                   Fingerprint(x.query), x.at)
  BY <1>1 DEF Signed, Encode, Sign
<1>6. /\ x.token.payload.v = Version
      /\ x.token.payload.f = Fingerprint(x.query)
      /\ x.token.payload.d = Descending(x.query.sort)
      /\ x.token.payload.t = Unix(x.at)
      /\ x.row.at < Year10000 => x.token.payload.c.style = "yyyy"
  BY <1>5 DEF Payload, FormatTime
<1>. QED
  BY <1>3, <1>4, <1>5, <1>6

\* Another form of a token changes nothing that it says.
LEMMA RewrittenSaysTheSame ==
  ASSUME NEW x \in IssuedRecords, SignedAsRecorded(x),
         NEW tok \in Rewritten(x.token)
  PROVE  /\ tok \in Tokens(Keys) /\ tok # Garbage
         /\ tok.mac = x.token.mac
         /\ tok.payload = x.token.payload
         /\ Bound(tok) = Bound(x.token)
         /\ tok.wire = "plain" => tok = x.token
<1>1. x.token \in Tokens(Keys) /\ x.token.wire = "plain"
  BY IssuedParts DEF IssuedRecords
<1>2. PICK w \in Wires : tok = [x.token EXCEPT !.wire = w]
  BY DEF Rewritten
<1>3. /\ tok \in Tokens(Keys)
      /\ tok.mac = x.token.mac
      /\ tok.payload = x.token.payload
      /\ tok.wire = "plain" => tok = x.token
  BY <1>1, <1>2 DEF Tokens
<1>4. tok # Garbage
  BY <1>3, ExchangeAssumption
<1>. QED
  BY <1>3, <1>4, Zenon DEF Bound

\* The second that is signed is the one that had begun when it was signed.
LEMMA UnixBounds ==
  ASSUME NEW at \in Nat
  PROVE  /\ Unix(at) \in Nat
         /\ Unix(at) * Second <= at
         /\ at < Unix(at) * Second + Second
<1>1. Second \in Nat \ {0}
  BY CodecAssumption
<1>. QED
  BY <1>1 DEF Unix

\* The form the encoders write is one of the forms.
LEMMA IssuedIsRewritten ==
  ASSUME NEW tok \in Tokens(Keys)
  PROVE  tok \in Rewritten(tok)
<1>1. tok = [tok EXCEPT !.wire = tok.wire] /\ tok.wire \in Wires
  BY DEF Tokens
<1>. QED
  BY <1>1 DEF Rewritten

\* A token that derives from an issued one, carries a signature of its own
\* content and is of this version, is the issued one, in some form.
LEMMA OnlyTheIssuedReads ==
  ASSUME NEW x \in IssuedRecords, SignedAsRecorded(x),
         NEW tok, Derives(tok, x), NEW lang, NEW k, Authentic(lang, tok, k),
         tok.payload.v = Version
  PROVE  tok \in Rewritten(x.token) /\ x.key = k
<1>1. /\ x.token \in Tokens(Keys)
      /\ x.token.mac = <<x.key, x.token.payload>>
      /\ x.token.payload \in Payloads
  BY IssuedParts DEF IssuedRecords
<1>2. tok # Garbage /\ tok.mac = <<k, tok.payload>>
  BY DEF Authentic, Decodes, Sign
<1>3. CASE tok \in Rewritten(x.token)
  <2>1. tok.mac = x.token.mac /\ tok.payload = x.token.payload
    BY <1>3, RewrittenSaysTheSame
  <2>. QED
    BY <1>1, <1>2, <1>3, <2>1
<1>4. CASE tok = Later(x)
  <2>1. tok.payload.v = Version + 1
    BY <1>1, <1>4 DEF Later, Encode, Payloads
  <2>. QED
    BY <2>1 DEF Version
<1>5. CASE \E d : tok = [x.token EXCEPT !.payload = d]
  <2>1. PICK d : tok = [x.token EXCEPT !.payload = d]
    BY <1>5
  <2>2. tok.mac = x.token.mac /\ tok.payload = d
    BY <1>1, <2>1 DEF Tokens
  <2>3. d = x.token.payload /\ x.key = k
    BY <1>1, <1>2, <2>2
  <2>4. tok \in Rewritten(x.token)
    BY <1>1, <2>1, <2>3, IssuedIsRewritten DEF Tokens
  <2>. QED
    BY <2>3, <2>4
<1>6. tok = x.token => tok \in Rewritten(x.token)
  BY <1>1, IssuedIsRewritten
<1>. QED
  BY <1>2, <1>3, <1>4, <1>5, <1>6 DEF Derives, Damaged

\* Both implementations draw the line of the TTL at the same instant.
LEMMA AgeIsTheSame ==
  ASSUME NEW payload, payload.t \in Nat, NEW now \in Nat, NEW lang
  PROVE  Expired(lang, payload, now) <=> now - payload.t * Second > TTL
<1>1. Second \in Nat /\ TTL \in Nat
  BY CodecAssumption
<1>2. payload.t * Second \in Nat
  BY <1>1
<1>. QED
  BY <1>1, <1>2 DEF Expired

-----------------------------------------------------------------------------
(* What a verdict says.                                                    *)

Reads(lang, tok, k) == Authentic(lang, tok, k) /\ Readable(lang, tok.payload)

Late(lang, tok, now) == Expired(lang, tok.payload, now)

Fits(tok, q) ==
  tok.payload.f = Fingerprint(q) /\ tok.payload.d = Descending(q.sort)

\* The verdict of a presentation follows from three facts, in their order.
LEMMA VerdictCases ==
  ASSUME NEW lang, NEW tok, NEW k, NEW now, NEW q
  PROVE  /\ Verdict(lang, tok, k, now, q) = "ok"
              <=> Reads(lang, tok, k) /\ ~Late(lang, tok, now) /\ Fits(tok, q)
         /\ Verdict(lang, tok, k, now, q) = "cursor_expired"
              <=> Reads(lang, tok, k) /\ Late(lang, tok, now)
         /\ Verdict(lang, tok, k, now, q) = "cursor_filter_mismatch"
              => Reads(lang, tok, k) /\ ~Late(lang, tok, now) /\ ~Fits(tok, q)
BY DEF Verdict, DecodeAt, Reads, Late, Fits

\* The values a presentation is made of.
LEMMA PresentationTypes ==
  ASSUME Inv, NEW p \in shown
  PROVE  /\ p.now \in Nat /\ p.query \in Filters
         /\ issued \subseteq IssuedRecords
         /\ \A x \in issued : x.query \in Filters /\ x.at \in Nat
                              /\ x.row.at \in Nat /\ x.row.id \in Nat
<1>1. clock \in Nat
  BY ExchangeAssumption DEF Inv, TypeOK
<1>2. issued \subseteq IssuedRecords
  BY <1>1 DEF Inv, TypeOK, IssuedRecords
<1>3. p.now \in Nat /\ p.query \in Filters
  BY <1>1, ExchangeAssumption DEF Inv, TypeOK
<1>. QED
  BY <1>2, <1>3, ExchangeAssumption DEF IssuedRecords, Row

\* A token that reads is one that was issued, under the key that reads it.
LEMMA WhatReadsWasIssued ==
  ASSUME Inv, NEW p \in shown, NEW lang, Reads(lang, p.token, p.key)
  PROVE  \E x \in Origins(p) : x.key = p.key
<1>1. PICK x \in issued : Derives(p.token, x)
  BY DEF Inv, Judged
<1>2. x \in IssuedRecords /\ SignedAsRecorded(x)
  BY PresentationTypes DEF Inv
<1>3. Authentic(lang, p.token, p.key) /\ p.token.payload.v = Version
  BY DEF Reads, Readable
<1>4. p.token \in Rewritten(x.token) /\ x.key = p.key
  BY <1>1, <1>2, <1>3, OnlyTheIssuedReads
<1>. QED
  BY <1>4 DEF Origins

\* What the checks of a token say of the record it came from.
LEMMA OriginFacts ==
  ASSUME Inv, NEW p \in shown, NEW x \in Origins(p), NEW lang \in Languages
  PROVE  /\ Bound(p.token) = [at |-> x.row.at, id |-> x.row.id]
         /\ /\ x.key = p.key /\ x.row.at < Year10000
            /\ Decodes(lang, p.token)
            => Reads(lang, p.token, p.key)
         /\ Late(lang, p.token, p.now) => p.now - x.at + Second > TTL
         /\ ~Late(lang, p.token, p.now) => p.now - x.at <= TTL
         /\ p.now - x.at + Second - 1 <= TTL => ~Late(lang, p.token, p.now)
         /\ Fits(p.token, p.query) <=> x.query = p.query
<1>1. /\ x \in IssuedRecords /\ SignedAsRecorded(x)
      /\ p.token \in Rewritten(x.token)
      /\ x.query \in Filters /\ x.at \in Nat /\ x.row.at \in Nat
      /\ p.query \in Filters /\ p.now \in Nat
  BY PresentationTypes DEF Inv, Origins
<1>2. /\ p.token # Garbage
      /\ p.token.mac = <<x.key, p.token.payload>>
      /\ p.token.payload.v = Version
      /\ x.row.at < Year10000 => p.token.payload.c.style = "yyyy"
      /\ p.token.payload.f = Fingerprint(x.query)
      /\ p.token.payload.d = Descending(x.query.sort)
      /\ p.token.payload.t = Unix(x.at)
      /\ Bound(p.token) = [at |-> x.row.at, id |-> x.row.id]
  BY <1>1, IssuedParts, RewrittenSaysTheSame
<1>3. x.key = p.key /\ x.row.at < Year10000 /\ Decodes(lang, p.token)
        => Reads(lang, p.token, p.key)
  BY <1>2 DEF Reads, Authentic, Sign, Readable, ParsesTime
<1>4. /\ Late(lang, p.token, p.now) => p.now - x.at + Second > TTL
      /\ ~Late(lang, p.token, p.now) => p.now - x.at <= TTL
      /\ p.now - x.at + Second - 1 <= TTL => ~Late(lang, p.token, p.now)
  <2>1. /\ Unix(x.at) \in Nat
        /\ Unix(x.at) * Second <= x.at
        /\ x.at < Unix(x.at) * Second + Second
    BY <1>1, UnixBounds
  <2>2. Late(lang, p.token, p.now) <=> p.now - Unix(x.at) * Second > TTL
    BY <1>1, <1>2, <2>1, AgeIsTheSame DEF Late
  <2>3. Second \in Nat /\ TTL \in Nat
    BY CodecAssumption
  <2>. DEFINE began == Unix(x.at) * Second
  <2>4. began \in Nat
    BY <2>1, <2>3
  <2>. HIDE DEF began
  <2>. QED
    BY <1>1, <2>1, <2>2, <2>3, <2>4 DEF began
<1>5. Fits(p.token, p.query) <=> x.query = p.query
  <2>1. Fits(p.token, p.query) => x.query = p.query
    BY <1>1, <1>2, FingerprintIsInjective DEF Fits
  <2>2. x.query = p.query => Fits(p.token, p.query)
    BY <1>2 DEF Fits
  <2>. QED
    BY <2>1, <2>2
<1>. QED
  BY <1>2, <1>3, <1>4, <1>5

\* The four promises hold in every state the invariant describes.
LEMMA JudgedIsGenuine == Inv => AcceptedIsGenuine
<1>. SUFFICES ASSUME Inv, NEW p \in shown, p.outcome = "ok"
              PROVE  \E x \in Origins(p) :
                       /\ x.key = p.key
                       /\ x.query = p.query
                       /\ Bound(p.token) = [at |-> x.row.at, id |-> x.row.id]
                       /\ p.now - x.at <= TTL
  BY DEF AcceptedIsGenuine
<1>. DEFINE lang == Lang(p.server)
<1>1. lang \in Languages
  BY DEF Lang, Languages
<1>2. Verdict(lang, p.token, p.key, p.now, p.query) = "ok"
  BY DEF Inv, Judged
<1>. HIDE DEF lang
<1>3. /\ Reads(lang, p.token, p.key) /\ ~Late(lang, p.token, p.now)
      /\ Fits(p.token, p.query)
  BY <1>2, VerdictCases
<1>4. PICK x \in Origins(p) : x.key = p.key
  BY <1>3, WhatReadsWasIssued
<1>. QED
  BY <1>1, <1>3, <1>4, OriginFacts

LEMMA JudgedIsServed == Inv => GenuineIsAccepted
<1>. SUFFICES ASSUME Inv, NEW p \in shown, NEW x \in issued,
                     x.token = p.token, x.key = p.key, x.query = p.query, x.row.at < Year10000,
                     p.now - x.at + Second - 1 <= TTL
              PROVE  p.outcome = "ok"
  BY DEF GenuineIsAccepted
<1>. DEFINE lang == Lang(p.server)
<1>1. lang \in Languages
  BY DEF Lang, Languages
<1>2. Verdict(lang, p.token, p.key, p.now, p.query) = p.outcome
  BY DEF Inv, Judged
<1>. HIDE DEF lang
<1>3. x \in Origins(p) /\ Decodes(lang, p.token)
  <2>1. x \in IssuedRecords /\ SignedAsRecorded(x)
    BY PresentationTypes DEF Inv
  <2>2. x.token # Garbage /\ x.token.wire = "plain" /\ x.token \in Tokens(Keys)
    BY <2>1, IssuedParts DEF IssuedRecords
  <2>. QED
    BY <1>1, <2>2, IssuedIsRewritten DEF Origins, Decodes
<1>4. /\ Reads(lang, p.token, p.key) /\ ~Late(lang, p.token, p.now)
      /\ Fits(p.token, p.query)
  BY <1>1, <1>3, OriginFacts
<1>. QED
  BY <1>2, <1>4, VerdictCases

LEMMA JudgedTellsTheCause == Inv => RefusalTellsTheCause
<1>. SUFFICES ASSUME Inv, NEW p \in shown
              PROVE  /\ p.outcome = "cursor_expired" =>
                          \E x \in Origins(p) :
                            x.key = p.key /\ p.now - x.at + Second > TTL
                     /\ p.outcome = "cursor_filter_mismatch" =>
                          \E x \in Origins(p) :
                            /\ x.key = p.key /\ x.query # p.query
                            /\ p.now - x.at <= TTL
  BY DEF RefusalTellsTheCause
<1>. DEFINE lang == Lang(p.server)
<1>1. lang \in Languages
  BY DEF Lang, Languages
<1>2. Verdict(lang, p.token, p.key, p.now, p.query) = p.outcome
  BY DEF Inv, Judged
<1>. HIDE DEF lang
<1>3. CASE p.outcome = "cursor_expired"
  <2>1. Reads(lang, p.token, p.key) /\ Late(lang, p.token, p.now)
    BY <1>2, <1>3, VerdictCases
  <2>2. PICK x \in Origins(p) : x.key = p.key
    BY <2>1, WhatReadsWasIssued
  <2>3. p.now - x.at + Second > TTL
    BY <1>1, <2>1, OriginFacts
  <2>. QED
    BY <1>3, <2>2, <2>3
<1>4. CASE p.outcome = "cursor_filter_mismatch"
  <2>1. /\ Reads(lang, p.token, p.key) /\ ~Late(lang, p.token, p.now)
        /\ ~Fits(p.token, p.query)
    BY <1>2, <1>4, VerdictCases
  <2>2. PICK x \in Origins(p) : x.key = p.key
    BY <2>1, WhatReadsWasIssued
  <2>3. x.query # p.query /\ p.now - x.at <= TTL
    BY <1>1, <2>1, OriginFacts
  <2>. QED
    BY <1>4, <2>2, <2>3
<1>. QED
  BY <1>3, <1>4

\* Two implementations that read a token find it of the same age, and fitting
\* the same filters; and what is as it was written is read by both or neither.
LEMMA ReadAlike ==
  ASSUME Inv, NEW p \in shown, NEW l \in Languages, NEW m \in Languages,
         Reads(l, p.token, p.key)
  PROVE  /\ p.token # Garbage
         /\ AsWritten(p.token) => Reads(m, p.token, p.key)
         /\ Late(l, p.token, p.now) <=> Late(m, p.token, p.now)
         /\ Fits(p.token, p.query) \/ p.token.payload.f # Fingerprint(p.query)
<1>1. PICK x \in Origins(p) : x.key = p.key
  BY WhatReadsWasIssued
<1>2. /\ x \in IssuedRecords /\ SignedAsRecorded(x)
      /\ p.token \in Rewritten(x.token)
      /\ x.query \in Filters /\ x.at \in Nat
      /\ p.query \in Filters /\ p.now \in Nat
  BY <1>1, PresentationTypes DEF Inv, Origins
<1>3. /\ p.token # Garbage
      /\ p.token.payload.c.at = x.row.at
      /\ p.token.payload.f = Fingerprint(x.query)
      /\ p.token.payload.t = Unix(x.at)
  BY <1>2, IssuedParts, RewrittenSaysTheSame
<1>4. AsWritten(p.token) => Reads(m, p.token, p.key)
  <2>. SUFFICES ASSUME AsWritten(p.token) PROVE Reads(m, p.token, p.key)
    OBVIOUS
  <2>1. x.row.at < Year10000 /\ Decodes(m, p.token)
    BY <1>3 DEF AsWritten, Decodes
  <2>. QED
    BY <1>1, <2>1, OriginFacts
<1>5. Late(l, p.token, p.now) <=> Late(m, p.token, p.now)
  <2>1. p.token.payload.t \in Nat
    BY <1>2, <1>3, UnixBounds
  <2>. QED
    BY <1>2, <2>1, AgeIsTheSame DEF Late
<1>6. Fits(p.token, p.query) \/ p.token.payload.f # Fingerprint(p.query)
  BY <1>1, <1>2, <1>3, FingerprintIsInjective, OriginFacts
<1>. QED
  BY <1>3, <1>4, <1>5, <1>6

\* A verdict on a token that does not read, or that reads and fits all or
\* nothing, depends on no implementation.
LEMMA JudgedAlike == Inv => TwinsAgree
<1>. SUFFICES ASSUME Inv, NEW p \in shown, NEW twin \in Languages
              PROVE  LET other == Verdict(twin, p.token, p.key, p.now, p.query) IN
                     /\ (p.token # Garbage => AsWritten(p.token))
                          => other = p.outcome
                     /\ other # p.outcome => "invalid_cursor" \in {other, p.outcome}
  BY DEF TwinsAgree
<1>. DEFINE lang  == Lang(p.server)
            other == Verdict(twin, p.token, p.key, p.now, p.query)
            reads(l) == Reads(l, p.token, p.key)
<1>1. lang \in Languages
  BY DEF Lang, Languages
<1>2. p.outcome = Verdict(lang, p.token, p.key, p.now, p.query)
  BY DEF Inv, Judged
<1>. HIDE DEF lang
<1>3. /\ ~reads(lang) => p.outcome = "invalid_cursor"
      /\ ~reads(twin) => other = "invalid_cursor"
  BY <1>2 DEF Reads, Verdict, DecodeAt
<1>4. (p.token # Garbage => AsWritten(p.token)) => (reads(lang) <=> reads(twin))
  BY <1>1, ReadAlike
<1>5. reads(lang) /\ reads(twin) => other = p.outcome
  <2>. SUFFICES ASSUME reads(lang), reads(twin) PROVE other = p.outcome
    OBVIOUS
  <2>1. /\ Late(lang, p.token, p.now) <=> Late(twin, p.token, p.now)
        /\ Fits(p.token, p.query) \/ p.token.payload.f # Fingerprint(p.query)
    BY <1>1, ReadAlike
  <2>. QED
    BY <1>2, <2>1 DEF Reads, Late, Fits, Verdict, DecodeAt
<1>. HIDE DEF other, reads
<1>6. /\ (p.token # Garbage => AsWritten(p.token)) => other = p.outcome
      /\ other # p.outcome => "invalid_cursor" \in {other, p.outcome}
  BY <1>3, <1>4, <1>5
<1>. QED
  BY <1>6 DEF other

-----------------------------------------------------------------------------
(* The steps.                                                              *)

\* Damage and later builds keep a token in its shape.
LEMMA DerivedIsWellFormed ==
  ASSUME NEW x \in IssuedRecords, SignedAsRecorded(x), NEW tok, Derives(tok, x)
  PROVE  tok \in Tokens(Keys) \cup {Garbage}
<1>. DEFINE p == x.token.payload
<1>1. /\ x.token \in Tokens(Keys) /\ p \in Payloads /\ x.key \in Keys
      /\ x.token.mac \in Keys \X Payloads
  BY IssuedParts DEF IssuedRecords, Tokens
<1>2. CASE tok = x.token
  BY <1>1, <1>2
<1>3. CASE tok = Later(x)
  <2>1. [p EXCEPT !.v = Version + 1] \in Payloads
    <3>1. \A d \in Payloads, n \in Nat : [d EXCEPT !.v = n] \in Payloads
      BY DEF Payloads
    <3>2. Version + 1 \in Nat
      BY DEF Version
    <3>. HIDE DEF p
    <3>. QED
      BY <1>1, <3>1, <3>2
  <2>. QED
    BY <1>1, <1>3, <2>1 DEF Later, Encode, Sign, Tokens, Wires
<1>4. CASE tok \in Damaged(x)
  <2>1. \A q \in Queries : Fingerprint(q) \in Seq(Char)
    <3>. SUFFICES ASSUME NEW q \in Queries PROVE Fingerprint(q) \in Seq(Char)
      OBVIOUS
    <3>1. /\ q.account \in Seq(Char) /\ q.status \in Seq(Char)
          /\ q.sort \in Char /\ "|" \in Char
      BY ExchangeAssumption, CodecAssumption DEF Filters, Sorts
    <3>. QED
      BY <3>1 DEF Fingerprint
  <2>2. ASSUME NEW d \in Payloads
        PROVE  [x.token EXCEPT !.payload = d] \in Tokens(Keys)
    BY <1>1 DEF Tokens
  <2>3. /\ [p EXCEPT !.i = p.i + 1] \in Payloads
        /\ [p EXCEPT !.d = ~p.d] \in Payloads
        /\ [p EXCEPT !.t = p.t + 1] \in Payloads
        /\ \A q \in Queries : [p EXCEPT !.f = Fingerprint(q)] \in Payloads
    <3>1. /\ \A d \in Payloads, n \in Nat : [d EXCEPT !.i = n] \in Payloads
          /\ \A d \in Payloads, n \in Nat : [d EXCEPT !.t = n] \in Payloads
          /\ \A d \in Payloads, b \in BOOLEAN : [d EXCEPT !.d = b] \in Payloads
          /\ \A d \in Payloads, f \in Seq(Char) : [d EXCEPT !.f = f] \in Payloads
      BY DEF Payloads
    <3>2. p.i + 1 \in Nat /\ p.t + 1 \in Nat
      <4>1. p.i \in Nat /\ p.t \in Nat
        BY <1>1, Zenon DEF Payloads
      <4>. QED
        BY <4>1
    <3>3. (~p.d) \in BOOLEAN
      OBVIOUS
    <3>. HIDE DEF p
    <3>. QED
      BY <1>1, <2>1, <3>1, <3>2, <3>3
  <2>4. \A y \in Rewritten(x.token) : y \in Tokens(Keys)
    BY RewrittenSaysTheSame
  <2>. QED
    BY <1>4, <2>2, <2>3, <2>4 DEF Damaged
<1>. QED
  BY <1>2, <1>3, <1>4 DEF Derives

\* A new token is what its record says, and the bound on tokens holds.
LEMMA IssueKeeps ==
  ASSUME Inv, NEW s \in Servers, NEW r \in Rows, NEW q \in Queries,
         Issue(s, r, q)
  PROVE  Inv'
<1>. DEFINE tok == Signed(Lang(s), r, q, clock, key[s])
            x   == [token |-> tok, row |-> r, query |-> q, key |-> key[s],
                    at |-> clock]
<1>1. /\ issued' = issued \cup {x}
      /\ Cardinality(issued) < MaxIssued
      /\ shown' = {}
      /\ UNCHANGED <<clock, key>>
  BY DEF Issue, Signed
<1>2. /\ key[s] \in Keys /\ clock \in Nat /\ q \in Filters
      /\ r.at \in Nat /\ r.id \in Nat /\ r.at % Micro = 0
  BY ExchangeAssumption DEF Inv, TypeOK, Row
<1>3. tok \in Tokens(Keys)
  BY <1>2, SignedIsWellFormed
<1>4. Lang(s) \in Languages
  BY DEF Lang, Languages
<1>5. SignedAsRecorded(x)
  BY <1>4, Zenon DEF SignedAsRecorded
<1>. HIDE DEF tok
<1>6. x \in [token : Tokens(Keys), row : Rows, query : Queries, key : Keys,
             at : 0 .. clock]
  BY <1>2, <1>3
<1>. HIDE DEF x
<1>7. IsFiniteSet(issued') /\ Cardinality(issued') <= MaxIssued
  <2>1. /\ IsFiniteSet(issued) /\ Cardinality(issued) \in Nat
    BY FS_CardinalityType DEF Inv
  <2>2. /\ IsFiniteSet(issued \cup {x})
        /\ \/ Cardinality(issued \cup {x}) = Cardinality(issued)
           \/ Cardinality(issued \cup {x}) = Cardinality(issued) + 1
    BY <2>1, FS_AddElement
  <2>. QED
    BY <1>1, <2>1, <2>2, ExchangeAssumption
<1>8. TypeOK'
  BY <1>1, <1>6, <1>7, FS_EmptySet DEF Inv, TypeOK
<1>. QED
  BY <1>1, <1>5, <1>7, <1>8 DEF Inv, SignedAsRecorded

\* A presentation is judged by the verdict of its server.
LEMMA PresentKeeps ==
  ASSUME Inv, NEW s \in Servers, NEW q \in Queries, NEW x \in issued, NEW tok,
         Derives(tok, x), Present(s, tok, q)
  PROVE  Inv'
<1>. DEFINE p == [token |-> tok, server |-> s, key |-> key[s], query |-> q,
                  now |-> clock,
                  outcome |-> Verdict(Lang(s), tok, key[s], clock, q)]
<1>1. shown' = {p} /\ UNCHANGED <<clock, key, issued>>
  BY DEF Present
<1>2. clock \in Nat /\ key[s] \in Keys
  BY ExchangeAssumption DEF Inv, TypeOK
<1>3. x \in IssuedRecords /\ SignedAsRecorded(x)
  BY <1>2 DEF Inv, TypeOK, IssuedRecords
<1>4. tok \in Tokens(Keys) \cup {Garbage}
  BY <1>3, DerivedIsWellFormed
<1>5. Verdict(Lang(s), tok, key[s], clock, q) \in
        {"ok", "invalid_cursor", "cursor_expired", "cursor_filter_mismatch"}
  BY DEF Verdict, DecodeAt
<1>6. p \in [token : Tokens(Keys) \cup {Garbage}, server : Servers, key : Keys,
             query : Queries, now : 0 .. clock,
             outcome : {"ok", "invalid_cursor", "cursor_expired",
                        "cursor_filter_mismatch"}]
  BY <1>2, <1>4, <1>5
<1>7. /\ p.outcome = Verdict(Lang(p.server), p.token, p.key, p.now, p.query)
      /\ Derives(p.token, x)
  OBVIOUS
<1>. HIDE DEF p
<1>8. Cardinality(shown') <= 1
  <2>1. Cardinality({p}) = 1
    BY FS_Singleton
  <2>. QED
    BY <1>1, <2>1
<1>9. TypeOK'
  BY <1>1, <1>6, <1>8 DEF Inv, TypeOK
<1>10. \A y \in shown' : Judged(y)'
  BY <1>1, <1>7 DEF Judged, Derives, Lang, Later, Damaged
<1>. QED
  BY <1>1, <1>9, <1>10 DEF Inv, SignedAsRecorded

LEMMA ExchangeStep == Inv /\ [Next]_vars => Inv'
<1>. SUFFICES ASSUME Inv, [Next]_vars PROVE Inv'
  OBVIOUS
<1>1. ASSUME NEW s \in Servers, NEW r \in Rows, NEW q \in Queries, Issue(s, r, q)
      PROVE  Inv'
  BY <1>1, IssueKeeps
<1>2. ASSUME NEW s \in Servers, NEW q \in Queries,
             PresentIssued(s, q) \/ PresentOther(s, q)
      PROVE  Inv'
  <2>1. PICK x \in issued :
          \E tok : Derives(tok, x) /\ Present(s, tok, q)
    BY <1>2 DEF PresentIssued, PresentOther, Derives
  <2>2. PICK tok : Derives(tok, x) /\ Present(s, tok, q)
    BY <2>1
  <2>. QED
    BY <2>2, PresentKeeps
<1>3. ASSUME Tick PROVE Inv'
  <2>1. /\ clock' \in 0 .. MaxClock /\ 0 .. clock \subseteq 0 .. clock'
        /\ shown' = {} /\ UNCHANGED <<key, issued>>
    BY <1>3, ExchangeAssumption DEF Tick, Inv, TypeOK
  <2>2. TypeOK'
    BY <2>1, FS_EmptySet DEF Inv, TypeOK
  <2>. QED
    BY <2>1, <2>2 DEF Inv, SignedAsRecorded
<1>4. ASSUME NEW s \in Servers, NEW k \in Keys, Rotate(s, k) PROVE Inv'
  <2>1. TypeOK'
    BY <1>4, FS_EmptySet DEF Rotate, Inv, TypeOK
  <2>. QED
    BY <1>4, <2>1 DEF Rotate, Inv, SignedAsRecorded
<1>5. CASE UNCHANGED vars
  BY <1>5 DEF vars, Inv, TypeOK, SignedAsRecorded, Judged, Derives, Lang, Later,
              Damaged
<1>. QED
  BY <1>1, <1>2, <1>3, <1>4, <1>5 DEF Next

\* In every exchange, whatever is issued stands for what it was signed for,
\* and whatever is shown derives from it.
THEOREM ExchangeSafe == Spec => []Inv
<1>1. Init => Inv
  BY FS_EmptySet, ExchangeAssumption DEF Init, Inv, TypeOK
<1>. QED
  BY <1>1, ExchangeStep, PTL DEF Spec

\* Every state of every exchange is well typed.
THEOREM TypeCorrect == Spec => []TypeOK
<1>1. Inv => TypeOK
  BY DEF Inv
<1>. QED
  BY <1>1, ExchangeSafe, PTL

-----------------------------------------------------------------------------
(* What the two implementations promise each other.                        *)

\* A token is accepted only under its key, for its filters, at its row and
\* within its time, whoever signed it and whoever reads it.
THEOREM OnlyGenuineIsAccepted == Spec => []AcceptedIsGenuine
BY JudgedIsGenuine, ExchangeSafe, PTL

\* A token of one implementation is accepted by the other.
THEOREM GenuineTravels == Spec => []GenuineIsAccepted
BY JudgedIsServed, ExchangeSafe, PTL

\* Each refusal has its own cause.
THEOREM RefusalsAreTrue == Spec => []RefusalTellsTheCause
BY JudgedTellsTheCause, ExchangeSafe, PTL

\* Both implementations give a token in the form the encoders write the same
\* verdict, and differ on another form only by one of them calling it invalid.
THEOREM TwinsNeverDiffer == Spec => []TwinsAgree
BY JudgedAlike, ExchangeSafe, PTL

=============================================================================
