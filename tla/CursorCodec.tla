---------------------------- MODULE CursorCodec ----------------------------
(***************************************************************************)
(* The opaque cursor: what Encode signs, what DecodeAt accepts, and the    *)
(* fingerprint that ties a token to the filters of its walk.  Go and Java  *)
(* implement it twice; `lang` tells them apart where they differ.          *)
(*                                                                         *)
(* HMAC-SHA256 and the 8 bytes kept of a SHA-256 digest are taken as       *)
(* injective, so a signature is the pair of its key and its payload and a  *)
(* fingerprint is the text that is digested.  Of base64url a token keeps   *)
(* its signature, its payload and the form they are written in.  Time is   *)
(* counted in a unit of which Micro make a microsecond and Second make a   *)
(* second.                                                                 *)
(***************************************************************************)
EXTENDS Integers, Sequences

CONSTANTS
  Char,       \* what texts are made of; each of the two sorts counts as one
  Micro,      \* time units in a microsecond, the sixth decimal of "c"
  Second,     \* time units in a second, the unit of "t"
  TTL,        \* how long a position stays resumable
  Year10000,  \* the first instant whose year takes five digits
  NoCursor,   \* the absent cursor: first page asked for, or end of the walk
  Garbage     \* a token that nobody decodes, or too short for a signature

ASSUME CodecAssumption ==
  /\ Micro \in Nat \ {0}
  /\ Second \in Nat \ {0}
  /\ TTL \in Nat \ {0}
  /\ Year10000 \in Nat
  /\ NoCursor # Garbage
  /\ {"|", "created_at:desc", "created_at:asc"} \subseteq Char

Languages == {"go", "java"}

Version == 1

-----------------------------------------------------------------------------
(* The filters a cursor is bound to.                                       *)

Sorts == {"created_at:desc", "created_at:asc"}

Descending(sort) == sort # "created_at:asc"

\* The account is a numeral, so it cannot hold the separator.
Filters ==
  {q \in [account : Seq(Char), status : Seq(Char), sort : Sorts] :
     \A i \in DOMAIN q.account : q.account[i] # "|"}

\* Bug: no separators.
FingerprintNoSeparator(q) == q.account \o q.status \o <<q.sort>>

\* "<account_id>|<status>|<sort>".  The status is free text and may hold the
\* separator; a numeral and a sort may not.
Fingerprint(q) == q.account \o <<"|">> \o q.status \o <<"|", q.sort>>

-----------------------------------------------------------------------------
(* Writing.                                                                *)

\* Six decimals and a year of four digits.  From the year 10000 on Go writes
\* five bare digits and Java puts a plus sign in front of them.
FormatTime(lang, at) ==
  [at    |-> (at \div Micro) * Micro,
   style |-> IF at < Year10000 THEN "yyyy"
             ELSE IF lang = "go" THEN "yyyyy" ELSE "+yyyyy"]

Unix(now) == now \div Second

\* Bug: the flag records the opposite direction.
PayloadReversed(lang, row, desc, fingerprint, now) ==
  [v |-> Version, c |-> FormatTime(lang, row.at), i |-> row.id, d |-> ~desc,
   f |-> fingerprint, t |-> Unix(now)]

Payload(lang, row, desc, fingerprint, now) ==
  [v |-> Version,
   c |-> FormatTime(lang, row.at),
   i |-> row.id,
   d |-> desc,
   f |-> fingerprint,
   t |-> Unix(now)]

Payloads ==
  [v : Nat,
   c : [at : Nat, style : {"yyyy", "yyyyy", "+yyyyy"}],
   i : Nat, d : BOOLEAN, f : Seq(Char), t : Nat]

\* The forms in which the bytes of a token may arrive: as both encoders write
\* them, with the "=" of padded base64, with line breaks in them.
Wires == {"plain", "padded", "folded"}

\* The bytes of a token in any of these forms.
Rewritten(token) == {[token EXCEPT !.wire = w] : w \in Wires}

Tokens(keys) == [wire : Wires, mac : keys \X Payloads, payload : Payloads]

\* Bug: the arguments of the MAC are swapped.
SignSwapped(key, payload) == <<payload, key>>

Sign(key, payload) == <<key, payload>>

Encode(payload, key) ==
  [wire |-> "plain", mac |-> Sign(key, payload), payload |-> payload]

-----------------------------------------------------------------------------
(* Reading, in the order of the code: encoding and length, signature,      *)
(* payload, version, timestamp, age.                                       *)

\* RawURLEncoding refuses padding and skips CR and LF; getUrlDecoder takes
\* padding, or none, and refuses line breaks.
Decodes(lang, token) ==
  /\ token # Garbage
  /\ token.wire \in IF lang = "go" THEN {"plain", "folded"} ELSE {"plain", "padded"}

Authentic(lang, token, key) ==
  /\ Decodes(lang, token)
  /\ token.mac = Sign(key, token.payload)

ParsesTime(lang, c) ==
  \/ c.style = "yyyy"
  \/ lang = "java" /\ c.style = "+yyyyy"

Readable(lang, payload) ==
  /\ payload.v = Version
  /\ ParsesTime(lang, payload.c)

\* Bug: >= for >.
ExpiredEarly(lang, payload, now) == now - payload.t * Second >= TTL

\* Bug: the implementations disagree on the last instant.
ExpiredUnevenly(lang, payload, now) ==
  IF lang = "go"
  THEN now - payload.t * Second > TTL
  ELSE now >= payload.t * Second + TTL

\* Go: now.Sub(issuedAt) > ttl.  Java: now.isAfter(issuedAt.plus(ttl)).
Expired(lang, payload, now) ==
  IF lang = "go"
  THEN now - payload.t * Second > TTL
  ELSE now > payload.t * Second + TTL

DecodeAt(lang, token, key, now) ==
  IF ~Authentic(lang, token, key) THEN "invalid_cursor"
  ELSE IF ~Readable(lang, token.payload) THEN "invalid_cursor"
  ELSE IF Expired(lang, token.payload, now) THEN "cursor_expired"
  ELSE "ok"

\* Bug: the fingerprint is never compared.
VerdictUnbound(lang, token, key, now, q) == DecodeAt(lang, token, key, now)

\* Bug: the filters are compared before the age.
VerdictFiltersFirst(lang, token, key, now, q) ==
  IF Authentic(lang, token, key) /\ token.payload.f # Fingerprint(q)
  THEN "cursor_filter_mismatch"
  ELSE DecodeAt(lang, token, key, now)

\* What the service makes of a token: it must decode, then carry the
\* fingerprint and the direction of the filters being asked for now.
Verdict(lang, token, key, now, q) ==
  LET decoded == DecodeAt(lang, token, key, now) IN
  IF decoded # "ok" THEN decoded
  ELSE IF token.payload.f # Fingerprint(q) THEN "cursor_filter_mismatch"
  ELSE IF token.payload.d # Descending(q.sort)
       THEN IF lang = "go" THEN "cursor_filter_mismatch" ELSE "invalid_cursor"
  ELSE "ok"

\* Bug: the id of the position is lost.
BoundNoId(token) == [at |-> token.payload.c.at, id |-> 0]

\* The position handed to the repository.
Bound(token) == [at |-> token.payload.c.at, id |-> token.payload.i]

=============================================================================
