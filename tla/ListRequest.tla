---------------------------- MODULE ListRequest ----------------------------
(***************************************************************************)
(* The query string of GET /v1/transactions, as both implementations read  *)
(* it: which parameter is refused first, which walk the others name.       *)
(*                                                                         *)
(* A parameter is the sequence of its occurrences, none if it is absent,   *)
(* and an occurrence is a text over Char.  gin hands the first occurrence  *)
(* to UnmarshalParam.  Spring hands a String all of them, joined with      *)
(* commas.  An occurrence of `cursor` is a token, Garbage or Blank.        *)
(***************************************************************************)
EXTENDS TransactionTable, CursorCodec, QueryParameters, SequencesExt

CONSTANT DigitValue   \* the digits among the characters, with their values

ASSUME ListRequestAssumption ==
  /\ DOMAIN DigitValue \subseteq Char
  /\ \A c \in DOMAIN DigitValue : DigitValue[c] \in 0 .. 9
  /\ "0" \in DOMAIN DigitValue /\ DigitValue["0"] = 0
  /\ {" ", ",", "+", "-", "|"} \subseteq Char \ DOMAIN DigitValue

Digits == DOMAIN DigitValue

\* The text of a parameter; an absent one reads as the empty text.
Text(lang, occurrences) ==
  IF occurrences = <<>> THEN <<>>
  ELSE IF lang = "go" THEN Head(occurrences)
  ELSE Tail(FlattenSeq([i \in DOMAIN occurrences |-> <<",">> \o occurrences[i]]))

IsBlank(text) == ToSet(text) \subseteq {" "}

\* raw.trim() for Java; Go converts the text as it is.
Trimmed(lang, text) ==
  LET inner == {i \in DOMAIN text : text[i] # " "} IN
  IF lang = "go" \/ inner = {} THEN text
  ELSE SubSeq(text, Min(inner), Max(inner))

Unsigned(text) ==
  IF text # <<>> /\ Head(text) \in {"+", "-"} THEN Tail(text) ELSE text

\* The numeral without its sign and its leading zeros, as it is formatted when
\* the filters are digested.
Canonical(digits) ==
  SubSeq(digits,
         Min({i \in DOMAIN digits : DigitValue[digits[i]] # 0}), Len(digits))

\* The number that a sequence of digits denotes.
Value(digits) ==
  LET value[i \in 0 .. Len(digits)] ==
        IF i = 0 THEN 0 ELSE 10 * value[i - 1] + DigitValue[digits[i]]
  IN value[Len(digits)]

\* What the conversion to an integer makes of a text: a raw value.
Raw(lang, text) ==
  LET parsed == Trimmed(lang, text)
      digits == Unsigned(parsed)
  IN IF text = <<>> THEN Absent
     ELSE IF IsBlank(text) THEN Blank
     ELSE IF digits = <<>> \/ ~(ToSet(digits) \subseteq Digits) THEN Word
     ELSE IF Head(parsed) = "-" THEN -Value(digits) ELSE Value(digits)

-----------------------------------------------------------------------------
(* The filters.                                                            *)

\* Bug: the account 0 is let through.
AccountRefusedBelowZero(lang, text) ==
  LET raw == Raw(lang, text) IN
  Given(lang, raw) /\ (~ParsesAsLong(raw) \/ raw < 0)

AccountRefused(lang, text) ==
  LET raw == Raw(lang, text) IN
  Given(lang, raw) /\ (~ParsesAsLong(raw) \/ raw <= 0)

Account(lang, text) ==
  IF ~Given(lang, Raw(lang, text)) \/ Raw(lang, text) = 0 THEN NoAccount
  ELSE Canonical(Unsigned(Trimmed(lang, text)))

\* White space is an absent sort for Java, an unknown one for Go.
SortGiven(lang, text) ==
  /\ text # <<>>
  /\ lang = "java" => ~IsBlank(text)

SortRefused(lang, text) ==
  SortGiven(lang, text) /\ text \notin {<<sort>> : sort \in Sorts}

\* Bug: the two implementations disagree on the default.
SortUneven(lang, text) ==
  IF SortGiven(lang, text) THEN Head(text)
  ELSE IF lang = "go" THEN "created_at:desc" ELSE "created_at:asc"

Sort(lang, text) ==
  IF SortGiven(lang, text) THEN Head(text) ELSE "created_at:desc"

\* Bug: in Java an absent status is not the empty text.
QueryNullStatus(lang, q) ==
  [account |-> Account(lang, Text(lang, q.account)),
   status  |-> IF lang = "java" /\ q.status = <<>> THEN <<"x">>
               ELSE Text(lang, q.status),
   sort    |-> Sort(lang, Text(lang, q.sort))]

\* The walk that a query string names.
Query(lang, q) ==
  [account |-> Account(lang, Text(lang, q.account)),
   status  |-> Text(lang, q.status),
   sort    |-> Sort(lang, Text(lang, q.sort))]

LimitText(lang, q) == Raw(lang, Text(lang, q.limit))

\* Bug: Java reads the limit before the filters.
RefusalOutOfOrder(lang, q) ==
  IF lang = "java" /\ SizeRefused(lang, LimitText(lang, q)) THEN "invalid_limit"
  ELSE IF AccountRefused(lang, Text(lang, q.account)) THEN "invalid_account_id"
  ELSE IF SortRefused(lang, Text(lang, q.sort)) THEN "invalid_sort"
  ELSE IF SizeRefused(lang, LimitText(lang, q)) THEN "invalid_limit"
  ELSE "ok"

\* The parameters are read in this order, and the first error is the answer.
Refusal(lang, q) ==
  IF AccountRefused(lang, Text(lang, q.account)) THEN "invalid_account_id"
  ELSE IF SortRefused(lang, Text(lang, q.sort)) THEN "invalid_sort"
  ELSE IF SizeRefused(lang, LimitText(lang, q)) THEN "invalid_limit"
  ELSE "ok"

Limit(lang, q) ==
  IF Refusal(lang, q) = "ok" THEN PageSize(lang, LimitText(lang, q)) ELSE 0

-----------------------------------------------------------------------------
(* The cursor.                                                             *)

\* Two tokens joined with a comma are not base64url, nor is white space, which
\* Java takes for an absent cursor when it is the whole parameter.
CursorText(lang, occurrences) ==
  LET first == IF occurrences = <<>> THEN NoCursor ELSE Head(occurrences) IN
  IF lang = "java" /\ Len(occurrences) > 1 THEN Garbage
  ELSE IF first # Blank THEN first
  ELSE IF lang = "java" THEN NoCursor ELSE Garbage

\* What becomes of a request: the first refusal, or the verdict on its token.
Outcome(lang, q, occurrences, key, now) ==
  LET token == CursorText(lang, occurrences) IN
  IF Refusal(lang, q) # "ok" THEN Refusal(lang, q)
  ELSE IF token = NoCursor THEN "ok"
  ELSE Verdict(lang, token, key, now, Query(lang, q))

=============================================================================
