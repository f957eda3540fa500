-------------------------- MODULE QueryParameters --------------------------
(***************************************************************************)
(* The numeric parameters of a query string, as both implementations read  *)
(* them.  A raw value is Absent, Blank (white space only), Word (not a     *)
(* numeral) or the integer its numeral denotes, of any size; in a query    *)
(* string it is written once, with white space around it, or repeatedly.   *)
(* Numerals are of ASCII digits, and white space is the space.             *)
(*                                                                         *)
(* Go reads 64-bit integers and computes with them.  Java reads 64-bit     *)
(* integers, casts the page to 32 bits and computes with 32 bits.          *)
(***************************************************************************)
EXTENDS Limits

CONSTANTS
  IntHalf,    \* Java's int is -IntHalf .. IntHalf - 1
  LongHalf,   \* Go's int and Java's long are -LongHalf .. LongHalf - 1
  Absent, Blank, Word

ASSUME ParametersAssumption ==
  /\ IntHalf \in Nat \ {0}
  /\ LongHalf \in Nat \ {0}
  /\ IntHalf <= LongHalf
  /\ MaxLimit < IntHalf
  /\ {Absent, Blank, Word} \cap Int = {}
  /\ Blank \notin {Absent, Word}

\* What a signed integer of 2 * half values makes of n.
Wrap(n, half) == ((n + half) % (2 * half)) - half

RawValues == Int \cup {Absent, Blank, Word}

Forms == {"once", "spaced", "repeated"}

Parameter == [raw : RawValues, form : Forms]

Once(raw) == [raw |-> raw, form |-> "once"]

\* gin hands over the first occurrence as it is, which is no numeral with white
\* space around it.  Spring joins the occurrences with commas, which makes no
\* numeral, and the white space is trimmed.
Reading(lang, parameter) ==
  IF parameter.form = (IF lang = "go" THEN "spaced" ELSE "repeated") THEN Word
  ELSE parameter.raw

\* An empty parameter counts as absent everywhere, white space in Java only.
Given(lang, raw) ==
  /\ raw # Absent
  /\ lang = "java" => raw # Blank

ParsesAsLong(raw) == raw \notin {Blank, Word} /\ raw \in -LongHalf .. LongHalf - 1

\* The page number a numeral stands for: Java casts it to an int.
ReadPage(lang, raw) == IF lang = "java" THEN Wrap(raw, IntHalf) ELSE raw

\* Bug: Java lets the page 0 through.
PageRefusedUnevenly(lang, raw) ==
  /\ Given(lang, raw)
  /\ ~ParsesAsLong(raw)
     \/ ReadPage(lang, raw) < (IF lang = "java" THEN 0 ELSE 1)

PageRefused(lang, raw) ==
  /\ Given(lang, raw)
  /\ ~ParsesAsLong(raw) \/ ReadPage(lang, raw) < 1

PageNumber(lang, raw) == IF Given(lang, raw) THEN ReadPage(lang, raw) ELSE 1

\* The limit of the keyset endpoint and the size of the offset one.
SizeRefused(lang, raw) ==
  /\ Given(lang, raw)
  /\ ~ParsesAsLong(raw) \/ raw < 0

PageSize(lang, raw) ==
  IF Given(lang, raw) THEN CapLimit(raw) ELSE DefaultLimit

\* Bug: pages counted from 0.
OffsetFromZero(lang, page, size) == page * size

\* Bug: the size of a page is left out.
OffsetBySingles(lang, page, size) == page - 1

\* Bug: the extra row is counted as one of the page.
OffsetWithExtra(lang, page, size) == (page - 1) * (size + 1)

\* The rank of the first row of a page.
Offset(lang, page, size) ==
  Wrap((page - 1) * size, IF lang = "java" THEN IntHalf ELSE LongHalf)

=============================================================================
