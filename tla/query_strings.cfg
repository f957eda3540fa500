SPECIFICATION Spec
CONSTANTS
  Char <- MCChar
  DigitValue <- MCDigitValue
  Micro = 2
  Second = 4
  TTL = 4
  Year10000 = 1000
  NoCursor = NoCursor
  Garbage = Garbage
  DefaultLimit = 1
  MaxLimit = 3
  IntHalf = 8
  LongHalf = 64
  Absent = Absent
  Blank = Blank
  Word = Word
  Rows <- MCRows
  Key = k1
  RawQueries <- MCQueries
  MaxIssued = 1
INVARIANTS
  SameStringSameWalk
  TokenTellsRequestsApart
  TwinsReadAlike
