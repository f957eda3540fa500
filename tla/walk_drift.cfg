SPECIFICATION Spec
CONSTANTS
  Char <- MCChar
  Micro = 2
  Second = 4
  TTL = 4
  Year10000 = 1000
  NoCursor = NoCursor
  Garbage = Garbage
  Pool <- MCPool
  GoServers = {g}
  JavaServers = {j}
  Keys = {k1, k2}
  Queries <- MCQueries
  AskedLimits = {1, 9}
  DefaultLimit = 1
  MaxLimit = 2
  MaxClock = 0
  MaxFaults = 1
  None = None
INVARIANTS
  TypeOK
  NothingSkipped
  EndIsComplete
  PagesAdvance
  HasMoreKeepsItsWord
  QuietPageIsOffsetPage
  WalkInvariant
PROPERTIES
  KeepsThePromise
CHECK_DEADLOCK FALSE
