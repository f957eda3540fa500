SPECIFICATION FairSpec
CONSTANTS
  Char <- MCChar
  Micro = 2
  Second = 2
  TTL = 2
  Year10000 = 1000
  NoCursor = NoCursor
  Garbage = Garbage
  Pool <- MCPool3
  GoServers = {g}
  JavaServers = {j}
  Keys = {k1, k2}
  Queries <- MCQueries3
  AskedLimits = {1}
  DefaultLimit = 1
  MaxLimit = 1
  MaxClock = 5
  MaxFaults = 2
  None = None
INVARIANTS
  ChangedFiltersRefused
PROPERTIES
  OwnCursorHonoured
  WalkEnds
CHECK_DEADLOCK FALSE
