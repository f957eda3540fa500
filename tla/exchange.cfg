SPECIFICATION Spec
CONSTANTS
  Char <- MCChar
  Micro = 2
  Second = 4
  TTL = 6
  Year10000 = 8
  NoCursor = NoCursor
  Garbage = Garbage
  Rows <- MCRows
  GoServers = {g}
  JavaServers = {j}
  Keys = {k1, k2}
  Queries <- MCQueries
  MaxClock = 11
  MaxIssued = 1
INVARIANTS
  TypeOK
  AcceptedIsGenuine
  GenuineIsAccepted
  RefusalTellsTheCause
  TwinsAgree
