SPECIFICATION Spec
CONSTANTS
  Numerals <- MCNumerals
  DefaultLimit = 1
  MaxLimit = 2
  IntHalf = 8
  LongHalf = 32
  Absent = Absent
  Blank = Blank
  Word = Word
  Pool <- MCPool
  GoServers = {g}
  JavaServers = {j}
  Accounts <- MCAccounts
  WalkSizes = {1, 2}
  Pages <- MCPages
  Sizes <- MCSizes
  MaxFaults = 1
  None = None
INVARIANTS
  TypeOK
  RepeatsNeedInserts
  LossesNeedDeletes
  DriftInvariant
PROPERTIES
  PageIsTheOneAsked
  TwinsAgree
CHECK_DEADLOCK FALSE
