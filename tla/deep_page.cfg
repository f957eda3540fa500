SPECIFICATION Spec
CONSTANTS
  Numerals <- MCNumerals
  DefaultLimit = 1
  MaxLimit = 2
  IntHalf = 8
  LongHalf = 32
  Absent = Absent
  Blank = Blank
  Word = Word
  Pool <- MCPool3
  GoServers = {g}
  JavaServers = {j}
  Accounts <- MCAccounts
  WalkSizes = {1, 2}
  Pages <- MCDeepPages
  Sizes <- MCSmallSizes
  MaxFaults = 1
  None = None
PROPERTIES
  EveryPageIsServed
CHECK_DEADLOCK FALSE
