SPECIFICATION Spec
CONSTANTS
  GoServers = {g}
  JavaServers = {j}
  name = name
  k1 = k1
  k2 = k2
  Missing = Missing
  Empty = Empty
  Malformed = Malformed
  Files <- MCFiles
  Environments <- MCEnvironments
  MaxEdits = 2
  MaxTime = 2
INVARIANTS
  NoForgeableToken
  PositionsExpire
