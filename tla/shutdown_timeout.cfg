SPECIFICATION Spec
CONSTANTS
  p1 = p1
  p2 = p2
  c1 = c1
  Pages <- MCPages
  Checks <- MCChecks
  MaxConns = 1
  MaxHangs = 1
PROPERTIES
  TimeoutBoundsRequests
CHECK_DEADLOCK FALSE
