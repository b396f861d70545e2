SPECIFICATION Spec
CONSTANTS
  c1 = c1
  Callers = {c1, c2}
  NoCaller = NoCaller
  TokenLife = 5
  Margin = 2
  Skew = 1
  CallTime = 1
  PageSize = 2
  MaxPages = 2
  Lists <- MCLists
  Mixes <- MCMixes
  MaxTime = 7
CHECK_DEADLOCK FALSE
INVARIANTS RefusedWasRevoked QuietListIsWhole
PROPERTY CallsReturn
