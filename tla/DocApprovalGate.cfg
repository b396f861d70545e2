SPECIFICATION Spec
CONSTANTS
  r1 = r1
  r2 = r2
  main = main
  h1 = h1
  h2 = h2
  a1 = a1
  a2 = a2
  a3 = a3
  Calls = {c1, c2}
  Requests <- TwoApprovals
  Runs = {r1, r2}
  Branches = {main, h1, h2}
  Trunk = main
  Ids = {a1, a2}
  ApprovalOf <- MCApprovalOf
  MaxFiles = 1
  RepairMaxIterations = 2
  NoRequest = NoRequest
  NoBranch = NoBranch
SYMMETRY Symmetry
CHECK_DEADLOCK FALSE
INVARIANT PRCarriesApproved
