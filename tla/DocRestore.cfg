SPECIFICATION BackupSpec
CONSTANTS
  r1 = r1
  t1 = t1
  k1 = k1
  reqA = reqA
  respA = respA
  respB = respB
  Callers = {c1, c2}
  Ids = {i1, i2, i3}
  Runs = {r1}
  Tools = {t1}
  AllowedTools = {t1}
  Keys = {k1}
  NoKey = NoKey
  Bodies = {reqA, respA, respB}
  Inputs <- MCInputs
  NoFile = NoFile
  Partial = Partial
  NoRow = NoRow
  NoId = NoId
  NoInput = NoInput
  MaxRestores = 1
  Bootstraps = {TRUE}
SYMMETRY Symmetry
CHECK_DEADLOCK FALSE
INVARIANT RestoreCompleteIsComplete
