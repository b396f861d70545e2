SPECIFICATION Spec
CONSTANTS
  r1 = r1
  t1 = t1
  t2 = t2
  k1 = k1
  reqA = reqA
  reqB = reqB
  respA = respA
  respB = respB
  Callers = {c1, c2}
  Ids = {i1, i2, i3, i4}
  Runs = {r1}
  Tools = {t1, t2}
  AllowedTools = {t1}
  Keys = {k1}
  NoKey = NoKey
  Bodies = {reqA, reqB, respA, respB}
  Inputs <- MCInputs
  NoFile = NoFile
  Partial = Partial
  NoRow = NoRow
  NoId = NoId
  NoInput = NoInput
SYMMETRY Symmetry
CHECK_DEADLOCK FALSE
INVARIANTS TypeOK EvidenceIntact ReplayFaithful NoSharedArtifacts
PROPERTY ImplementsLedger
