SPECIFICATION Spec
CONSTANTS
  p1 = p1
  p2 = p2
  c1 = c1
  c2 = c2
  Processes = {p1, p2}
  NoProcess = NoProcess
  Callers = {c1, c2}
  Tools = {"qa", "pr_get", "files_list", "patch"}
  QATools = {"qa"}
  AllowedTools = {"qa", "pr_get", "patch"}
  NoRequest = NoRequest
  Scenarios <- MCScenarios
  Backends = {"local", "sandbox"}
  MaxConcurrency = 1
  LastVersion = 3
CHECK_DEADLOCK FALSE
INVARIANTS TypeOK CommandsHeld VerdictEarned AnswerIsRecorded OffListLeavesNothing SchemaInOrder
PROPERTIES SlotComesFree DrainEnds
