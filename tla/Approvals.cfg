SPECIFICATION Spec
CONSTANTS
  r1 = r1
  r2 = r2
  i1 = i1
  i2 = i2
  ann = ann
  bob = bob
  Callers = {c1, c2, c3}
  Ids = {i1, i2}
  Runs = {r1, r2}
  Approvers = {ann, bob}
  Jobs <- MCJobs
  Segments <- MCSegments
  Longer <- MCLonger
  Dotted <- MCDotted
  Hidden = {".git", ".github", ".env", ".env.local", ".envrc", "..x"}
  Upward = {"..x"}
  Dashed = {"-x"}
  ForbiddenItems <- MCForbidden
  ApprovalItems <- MCApproval
  MaxSegments = 4
  NoJob = NoJob
  NoRow = NoRow
  NoId = NoId
  NoOne = NoOne
  Unanswered = Unanswered
  Refused = Refused
  Failed = Failed
SYMMETRY Symmetry
CHECK_DEADLOCK FALSE
INVARIANTS TypeOK ResolutionWhole LogIsTrue UnloggedIsUnconfirmed AnswerIsOwnOrLater CheckedIsWritten
