SPECIFICATION FairSpec
CONSTANTS
  r1 = r1
  ab = ab
  ba = ba
  z = z
  p1 = p1
  p2 = p2
  h1 = h1
  Calls = {c1, c2}
  Requests <- MixedRequests
  Runs = {r1}
  AllowedTools = {"github.issues.batch_create", "github.pr.comment.create"}
  Texts = {ab, ba, z}
  PRs = {p1, p2}
  Headers = {h1}
  Canon <- CanonOf
  BatchModes = {"partial", "strict"}
  MaxAttempts = 1
  NoPR = NoPR
  NoHeader = NoHeader
  NoRequest = NoRequest
  Nothing = Nothing
  Blank = Blank
  GitHubError = GitHubError
  Unanswered = Unanswered
  Refused = Refused
  Conflict = Conflict
  Failed = Failed
CHECK_DEADLOCK FALSE
INVARIANTS SuccessIsRecorded AnswerFitsRequest BatchAccounted
PROPERTIES NoRepeatAfterRecord CallsEnd
