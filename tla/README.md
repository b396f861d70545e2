# ToolHub: a verification project

ToolHub is a gateway through which AI workflows act on GitHub, on a git working
tree and on QA commands. It promises that each such call is allowed by a policy,
approved where it must be, done once, and recorded as evidence. This directory
holds TLA+ models of the parts that keep these promises, TLC runs that check
them, and proofs that what the runs check on small instances holds for every
number of callers, calls and artifacts. Paths below are relative to
`src/toolhub/internal/` unless they start elsewhere.

## 1. The system

One process (`cmd/toolhub/main.go`) runs an HTTP server and an MCP server
(JSON-RPC lines over TCP). A goroutine handles each HTTP request and each MCP
connection. The handlers of both share one RunService, AuditService, Policy,
GitHub client, QA runner and codeops runner. State outlives the process in
PostgreSQL (runs, artifacts, tool_calls, steps, decisions, approvals), in artifact
files on disk, in the git working tree, and on GitHub.

| Part | State | Operations | Hard behaviour | What makes it correct |
|---|---|---|---|---|
| Audit trail (`core/audit.go`, `core/artifact.go`, `db/db.go`) | artifact files; tables artifacts, tool_calls | Record, Save, Read, ReplayResponse(WithRequestCheck) | files and rows written without a transaction; INSERTs that commit and report an error; cleanup by os.Remove; racing callers; crashes | each recorded call can be audited; one success per key; replay answers what was recorded |
| GitHub write tools (`http/server.go`, `mcp/server.go`, `core/issue.go`) | none of their own | issues.create, issues.batch_create, pr.comment.create | lookup, act, record are separate; retries of clients and of the GitHub client; two transports over one trail; batches that stop half way | what is confirmed is recorded; no repeat after a record; batch answers add up |
| GitHub client (`github/client.go`) | installation id and token behind a mutex | doAPI, CreateIssue, CreatePRComment, CreatePullRequest, GetPullRequest, ListPullRequestFiles | retries a POST; a mutex held over a request; a token used after the mutex is back; a list that changes between pages | errors are errors; no expired token is sent; a quiet list is read whole; every caller returns |
| Approvals (`core/audit.go`, `http/server.go`) | tables approvals, decisions | create, approve, reject, read | racing approvers; a change whose log entry fails | a verdict is whole; the log tells the truth |
| Code tools (`http/server.go`, `mcp/server.go`) | table steps | code.branch_pr.create, code.repair_loop | gate read before the work; QA iterations; rollback; half-done flows | no code without approval; success is whole; every loop ends |
| codeops runner (`codeops/runner.go`) | one working tree and its remote | Execute, RollbackBranch | calls share the tree without a lock; a failed command leaves its traces | a call alone in the tree is exact; rollback removes its branch |
| Policy (`core/policy.go`) | immutable after start | CheckTool, CheckPaths, RequiresApproval | path normalisation | no path outside the policy |
| QA runner (`qa/`) | a semaphore | Run, with a local or a sandboxed command | timeouts, cancellation while waiting, processes and containers that outlive a killed command | never more than the configured number at once; slots come back; a verdict is earned |
| QA, read and patch tools | none | qa.test, qa.lint, pr.get, pr.files.list, patch.generate | clients that hang up; a record that fails after the work | an answer is on record; a tool off the list leaves nothing |
| Runs (`core/run.go`) | table runs | create, get | none: written once | |
| Migrations (`db/migrate.go`) | schema_migrations | run at start | two processes at once; stops between migrations | each applied once and in order, all before serving |
| Server life cycle (`cmd/toolhub/main.go`) | listeners, connections, calls at work | start, shutdown, exit | calls cut off; commands that outlive the process | shutdown ends |
| Backup, restore (`src/scripts/`) | a dump and an archive | taken one after the other beside the server; loaded table by table | a Save or a cleanup in between; refused, interrupted and repeated loads | rows and files fit together |
| Telemetry, profiles, categories, documentation generator | counters; constants | | | |

Interactions: a handler asks Policy, then (code tools) the approval, then
AuditService for a replay, then GitHub, git or QA, then AuditService.Record, then
answers. Nothing in one handler is atomic with anything in another except single
SQL statements, single system calls and GitHub's own operations; every model takes
these as its atomic steps.

## 2. The modules

| Module | Models | Uses |
|---|---|---|
| `AuditLedger` | abstract: an append-only ledger of calls, one success per (run, tool, key) | |
| `AuditTrail` | Save and Record system call by system call, reads for replay | refines `AuditLedger` (`Ledger == INSTANCE ... WITH`) |
| `Backup` | backup.sh and restore.sh beside the handlers | composed with `AuditTrail`: its `Next` is a disjunct of `BackupNext` |
| `GitHubWrites` | the three writing tools on both transports | records through `AuditLedger!Commit` |
| `GitHubClient` | the installation token, requests, reads page by page | |
| `PathPolicy` | paths: Clean, prefixes, the policy's checks, what Execute writes | |
| `Approvals` | approval requests and resolutions, the decision log | `PathPolicy` judges the paths of a request |
| `CodeWrites` | the code tools, the working tree, the repair loop | an approval's status as `Approvals` leaves it |
| `Server` | processes from start to exit, migrations, the QA runner, the QA, read and patch tools | records in one step, as `AuditLedger` allows |
| `MC...` | small constants for each | |
| `AuditTrailProofs`, `BackupProofs`, `ServerProofs`, `PathPolicyProofs`, `ApprovalsProofs`, `GitHubWritesProofs`, `CodeWritesProofs`, `GitHubClientProofs` | the proofs of section 5 | each extends the module it is about; `ApprovalsProofs` uses `PathPolicyProofs` |

Definitions named `<X><Something>` whose comment begins "Mutant of X" stand
before X: each is X with a plausible bug. Replacing X by it must make TLC find a
violated property; no specification uses one.

### AuditTrail and AuditLedger

Record (`core/audit.go:48-122`) saves the request, the response and each extra
artifact, then inserts one tool_calls row. Save (`core/artifact.go:43-82`) draws a
uuid, creates the file, writes it, inserts the row, and removes the file when one
of the last two fails. Each of these is an action: `BeginRecord`, `CreateFile(Fails)`,
`WriteFile(Fails)`, `InsertArtifact(Fails)`, `RemoveFile`, `InsertToolCall(Fails)`,
`Crash`. The failing INSERTs include the one that commits and still reports an
error. `RemoveFile` may fail silently, as os.Remove's error is ignored. A body is
a value that stands for its bytes and its SHA-256: collisions are left out. An
artifact's file goes from absent to `Partial` to its body. The handlers' choice of
input is free, so that the models of the handlers need not be composed with it.

An entry of `AuditLedger` carries the bodies a reader gets for it. "The ledger only
grows" therefore says that no row, no artifact row and no file behind a recorded call
ever changes. `GitHubWrites` relies on this and records by the one step `Commit`.

### GitHubWrites

A call is a single issue, a batch, or a comment, over "http" or "mcp", with or
without an Idempotency-Key header, dry or real. Its steps are those of the
handlers: `Refuse` or `Arrive`, then per item `LookupFails`, `Replay`, `RefuseReuse`
or `Miss`; `Perform` or `PerformFails` (GitHub may have acted or not; CreateIssue
tries up to `MaxAttempts` times, CreatePRComment once); `Record` or `RecordFails`.
`Settle` goes on to the next item or answers. `Key` is the header or the hash of
run, tool, canonical text (labels sorted), pull request and index. `Stored` and
`Decoded` are the two response shapes, `{issue, preview}` of HTTP and the bare
issue of MCP, and what a replay reads from each. MCP has no header keys, so the
inputs give them to HTTP calls only.

### Approvals

CreateApproval inserts the row, saves the payload artifact, inserts the decision.
ResolveApproval reads the clock, updates the row, inserts the decision, and its
handler reads the row again. Each statement is an action with a failing twin. The
clock ticks once per request; "applied" is history, the order of the UPDATEs.

A request for an approval carries raw paths. `PathPolicy` takes a path as the
sequence of what stands between its slashes, so that "./", "//", a trailing slash
and ".." are all cases of one representation. Of a segment only the way it begins
counts, and constants say which does: `Longer` and `Dotted` are the pairs of
segments of which one begins the other. `Clean`, `HasPrefix` and the two trims are
Go's; `canonicalizePath`, `normalizePath`, `matchesForbiddenPrefix`, `CheckPaths`,
`RequiresApproval` and codeops' `safeRelativePath` are translated line by line.
White space around a path is left out: both sides trim it.

### CodeWrites

`Admit` is the gate and StartStep. `CheckoutBase`, `RunCommand` (checkout -b, write
and add of one file after another, commit, push) and `RevParse` are Execute, `QAPasses`/`QAFails` an iteration
of test and lint, `RollbackCheckout`/`RollbackDelete` RollbackBranch; `OpenPR`,
`Record`, `FinishStep` and `Answer` the end: a process that stops between the last two
leaves a closed step that nobody was told of. `ExecuteFails` stops at any command, with its
effect or without. The tree is HEAD, an index, the files written and not added, local
branches and the remote, one for all calls. Content is a set of changes, each a file of a
call; `MaxFiles` bounds the files of a request. A call that fails between a write and its
add leaves the file in `unadded`, where nothing takes it away. Each call
changes files of its own: two calls that edit one file would meet git's refusal to
check out over local changes, a failure that `ExecuteFails` includes. Staged and
unadded files travel across a checkout, as in git, and a checkout of a branch that only the remote
has creates the local one. GitHub opens a pull request only between two different
branches that it has. `alone` is history: the base that a call found if the tree was clean and
nobody else has been in it since, so that `AloneIsExact` can say what the pull
request of such a call contains. The approval status changes at any time
(`Resolve`), as `Approvals` allows. `QAPasses` notes what the tree holds, which is what test and lint
saw: in the shared tree that need not be the caller's own branch. The decisions of the loop are left out, since their errors are only logged.

### Server

A scenario (`Scenarios`) fixes who calls what and which processes there are; in
between everything interleaves. `Boot`, `CheckVersion`, `ApplyVersion` and
`BootFails` are the start: each migration is looked up by one statement and applied
by one transaction, in which the primary key of schema_migrations decides between
two processes. `Shutdown`, `GraceEnds`, `Exit` are the end of main, after which a
process may boot again; `Crash` is an end without warning. Either end takes the
calls with it and leaves their commands running as orphans.

A call goes `Accept`, `Refuse` or `Admit`, then acts, then `RecordCall` or
`RecordFails`. HTTP calls have a context that `HangUp` ends; the context of an MCP
call never ends. Inside `Runner.Run` a call holds a slot from `Acquire` to
`Return`, `DryRun` or `NoWorkDir`. A command is
its leader and what the leader starts. `LeaderEnds` or `Kill` ends the leader. With the
local backend what it started may live on: as "rest" it holds the output pipes, and
exec.Cmd.Wait keeps waiting for them (`Waited`); as "orphan" it has let go of them or
never had them, and runs on with nobody waiting and no slot. `RestEnds` takes the one to
the other or ends either. With the sandbox the leader is the docker client, and one that
is killed or fails may leave its container, an orphan too. `Verdict` is the
error handling of runLocal or RunCommand followed by DeriveStatus; "spared" is a
command that exits with 0 just as it is killed.

### GitHubClient

Time is a counter of ticks. `Tick` waits for requests that are as old as the
timeout of the http.Client lets them get. A token is the tick it expires at. Ticks are
GitHub's time; the clock that the client compares with a token's end (`Clocks`) is off
from it by `Skew` at most, at each look by another amount.
`TakeCached` and `LockAndAsk` take the mutex; the latter keeps it over `Discover`,
`Issue` and `Store`, or until `AskFails`. The request itself (`Arrive`, `Reject`,
`SendFails`) goes out after the mutex is back, one per page of a list, each with a
token asked for anew. `ChangeList` and `Revoke` are GitHub's doing.

### Backup

`PgDump` is one snapshot; `PackFile` reads one file as it is at that moment; the
handlers' steps come in between. `LoseHost` takes the database and the disk away.
`BeginRestore`, `CopyArtifacts`, `CopyRuns`, `CopyToolCalls` and `AddKeys`
follow a plain pg_dump: tables in the order of their names, keys at the end, each
COPY all or nothing, and psql going on after one that is refused. `keyed` says
whether the target has its tables and keys before, as docker compose makes it
(`db/init`), or not. Then tar unpacks file by file: `OpenFile` takes away the one that is
there and begins it anew, `WriteOut` completes it, `UnpackDone` is "Restore complete.".
`RestoreStops` interrupts anywhere, also between these two, and leaves the file that tar
was at gone or cut off (`half`); the restore may be run again.

## 3. The runs

A crash marks calls as gone. A retry after it is another call, which may come at
any time. Calls finish and nothing is left to do: every cfg says
`CHECK_DEADLOCK FALSE` for that reason. Symmetry is over call names (and artifact
ids), and is used without liveness only.

| Run | What it checks | Bounds, and why they are enough |
|---|---|---|
| `audit_trail` | `TypeOK`; `EvidenceIntact`: both artifacts of each recorded call exist, whole, and hash to its evidence; `ReplayFaithful`: a replay gives the recorded response and recognises exactly its request; `NoSharedArtifacts`: the cleanup of a failed Save cannot reach a recorded file; `ImplementsLedger` | 2 callers, 4 uuids: two complete calls race, or one completes after failures have consumed ids; one key with two different calls on it, a failed call with an extra artifact, a call without a key, a tool not allowed |
| `issue_create` | `OneAnswerPerKey`: racing calls are never told of different issues; `AnswerFitsRequest`: what is told of exists, under the same key and with the content asked for, whatever was retried; `TypeOK` | issues only, so that the exemption for pull requests does not come up; 3 calls: two that race and one that comes before, between or after; 2 attempts: a first and a retry; both transports, labels in two orders, one header key with two bodies |
| `batch` | `SuccessIsRecorded`: a success told is a success on record, naming the same issue; `AnswerFitsRequest`: as above, and for the same pull request if the key was computed; under a header key for the same body, which does not name the pull request (section 4); `NoRepeatAfterRecord`: GitHub never acts again for a key recorded before the call arrived; `BatchAccounted`: the counts of a batch answer agree with its rows, nothing is attempted after the first failure in strict mode and nothing skipped in partial mode; `CallsEnd` | 2 calls with 2 items each, of which one item overlaps: every combination of replayed, created, failed; a batch with the same item twice; comments with one text on two pull requests; dry runs; both modes, and a restart that changes the mode; one attempt at GitHub, as its retries are in `issue_create` and two here are more than can be searched: `CallsEnd` is about the items of a batch, not about a retry loop |
| `approvals` | `ResolutionWhole`: a row carries one verdict whole, the last applied; `LogIsTrue`: the decision log never runs ahead of the table; `UnloggedIsUnconfirmed`; `AnswerIsOwnOrLater`; `CheckedIsWritten`: over all paths of the bound, the policy judges a path as it would judge the name that Execute writes, which lies inside the tree and, if let through, in nothing built-in | 3 callers, so that a creator and two opposite approvers meet; 2 approvals; a wrong run; paths of up to 4 segments out of 15: two ups and two downs in any order, every built-in, a configured prefix of either list, names that begin with ".", "..", "-", or like a prefix |
| `code_gate` | `NoUnapprovedCode`: code in the tree, its index, on any branch or in any pull request came through the gate, even if another call committed it; `CallsEnd` | 2 calls; requests that fail each condition of the gate, one good repair loop, a good dry run; approvals that come and go; 2 iterations |
| `code_tree` | `SuccessIsWhole`: only a call whose commands went through, and that had a QA pass if it is a loop, opens a pull request, and ok means recorded ok and with such a pull request; `StepIsHonest`: a closed step says what was recorded, and nobody is told otherwise; `AloneIsExact`: undisturbed, a call opens, reports and tests exactly the base it found and its change; `RemoteHasOwner`: a rollback that reports no error left no branch; `TypeOK` | 2 calls on the same or different head branches, or one on top of the other's; requests of two files and of one, so that a failure comes before, between and after them; loops of 1 and 2 iterations; crashes at each step |
| `backup` | `BackupWhole`: every call of a complete backup has its artifact rows and its files, whole; `RestoredIsAuditable`: once a restore has completed, what is in the target can be audited, but for a file that a later tar is at or was stopped at, and right after one that completed without exception; `SecondRestoreIsWhole` | 2 handlers and 3 uuids: one call completes while another fails and cleans up, before, between and after dump and tar; 2 restores, as a second one is what meets the rows of a first; a target with and without tables |
| `server` | `CommandsHeld`: no more calls than slots are inside Run, and a leader and what holds its pipes has one of them behind it; what runs without one comes from a process that is gone, a docker client that ended badly, or a local leader that has ended; `VerdictEarned`; `AnswerIsRecorded`; `OffListLeavesNothing`; `SchemaInOrder`; `SlotComesFree`: no slot is lost; `DrainEnds`; `TypeOK` | one slot and 2 QA calls: one holds it and one waits; every pair of transports that matters; a tool off the list; 2 processes and 3 migrations: both find the same one, one is ahead of the other, one stops in between |
| `github_client` | `RefusedWasRevoked`: no expired token is sent; `QuietListIsWhole`: a list that did not change is read whole; `CallsReturn`: the mutex is always handed on | 2 callers, one at the mutex and one behind it; 7 ticks, tokens of 5, a margin of 2, of which one for the request and one for a clock that is off: a token is used, used up and replaced; pages of 2, at most 2: lists that end within a page, with it, and after the last |
| `doc_*` | one statement of a document each, violated (section 4) | the least that shows it |

`MaxAttempts = 2` stands for the four of CreateIssue (`github/client.go:296`): one attempt that is followed
by another is all the retry logic distinguishes. `RepairMaxIterations = 2` has a
first, a middle-or-last, and a request beyond the limit.

Fairness: `FairSpec` asks for weak fairness of `Step(c)` for each call: the
goroutine of a handler is scheduled and each thing it waits for ends. The GitHub
client has a timeout of 30 s, database queries and git commands end with an answer
or an error or are cancelled with the request's context, and QA commands have a
timeout of their own. No outcome is forced: every success has a failure beside it,
and `CallsEnd` holds whichever is taken. Arrivals, approvals and crashes are not
fair. `Server` adds timers: a deadline comes, a kill follows it, and the 15 s of main
pass. It does not assume that a command ends or that what a command started ever
closes its pipes; `SlotComesFree` makes one exception, for a call waiting in a process of
which another command's leftovers hold their pipes for good. `GitHubClient` is fair to the
steps of each caller: its requests end within the client's timeout. Weak fairness
is enough at the semaphore and the mutex, since the callers are finitely many and
each takes one turn (one per page in a list); a caller that comes back without end
could starve another in the model, where Go's mutex and channels serve in turn.

## 4. Where the documents say otherwise

Three runs expect a violation; each quotes a document, or the program itself, and
shows what the code does.

* `doc_replay`: successes "are replayed" (`src/docs/C4_BATCH_IDEMPOTENCY.md:22`).
  HTTP records `{issue, preview}` and replays it into a `gh.Issue`: an empty issue.
  MCP does the same with a row that HTTP recorded.
* `doc_approval_gate`: code.branch_pr.create is "approval-gated"
  (`src/docs/IMPLEMENTED_FEATURES_STATUS.md:24`). In the shared tree one call's
  commit takes in what another call staged under another approval.
* `doc_restore`: "Restore complete." (`src/scripts/restore.sh:21`). In a database that
  docker compose has prepared from `db/init`, the artifacts of the dump come before
  their runs and are refused, the tool calls after them too, and psql, started
  without ON_ERROR_STOP, ends with success. Run a second time, the restore is whole
  (`SecondRestoreIsWhole`), and into an empty database it is whole at once.

Met while reading, and in the models, but not claimed by a run: a dry run is
recorded as ok under the key of the real call, which is then answered by replay
and creates nothing; an approval that was resolved can be resolved again,
with the other verdict; a repair loop that fails after its push (not by QA) or
whose rollback fails leaves its branch on the remote. Also, against documents:

* C4, line 9, "Prevent duplicate GitHub resources on network retries": a lost answer
  makes CreateIssue post again (`github/client.go:303`), and a call that acted and
  failed to record is done again by its retry.
* `src/docs/mcp-tools.md:234`, "`fail` - all items in the batch failed": a batch with
  replayed successes whose other items failed says fail (`core/batch_status.go:7`).
* C4, line 29, a reused key with "a different payload is a conflict": the comparison
  leaves out the pull request number, which is in the URL (`http/server.go:1652`): the call
  is answered with the comment on the other pull request. `AnswerFitsRequest` is stated
  with that exemption, for comments under header keys.
* `src/docs/AUDIT_FAILURE_BOUNDARIES.md`, section 1, puts the policy check before the
  work: github.pr.files.list over MCP asks GitHub first (`mcp/server.go:1390`), and only
  Record refuses the tool. `OffListLeavesNothing` says what still holds.
* The same document, section 4, makes a failed Record fatal: on an early error of Run
  it is only logged (`http/server.go:1040`, `mcp/server.go:1454`), and the early
  error of a client that hung up while it waited for a slot is never recorded.

## 5. What is proved

`AuditTrailProofs`, for any sets of callers, ids, runs, tools, keys, bodies and
any inputs, from two assumptions: `InputsAssumption` (each input is a RecordInput with a
request and a response) and `DistinctAssumption` (the markers NoKey, NoId, NoInput,
NoFile, Partial, NoRow are not among the values they mark the absence of).

* `Invariance`: `Spec => []IInv`
* `TypeCorrect`, `EvidenceSafe`, `ArtifactsUnshared`, `ReplaySafe`: its consequences
  `TypeOK`, `EvidenceIntact`, `NoSharedArtifacts`, `ReplayFaithful`
* `LedgerRefinement`: `Spec => ImplementsLedger`

`EvidenceIntact` is not inductive: a state in which a caller is about to remove or
rewrite a file that a row names satisfies it, and the next step does not. What
rules that state out is ownership. `IInv` therefore adds `NoSharedArtifacts`
(what a caller holds, no row and no other caller names), `Drawn` (every id held or named
was drawn, so a new uuid is none of them), and `Progress` (what a caller has saved so far is
intact and in the order of its input, so that the row it inserts is sound from the
start). `RowsSound` adds the unique index, which makes replays unambiguous, and
that Record only returns rows that exist. The proof has one lemma per action for
ownership and evidence; frame lemmas (`OwnershipFrame`, `EvidenceFrame`,
`ProgressFrame`) carry the callers and rows that an action does not touch. The
refinement follows: an action that inserts a row is `Commit`, and every other
leaves each entry, its files included, as it was.

`BackupProofs`, from these and `BackupAssumption` (the bound on restores is
a natural number, and a target has its tables before or not):

* `BackupSafe`: `BackupSpec => []BackupWhole`
* `BackupStaysConsistent`: `BackupSpec => []BackupConsistent`, the reason for it: from
  the dump to the end of the archive, no step of Record touches a row of the
  dump or a file that one names
* `RestoreSafe`: `BackupSpec => []RestoredIsAuditable`. An interrupted tar does harm the
  file it was at, even one that an earlier restore had brought back whole; the theorem says
  that it harms no other, and that the next restore to complete mends it
* `SecondRestoreSuffices`: `BackupSpec => []SecondRestoreIsWhole`

`BackupWhole` alone is not inductive: it says nothing until the archive is done.
`BackupIInv` is `IInv` together with `BackupConsistent`, and a step of a handler
preserves it because of `NoSharedArtifacts`: what a handler writes or removes is
never what a recorded call names. `RestoreIInv` says that the target holds only
rows of the dump, that its tool calls come with the artifact rows they name, that
nothing is restored before the host is lost, and of the disk that a file this tar is done with,
or any file once a restore has completed, is as in the archive unless a tar was stopped at
it (`half`), which a tar that ends leaves for none. `SecondIInv` says of each table that
it holds all of the dump's rows or none, since a COPY loads all or none; once the runs are
there, which they are after the first complete restore, neither the artifacts nor the
tool calls can be refused for want of them, and what is loaded already is whole.

`ServerProofs`, for any callers, processes, scenarios, number of slots and number of
migrations, from `ServerAssumption` (the callers are finitely many, the scenarios give
each at most one request, and reads and patches are not QA tools):

* `SchemaSafe`: `Spec => []SchemaInOrder`
* `SlotsBoundCommands`: `Spec => []CommandsHeld`, about leaders and what holds their pipes;
  of what runs without a slot it says where it comes from
* `VerdictsAreEarned`, `AnswersAreRecorded`, `OffListIsRefused`: `VerdictEarned`,
  `AnswerIsRecorded`, `OffListLeavesNothing`
* `ServerTypes`: `TypeOK`, the range of the semaphore included

Three inductive invariants carry them. `SchemaInv` says that all migrations before
the one a starting process has come to are committed: only so is the next one
that the primary key lets in the next in order. `CallInv` ties the place of a call to
its command and to what it knows and told (`CallFacts`): a call that does not hold
a slot has no leader and nothing that holds its pipes, one that has not finished knows nothing, one that has
answered does no more. One lemma per group of actions proves it for the call that
steps; `CallFrame` carries the others. `SlotInv` says that the semaphore counts
exactly the calls inside Run; `SlotTaken`, `SlotGivenBack` and `SlotsGone` are the only ways
it changes.

`ApprovalsProofs`, for any callers, approvals, runs and requests, from
`JobsAssumption` (what the callers ask for) and `MarksAssumption` (the marks for an
absent value are not values):

* `ApprovalTypes`: `TypeOK`
* `RowsAreWhole`: `ResolutionWhole`
* `LogNeverRunsAhead`: `LogIsTrue`
* `ConfirmedIsLogged`: `UnloggedIsUnconfirmed`
* `AnswersAreCurrent`: `AnswerIsOwnOrLater`
* `CheckedPathsAreWritten`: `CheckedIsWritten`

The two properties about rows speak of the history of UPDATEs and hold step by step
only if an UPDATE in the history is of a caller that keeps its request, its
clock reading and its row from then on. `AppliedFacts` says so, `DecisionFacts` says the
same of a row of the log, and `CallerFacts` what a caller has behind it at each statement.
A step inserts a row, updates one, logs a decision or leaves the tables alone
(`Alone`); each property has one lemma over these forms, and each action one that
says which form it has.

The half of `CheckedIsWritten` that is about paths is `PathsJudgedAsWritten` in
`PathPolicyProofs`: `JudgedAsWritten`, for paths of any length over any segments, from
`SegmentsAssumption` (the names the built-in prefixes use are segments; what is a name
followed by "." and more is longer than the name). `Clean` walks a path segment by segment,
so the proof is an induction along the path. The induction theorems of the library take
an operator, which the provers here cannot instantiate; `WFMin`, that a non-empty set of
naturals has a least element, takes a set, and gives induction over the set of
lengths for which a fact holds (`SetInduction`). That the recursive function `Walked` exists is
its first use (`WalkedIsAFunction`); the others are that cleaning leaves a clean path alone
(`NamesStay`), that a leading "." is skipped (`DotIsSkipped`: codeops trims "./" before it
cleans, the policy after), and `LevelAlong`: what is left of the path after k segments either begins
with ".." for good, or has as many names as the walk is deep, and so never left its
directory. The half about requests needs `AskFacts`: a request that is at work, or was
and was not refused, has passed the checks.

`GitHubWritesProofs`, for any calls and any finite requests, from `RequestsAssumption`
(single tools have one item, header keys come over HTTP, pull requests with comments),
`ConfigAssumption`, `MarksAssumption`, and `KeysAssumption`: no client sends, as its
Idempotency-Key, a string that is a hash computed here. The code makes no such
distinction; a client that does so chooses the key of another request.

* `GitHubTypes`: `TypeOK`
* `TellsWhatIsRecorded`: `SuccessIsRecorded`
* `OneEffectPerKey`: `OneAnswerPerKey`
* `AnswersFit`: `AnswerFitsRequest`: the same key; with a computed key the same content
  and pull request, with a header key the same body, the pull request left out as in the code
* `NothingIsRepeated`: `NoRepeatAfterRecord`, a property of steps
* `BatchesAdd`: `BatchAccounted`
* `WritesKeepLedger`: `Spec => Ledger!Spec`. It is near by construction, since the
  model records by `Commit`, and says that what is committed is an entry

The invariant ties three places together that the code writes at different times: an
effect on GitHub is of an item that its call has reached (`EffectFacts`), a row is of such
an item and names an effect that exists (`EntryFacts`), a result of a call rests on a row
(`Backed`), which is the call's own or, for a replay, the success under its key. Rows
are `Apart`: one per item, and one success per key. So two clients who are told of an
effect under one key rest on one row. `known`, what was on record when a call arrived, never meets
the item a call is about to perform (`CallFacts`), which is all that `NoRepeatAfterRecord`
needs. The counts of a batch are cardinalities of sets of items, and a bijection
between items and rows (`RowsCounted`) makes them cardinalities of sets of rows.

`CodeWritesProofs`, for any calls, branches, approvals and requests and any number of
iterations, from `RequestsAssumption` and `ConfigAssumption` (Trunk is a branch, each
approval is of a run and a scope, NoRequest and NoBranch are marks):

* `CodeTypes`: `TypeOK`
* `CodeIsApproved`: `NoUnapprovedCode`
* `OkIsWhole`: `SuccessIsWhole`. That QA saw the very commit that is offered is no part
  of it: in the shared tree it need not, and `OwnChangeOnly` proves it of a call left alone
* `StepsAreHonest`: `StepIsHonest`, which allows a closed step without an answer
* `BranchesAreOwned`: `RemoteHasOwner`
* `OwnChangeOnly`: `AloneIsExact`

Git moves changes from place to place, so `NoUnapprovedCode` holds because no command
brings a change into use except `RunCommand` of its own call, which the gate let
through: `UseFacts`, and one lemma that every other action leaves `InUse` within what it
was. `AloneIsExact` needs the most: `AloneFacts` follows the index, HEAD, the
local branch, the remote branch and the reported commit of an undisturbed call from command to
command. After it has left the tree (`pc = "pr"`), others may be at work again,
and the branch keeps its content because `checkout -b` refuses a branch that exists
and nobody who has passed it is on that branch. The attempt to prove it showed
that an earlier form, which compared the pull request with what the base branch holds,
is false in general: if the base is the branch of another call, that call may
roll it back or push to it meanwhile. What is true, and is proved, is that the pull
request has the base as the call found it. The run has such a request.

`GitHubClientProofs`, for any callers, lists, page sizes and token lives, from
`ClientAssumption` (the time from handing out a token to its arrival and the skew of the clock together are at most the margin, a
token lives more than twice that, a page has at least one entry, lists are sequences):

* `NoTokenExpires`: `RefusedWasRevoked`
* `ListsAreWhole`: `QuietListIsWhole`

`TimeFacts` bounds, for a request on its way, the tick by the moment its token was handed
out; `ListFacts` says that the pages read of a list that stands still are its beginning.
The code's values meet the assumption as long as the local clock is off by no more than
30 s: a margin of 1 min, a client timeout of 30 s, tokens of 1 h, pages of 100. A clock that
is further behind GitHub's makes the client send expired tokens.

Only model-checked: liveness (`CallsEnd`, `CallsReturn`, `SlotComesFree`, `DrainEnds`), which
with ENABLED is outside what the proof system does. Every other property that
a run finds to hold is proved. The three `doc_*` statements are false.

## 6. What is not modelled, and the plan

Left out for good, as nothing else depends on state they have: runs (written once),
telemetry, error categories and codes, the documentation generator, the text of
patches and summaries, the parsing of the environment and of the QA command line,
the cut of long outputs.

Modelled in part: profiles and configuration (what they decide is a constant of a
model or chosen when a process starts) and the read tools (their calls, their
tokens, pages and records, not what they say).

To come: the step lemmas behind the liveness properties (which step of a call is possible
where, and what it brings closer), as far as they need no ENABLED; that `GitHubWrites` and
`Server` record as `AuditTrail` allows when its steps are not taken as one; and shorter proofs
where lemmas of two modules say the same.
