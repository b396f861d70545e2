----------------------------- MODULE GitHubWrites -----------------------------
(***************************************************************************)
(* The three tools that write to GitHub under an idempotency key, on both  *)
(* transports: github.issues.create, github.issues.batch_create and        *)
(* github.pr.comment.create (internal/http/server.go, mcp/server.go,       *)
(* github/client.go).  A handler looks the key up among the successful     *)
(* tool calls, replays the recorded response if there is one, and else     *)
(* calls GitHub and records the call.  Nothing is held between the lookup  *)
(* and the record, and GitHub may act on a request it never answers.       *)
(*                                                                         *)
(* Record is AuditLedger's Commit, which AuditTrail implements.  A call is *)
(* one request handled once; a client that retries makes another call.     *)
(***************************************************************************)
EXTENDS Naturals, Sequences, FiniteSets

CONSTANTS Calls, Requests, Runs,
          AllowedTools,     \* the tool allowlist of Policy
          Texts, PRs, Headers,
          Canon,            \* text -> text: titles and labels trimmed, labels sorted
          BatchModes,       \* the batch modes the server may be started with
          MaxAttempts,      \* maxAttempts of CreateIssue (4 in the code)
          NoPR, NoHeader, NoRequest,
          Nothing,          \* a nil issue or comment
          Blank,            \* the zero gh.Issue
          GitHubError,
          Unanswered, Refused, Conflict, Failed

Issue   == "github.issues.create"
Batch   == "github.issues.batch_create"
Comment == "github.pr.comment.create"
Tools   == {Issue, Batch, Comment}

Item == [text : Texts, pr : PRs \cup {NoPR}]
Request == [run : Runs, tool : Tools, via : {"http", "mcp"},
            header : Headers \cup {NoHeader}, dry : BOOLEAN, items : Seq(Item)]

ASSUME RequestsAssumption ==
  /\ Requests \subseteq Request
  /\ \A r \in Requests :
       /\ Len(r.items) >= 1
       /\ r.tool # Batch => Len(r.items) = 1
       /\ r.header # NoHeader => r.via = "http" /\ r.tool # Batch
       /\ \A i \in 1..Len(r.items) : r.items[i].pr = NoPR <=> r.tool # Comment
ASSUME ConfigAssumption ==
  /\ Canon \in [Texts -> Texts]
  /\ BatchModes \subseteq {"partial", "strict"} /\ BatchModes # {}
  /\ MaxAttempts \in Nat \ {0}

VARIABLES
  mode,     \* BATCH_MODE of the running process
  github,   \* the issues and comments that exist, each named by what made it
  ledger, returned,  \* the audit trail (AuditLedger)
  pc, req,
  attempt,  \* the attempt of CreateIssue under way
  outcome,  \* what GitHub made for the item at hand, or GitHubError
  results,  \* the outcome of every item so far
  answer,   \* what the client was sent
  known     \* history: keys with a recorded success when the call arrived

trail == <<ledger, returned>>
vars == <<mode, github, ledger, returned, pc, req, attempt, outcome, results, answer, known>>

------------------------------------------------------------------------------
(* Keys and bodies. *)

\* Mutant of Key: the pull request left out of the hash.
KeyWithoutPR(r, i) ==
  IF r.header # NoHeader THEN r.header
  ELSE [text |-> IF r.tool = Comment THEN r.items[i].text ELSE Canon[r.items[i].text],
        pr |-> NoPR, index |-> IF r.tool = Batch THEN i ELSE 0]

\* The Idempotency-Key header, or the hash of MakeIssueIdempotencyKey.
Key(r, i) ==
  IF r.header # NoHeader THEN r.header
  ELSE [text |-> IF r.tool = Comment THEN r.items[i].text ELSE Canon[r.items[i].text],
        pr |-> r.items[i].pr,
        index |-> IF r.tool = Batch THEN i ELSE 0]

\* The request body the handler records and compares; the pull request of a
\* comment is in the URL and not part of it.
Sent(r, i) == [text |-> r.items[i].text, dry |-> r.dry /\ r.tool # Batch]

\* The response body recorded: MCP stores an issue as it is, HTTP stores
\* {issue, preview}; both store {comment, preview}.
Stored(r, made) == [wrapped |-> r.via = "http" \/ r.tool = Comment, made |-> made]

\* What a replay decodes from it: an issue is read into a gh.Issue, a comment
\* into a free-form map.
Decoded(tool, body) ==
  IF tool # Comment /\ (body.wrapped \/ body.made = Nothing) THEN Blank ELSE body.made

\* A header is sent, a hash is computed: no client sends a hash as its header.
Hashes == [text : Texts, pr : PRs \cup {NoPR}, index : Nat]
ASSUME KeysAssumption == \A k \in Headers \cup {NoHeader} : k \notin Hashes

Keys == UNION {{Key(r, i) : i \in 1..Len(r.items)} : r \in Requests}
Effects == Calls \X (Nat \ {0}) \X (1..MaxAttempts)
Bodies == [text : Texts, dry : BOOLEAN]
            \cup [wrapped : BOOLEAN, made : Effects \cup {Nothing}]
ASSUME MarksAssumption == \A mark \in {Nothing, Blank, GitHubError} : mark \notin Effects

Ledger == INSTANCE AuditLedger WITH CallIds <- Calls \X Nat, NoKey <- NoHeader

\* GetSuccessfulToolCallByIdempotency.
Successes(run, tool, key) ==
  {e \in ledger : e.run = run /\ e.tool = tool /\ e.key = key /\ e.status = "ok"}

------------------------------------------------------------------------------
Result == [replayed : BOOLEAN, failed : BOOLEAN, made : Effects \cup {Nothing, Blank}]
Answers == [mode : BatchModes, ok : BOOLEAN, status : {"ok", "partial", "fail"}, dry : BOOLEAN,
            errors : Nat, replayed : Nat, created : Nat, results : Seq(Result)]

TypeOK ==
  /\ mode \in BatchModes
  /\ github \subseteq Effects
  /\ Ledger!TypeOK
  /\ pc \in [Calls -> {"new", "lookup", "call", "record", "done", "gone"}]
  /\ req \in [Calls -> Requests \cup {NoRequest}]
  /\ attempt \in [Calls -> 1..MaxAttempts]
  /\ outcome \in [Calls -> Effects \cup {Nothing, GitHubError}]
  /\ results \in [Calls -> Seq(Result)]
  /\ answer \in [Calls -> Answers \cup {Unanswered, Refused, Conflict, Failed}]
  /\ known \in [Calls -> SUBSET Keys]

Init ==
  /\ mode \in BatchModes
  /\ github = {} /\ Ledger!Init
  /\ pc = [c \in Calls |-> "new"]
  /\ req = [c \in Calls |-> NoRequest]
  /\ attempt = [c \in Calls |-> 1]
  /\ outcome = [c \in Calls |-> Nothing]
  /\ results = [c \in Calls |-> <<>>]
  /\ answer = [c \in Calls |-> Unanswered]
  /\ known = [c \in Calls |-> {}]

ItemAt(c) == Len(results[c]) + 1
KeyAt(c) == Key(req[c], ItemAt(c))
\* Mutant of Recorded: every item is looked up under the key of the first.
RecordedFirst(c) == Successes(req[c].run, req[c].tool, Key(req[c], 1))
Recorded(c) == Successes(req[c].run, req[c].tool, KeyAt(c))
EffectAt(c) == <<c, ItemAt(c), attempt[c]>>

Goto(c, label) == pc' = [pc EXCEPT ![c] = label]

\* The handler answers with an error of its own and is done.
Abort(c, error) ==
  /\ Goto(c, "done")
  /\ answer' = [answer EXCEPT ![c] = error]

DeriveBatchStatus(total, replayed, errors) ==
  CASE errors = 0 -> "ok"
    [] errors # 0 /\ errors = total - replayed -> "fail"
    [] OTHER -> "partial"

\* The answer to a call whose items came to rs.  The counts and the status go
\* into batch answers only, total being the items processed; a replayed single
\* call says dry_run=false.
Answer(r, rs) ==
  LET errors == Cardinality({i \in 1..Len(rs) : rs[i].failed})
      replayed == Cardinality({i \in 1..Len(rs) : rs[i].replayed})
  IN [mode |-> mode, ok |-> errors = 0,
      status |-> DeriveBatchStatus(Len(rs), replayed, errors),
      dry |-> r.dry /\ (r.tool = Batch \/ replayed = 0),
      errors |-> errors, replayed |-> replayed, created |-> Len(rs) - replayed,
      results |-> rs]

\* Mutant of Settle: a strict batch goes on after a failure.
SettleGoingOn(c, result) ==
  LET rs == Append(results[c], result)
      last == Len(rs) = Len(req[c].items)
  IN /\ results' = [results EXCEPT ![c] = rs]
     /\ attempt' = [attempt EXCEPT ![c] = 1]
     /\ outcome' = [outcome EXCEPT ![c] = Nothing]
     /\ Goto(c, IF last THEN "done" ELSE "lookup")
     /\ answer' = IF last THEN [answer EXCEPT ![c] = Answer(req[c], rs)] ELSE answer

\* The item at hand is settled: on to the next, or answer.
Settle(c, result) ==
  LET rs == Append(results[c], result)
      last == \/ Len(rs) = Len(req[c].items)
              \/ result.failed /\ mode = "strict"
  IN /\ results' = [results EXCEPT ![c] = rs]
     /\ attempt' = [attempt EXCEPT ![c] = 1]
     /\ outcome' = [outcome EXCEPT ![c] = Nothing]
     /\ Goto(c, IF last THEN "done" ELSE "lookup")
     /\ answer' = IF last THEN [answer EXCEPT ![c] = Answer(req[c], rs)] ELSE answer

------------------------------------------------------------------------------
(* The steps of a handler. *)

\* The tool is not on the allowlist.
Refuse(c, r) ==
  /\ pc[c] = "new"
  /\ r.tool \notin AllowedTools
  /\ req' = [req EXCEPT ![c] = r]
  /\ Abort(c, Refused)
  /\ UNCHANGED <<github, trail, attempt, outcome, results, known>>

\* The run exists, the tool is allowed and the input valid.
Arrive(c, r) ==
  /\ pc[c] = "new"
  /\ r.tool \in AllowedTools
  /\ req' = [req EXCEPT ![c] = r]
  /\ known' = [known EXCEPT ![c] = {k \in Keys : Successes(r.run, r.tool, k) # {}}]
  /\ Goto(c, "lookup")
  /\ UNCHANGED <<github, trail, attempt, outcome, results, answer>>

\* The row or its artifacts cannot be read.
LookupFails(c) ==
  /\ pc[c] = "lookup"
  /\ Abort(c, Failed)
  /\ UNCHANGED <<github, trail, req, attempt, outcome, results, known>>

\* A recorded success is replayed; under a header key only for the same body.
Replay(c) ==
  /\ pc[c] = "lookup"
  /\ \E e \in Recorded(c) :
       /\ req[c].header # NoHeader => e.request = Sent(req[c], ItemAt(c))
       /\ Settle(c, [replayed |-> TRUE, failed |-> FALSE,
                     made |-> Decoded(e.tool, e.response)])
  /\ UNCHANGED <<github, trail, req, known>>

\* IdempotencyConflictError, HTTP 409.
RefuseReuse(c) ==
  /\ pc[c] = "lookup"
  /\ req[c].header # NoHeader
  /\ \E e \in Recorded(c) : e.request # Sent(req[c], ItemAt(c))
  /\ Abort(c, Conflict)
  /\ UNCHANGED <<github, trail, req, attempt, outcome, results, known>>

\* No success is recorded under the key; a dry run skips GitHub.
Miss(c) ==
  /\ pc[c] = "lookup"
  /\ Recorded(c) = {}
  /\ Goto(c, IF req[c].dry THEN "record" ELSE "call")
  /\ UNCHANGED <<github, trail, req, attempt, outcome, results, answer, known>>

\* GitHub answers 201 and the answer is decoded.
Perform(c) ==
  /\ pc[c] = "call"
  /\ github' = github \cup {EffectAt(c)}
  /\ outcome' = [outcome EXCEPT ![c] = EffectAt(c)]
  /\ Goto(c, "record")
  /\ UNCHANGED <<trail, req, attempt, results, answer, known>>

\* Mutant of Attempts: one too many.
AttemptsAndOne(tool) == IF tool = Comment THEN 1 ELSE MaxAttempts + 1

\* CreatePRComment does not retry.
Attempts(tool) == IF tool = Comment THEN 1 ELSE MaxAttempts

\* Mutant of PerformFails: an error status is taken for the issue made.
PerformFailsUnchecked(c) ==
  /\ pc[c] = "call"
  /\ outcome' = [outcome EXCEPT ![c] = EffectAt(c)]
  /\ Goto(c, "record")
  /\ UNCHANGED <<github, attempt, trail, req, results, answer, known>>

\* The handler gets no usable answer (refused, connection lost, 429 or 5xx, an
\* undecodable 201, context cancelled), whether or not GitHub acted.  CreateIssue
\* may try again; an undecodable 201 and a cancelled context end it at once.
PerformFails(c) ==
  /\ pc[c] = "call"
  /\ github' \in {github, github \cup {EffectAt(c)}}
  /\ \/ /\ attempt[c] < Attempts(req[c].tool)
        /\ attempt' = [attempt EXCEPT ![c] = @ + 1]
        /\ UNCHANGED <<pc, outcome>>
     \/ /\ outcome' = [outcome EXCEPT ![c] = GitHubError]
        /\ Goto(c, "record")
        /\ UNCHANGED attempt
  /\ UNCHANGED <<trail, req, results, answer, known>>

Made(c) == IF outcome[c] = GitHubError THEN Nothing ELSE outcome[c]

NewEntry(c) ==
  [id |-> <<c, ItemAt(c)>>, run |-> req[c].run, tool |-> req[c].tool, key |-> KeyAt(c),
   status |-> IF outcome[c] = GitHubError THEN "fail" ELSE "ok",
   request |-> Sent(req[c], ItemAt(c)), response |-> Stored(req[c], Made(c))]

\* audit.Record returns the row.
Record(c) ==
  /\ pc[c] = "record"
  /\ returned' = returned \cup {NewEntry(c)} /\ Ledger!Commit(NewEntry(c))
  /\ Settle(c, [replayed |-> FALSE, failed |-> outcome[c] = GitHubError, made |-> Made(c)])
  /\ UNCHANGED <<github, req, known>>

\* Mutants of RecordFails: the error is only logged; the call starts over.
RecordFailsIgnored(c) ==
  /\ pc[c] = "record"
  /\ Settle(c, [replayed |-> FALSE, failed |-> outcome[c] = GitHubError, made |-> Made(c)])
  /\ UNCHANGED <<github, trail, req, known>>
RecordFailsRetries(c) ==
  /\ pc[c] = "record"
  /\ Goto(c, "lookup")
  /\ UNCHANGED <<github, trail, req, attempt, outcome, results, answer, known>>

\* audit.Record returns an error, with or without the row: the whole call fails.
RecordFails(c) ==
  /\ pc[c] = "record"
  /\ \/ UNCHANGED trail
     \/ UNCHANGED returned /\ Ledger!Commit(NewEntry(c))
  /\ Abort(c, Failed)
  /\ UNCHANGED <<github, req, attempt, outcome, results, known>>

\* The process stops; GitHub may have acted on the requests under way.  The next
\* one may be configured with another batch mode.
Crash ==
  /\ \E c \in Calls : pc[c] \in {"lookup", "call", "record"}
  /\ github' \in {github \cup {EffectAt(c) : c \in S} :
                    S \in SUBSET {c \in Calls : pc[c] = "call"}}
  /\ pc' = [c \in Calls |-> IF pc[c] \in {"lookup", "call", "record"} THEN "gone" ELSE pc[c]]
  /\ mode' \in BatchModes
  /\ UNCHANGED <<trail, req, attempt, outcome, results, answer, known>>

\* Everything a handler does with a call it has taken on.
Step(c) ==
  \/ LookupFails(c) \/ Replay(c) \/ RefuseReuse(c) \/ Miss(c)
  \/ Perform(c) \/ PerformFails(c)
  \/ Record(c) \/ RecordFails(c)

Next ==
  \/ /\ \E c \in Calls :
          \/ \E r \in Requests : Refuse(c, r) \/ Arrive(c, r)
          \/ Step(c)
     /\ UNCHANGED mode
  \/ Crash

Spec == Init /\ [][Next]_vars

\* A handler goroutine keeps running; GitHub answers or the client's 30 s
\* timeout fires, and so does every query.
FairSpec == Spec /\ \A c \in Calls : WF_vars(Step(c) /\ UNCHANGED mode)

------------------------------------------------------------------------------
(* Properties. *)

Replied(c) == answer[c] \notin {Unanswered, Refused, Conflict, Failed}
ItemsOf(c) == 1..Len(results[c])
SameKey(c, i, d, j) ==
  /\ req[c].run = req[d].run /\ req[c].tool = req[d].tool
  /\ Key(req[c], i) = Key(req[d], j)

\* A client is told that an item succeeded only if the trail holds a success
\* under its key, and for a fresh item one of this very call that names what it
\* is told of; a failed item has its failed row (http/server.go:1348-1407).
SuccessIsRecorded ==
  \A c \in Calls : Replied(c) =>
    \A i \in ItemsOf(c) :
      LET res == results[c][i]
          own == {e \in ledger : e.id = <<c, i>>}
      IN IF res.failed THEN \E e \in own : e.status = "fail"
         ELSE IF res.replayed THEN Successes(req[c].run, req[c].tool, Key(req[c], i)) # {}
         ELSE \E e \in own : e.status = "ok" /\ e.response.made = res.made

\* However many calls race under a key, no two clients are told of different
\* issues or comments: whoever loses the race to the unique index gets an error
\* (http/server.go:1312-1370, 001_init.sql:34).
OneAnswerPerKey ==
  \A c, d \in Calls : Replied(c) /\ Replied(d) =>
    \A i \in ItemsOf(c), j \in ItemsOf(d) :
      SameKey(c, i, d, j) /\ {results[c][i].made, results[d][j].made} \subseteq github =>
        results[c][i].made = results[d][j].made

\* What a client is told of exists, and was made for a call of the same run and tool
\* under the same key, on whichever transport: under a computed key for an item with
\* the same content (labels in any order) and pull request, under a header key for the
\* same body.  That body leaves the pull request of a comment out, so that a header key
\* used again for another one is told of the first one's comment: the request check
\* stops short of "a different payload is a conflict" there (issue.go:54-77,
\* audit.go:146-192, http/server.go:1652; docs/C4_BATCH_IDEMPOTENCY.md:29).
AnswerFitsRequest ==
  \A c \in Calls : \A i \in ItemsOf(c) : results[c][i].made \in Effects =>
    LET x == results[c][i].made
        mine == req[c].items[i]
        theirs == req[x[1]].items[x[2]]
    IN /\ x \in github
       /\ SameKey(c, i, x[1], x[2])
       /\ req[c].header = NoHeader =>
            Canon[theirs.text] = Canon[mine.text] /\ theirs.pr = mine.pr
       /\ req[c].header # NoHeader => Sent(req[x[1]], x[2]) = Sent(req[c], i)

\* A call that arrives after a success under its key was recorded never makes
\* GitHub act again for that item: retries after an answer, after a crash, with
\* labels reordered, over the other transport, or of a batch that stopped half
\* way (http/server.go:1484-1522, mcp/server.go:608-637).
NoRepeatAfterRecord ==
  [][\A x \in github' \ github : Key(req[x[1]], x[2]) \notin known[x[1]]]_vars

\* A batch answer agrees with what the batch did: created_fresh counts the rows
\* the call recorded and errors the failed ones; in strict mode nothing is
\* attempted past the first failure, in partial mode nothing is skipped
\* (http/server.go:1484-1597).
BatchAccounted ==
  \A c \in Calls : Replied(c) =>
    LET a == answer[c]
        rows == {e \in ledger : e.id[1] = c}
    IN /\ a.created = Cardinality(rows)
       /\ a.errors = Cardinality({e \in rows : e.status = "fail"})
       /\ \A x \in github : x[1] = c => x[2] <= Len(a.results)
       /\ a.mode = "strict" =>
            \A i \in ItemsOf(c) : results[c][i].failed => i = Len(a.results)
       /\ Len(a.results) < Len(req[c].items) =>
            a.mode = "strict" /\ results[c][Len(a.results)].failed

\* Every call that was taken on is answered, unless the process stops.
CallsEnd == \A c \in Calls : pc[c] = "lookup" ~> pc[c] \in {"done", "gone"}

------------------------------------------------------------------------------
(* What the repository's documents say, and the code does not do. *)

\* docs/C4_BATCH_IDEMPOTENCY.md:22 "Existing successful entries (`status='ok'`)
\* are replayed.": the client gets the issue that was recorded.
ReplayTellsIssue ==
  \A c \in Calls : Replied(c) =>
    \A i \in ItemsOf(c) : results[c][i].replayed =>
      \A e \in Successes(req[c].run, req[c].tool, Key(req[c], i)) :
        e.response.made # Nothing => results[c][i].made = e.response.made
==============================================================================
