------------------------------ MODULE CodeWrites ------------------------------
(***************************************************************************)
(* The tools that write code: code.branch_pr.create and code.repair_loop   *)
(* (internal/http/server.go, mcp/server.go) over codeops.Runner, which     *)
(* runs git in one working tree that every call of both transports shares  *)
(* and nothing locks.  A call needs an approval of scope code_write; the   *)
(* repair loop runs the QA commands after its commit and rolls the branch  *)
(* back when they keep failing; a pull request ends both.                  *)
(*                                                                         *)
(* Content is a set of changes: which file of which call.  Each call       *)
(* changes files of its own, which git carries across a checkout until     *)
(* they are committed.  Any git command and any write may fail, or be      *)
(* killed with its context after it took effect.                           *)
(***************************************************************************)
EXTENDS Naturals, FiniteSets

CONSTANTS Calls, Requests, Runs, Branches,
          Trunk,                \* the one branch there is at the start
          Ids, ApprovalOf,      \* approvals, and the run and scope of each
          RepairMaxIterations,  \* the limit the process was started with
          MaxFiles,             \* bound on the files of a request
          NoRequest, NoBranch

BranchPR   == "code.branch_pr.create"
RepairLoop == "code.repair_loop"

\* files: how many there are, and paths what CheckPaths says of them; iterations 0
\* asks for the default.
Request == [tool : {BranchPR, RepairLoop}, run : Runs, approval : Ids,
            base : Branches, head : Branches, dry : BOOLEAN,
            files : 1..MaxFiles, paths : {"free", "forbidden"}, iterations : Nat]

Changes == Calls \X (1..MaxFiles)
Content == SUBSET Changes

ASSUME RequestsAssumption == Requests \subseteq Request
ASSUME ConfigAssumption ==
  /\ Trunk \in Branches /\ NoRequest \notin Requests
  /\ \A content \in Content : content # NoBranch
  /\ ApprovalOf \in [Ids -> [run : Runs, scope : {"code_write", "path_change"}]]
  /\ RepairMaxIterations \in Nat \ {0} /\ MaxFiles \in Nat

VARIABLES
  status,                       \* of each approval (see Approvals)
  head, staged, unadded,        \* the working tree: HEAD, index, files not added yet
  local, remote,                \* branches, there and at origin
  prs,                          \* pull requests on GitHub
  pc, req, file, failed,        \* control, argument, files written, runErr
  iteration, rollback, commitHash,
  step,                         \* the steps row of a repair loop
  recorded, answer,
  approved, alone, tested       \* history, see below

git == <<head, staged, unadded, local, remote>>
call == <<pc, req, file, failed, iteration, rollback, commitHash, step, recorded, answer>>
history == <<approved, alone, tested>>
vars == <<status, git, prs, call, history>>

PullRequest == [call : Calls, head : Branches, base : Branches, content : Content]

TypeOK ==
  /\ status \in [Ids -> {"requested", "approved", "rejected"}]
  /\ head \in Branches /\ staged \in Content /\ unadded \in Content
  /\ local \in [Branches -> Content \cup {NoBranch}]
  /\ remote \in [Branches -> Content \cup {NoBranch}]
  /\ prs \subseteq PullRequest
  /\ pc \in [Calls -> {"new", "base", "branch", "write", "add", "commit", "push", "hash",
                       "qa", "rbase", "rdelete", "rpush", "pr", "record", "close", "answer",
                       "done", "gone"}]
  /\ req \in [Calls -> Requests \cup {NoRequest}]
  /\ file \in [Calls -> 0..MaxFiles]
  /\ failed \in [Calls -> BOOLEAN]
  /\ iteration \in [Calls -> 0..RepairMaxIterations]
  /\ rollback \in [Calls -> {"none", "clean", "error"}]
  /\ commitHash \in [Calls -> Content \cup {NoBranch}]
  /\ step \in [Calls -> {"none", "running", "completed", "failed"}]
  /\ recorded \in [Calls -> {"none", "ok", "fail"}]
  /\ answer \in [Calls -> {"none", "ok", "error", "refused", "unstarted", "audit_error"}]
  /\ approved \subseteq Ids
  /\ alone \in [Calls -> Content \cup {NoBranch}]
  /\ tested \in [Calls -> Content \cup {NoBranch}]

Init ==
  /\ status = [i \in Ids |-> "requested"]
  /\ head = Trunk /\ staged = {} /\ unadded = {}
  /\ local = [b \in Branches |-> IF b = Trunk THEN {} ELSE NoBranch]
  /\ remote = local
  /\ prs = {}
  /\ pc = [c \in Calls |-> "new"]
  /\ req = [c \in Calls |-> NoRequest]
  /\ file = [c \in Calls |-> 0]
  /\ failed = [c \in Calls |-> FALSE]
  /\ iteration = [c \in Calls |-> 0]
  /\ rollback = [c \in Calls |-> "none"]
  /\ commitHash = [c \in Calls |-> NoBranch]
  /\ step = [c \in Calls |-> "none"]
  /\ recorded = [c \in Calls |-> "none"]
  /\ answer = [c \in Calls |-> "none"]
  /\ approved = {}
  /\ alone = [c \in Calls |-> NoBranch]
  /\ tested = [c \in Calls |-> NoBranch]

Goto(c, label) == pc' = [pc EXCEPT ![c] = label]
End(c, what) == Goto(c, "done") /\ answer' = [answer EXCEPT ![c] = what]
Fail(c, label) == Goto(c, label) /\ failed' = [failed EXCEPT ![c] = TRUE]

------------------------------------------------------------------------------
(* The approval gate. *)

\* An approver resolves an approval, again and again if it likes.
Resolve(id, verdict) ==
  /\ verdict # status[id]
  /\ status' = [status EXCEPT ![id] = verdict]
  /\ approved' = IF verdict = "approved" THEN approved \cup {id} ELSE approved
  /\ UNCHANGED <<git, prs, call, alone, tested>>

Iterations(r) == IF r.iterations = 0 THEN RepairMaxIterations ELSE r.iterations

\* Mutant of Admissible: an approval of any run will do.
AdmissibleInAnyRun(r) ==
  /\ r.tool = RepairLoop => Iterations(r) <= RepairMaxIterations
  /\ status[r.approval] = "approved"
  /\ ApprovalOf[r.approval].scope = "code_write"
  /\ r.paths # "forbidden"

Admissible(r) ==
  /\ r.tool = RepairLoop => Iterations(r) <= RepairMaxIterations
  /\ ApprovalOf[r.approval].run = r.run
  /\ status[r.approval] = "approved"
  /\ ApprovalOf[r.approval].scope = "code_write"
  /\ r.paths # "forbidden"

\* The gate lets the call through; a repair loop opens its step.
Admit(c, r) ==
  /\ pc[c] = "new" /\ Admissible(r)
  /\ req' = [req EXCEPT ![c] = r]
  /\ step' = [step EXCEPT ![c] = IF r.tool = RepairLoop THEN "running" ELSE "none"]
  /\ Goto(c, "base")
  /\ UNCHANGED <<status, git, prs, file, failed, iteration, rollback, commitHash, recorded,
                 answer, history>>

Refuse(c, r) ==
  /\ pc[c] = "new" /\ ~ Admissible(r)
  /\ req' = [req EXCEPT ![c] = r]
  /\ End(c, "refused")
  /\ UNCHANGED <<status, git, prs, file, failed, iteration, rollback, commitHash, step,
                 recorded, history>>

\* StartStep reports an error, with or without the row.
StartStepFails(c, r) ==
  /\ pc[c] = "new" /\ Admissible(r) /\ r.tool = RepairLoop
  /\ req' = [req EXCEPT ![c] = r]
  /\ step' \in {step, [step EXCEPT ![c] = "running"]}
  /\ End(c, "unstarted")
  /\ UNCHANGED <<status, git, prs, file, failed, iteration, rollback, commitHash, recorded,
                 history>>

------------------------------------------------------------------------------
(* What the git commands do. *)

\* A branch that is only on the remote is checked out from there.
GitCheckout(b) ==
  /\ {local[b], remote[b]} # {NoBranch}
  /\ local' = [local EXCEPT ![b] = IF @ = NoBranch THEN remote[b] ELSE @]
  /\ head' = b
  /\ UNCHANGED <<staged, unadded, remote>>

GitCheckoutNew(b) ==
  /\ local[b] = NoBranch
  /\ local' = [local EXCEPT ![b] = local[head]]
  /\ head' = b
  /\ UNCHANGED <<staged, unadded, remote>>

\* The file a call has come to is written into the tree, and then added.
WriteFile(c) ==
  /\ unadded' = unadded \cup {<<c, file[c] + 1>>}
  /\ UNCHANGED <<head, staged, local, remote>>

GitAdd(c) ==
  /\ staged' = staged \cup {<<c, file[c]>>}
  /\ unadded' = unadded \ {<<c, file[c]>>}
  /\ UNCHANGED <<head, local, remote>>

GitCommit ==
  /\ ~ staged \subseteq local[head]
  /\ local' = [local EXCEPT ![head] = @ \cup staged]
  /\ staged' = {}
  /\ UNCHANGED <<head, unadded, remote>>

GitPush(b) ==
  /\ local[b] # NoBranch
  /\ remote[b] # NoBranch => remote[b] \subseteq local[b]
  /\ remote' = [remote EXCEPT ![b] = local[b]]
  /\ UNCHANGED <<head, staged, unadded, local>>

GitDelete(b) ==
  /\ local[b] # NoBranch /\ head # b
  /\ local' = [local EXCEPT ![b] = NoBranch]
  /\ UNCHANGED <<head, staged, unadded, remote>>

GitPushDelete(b) ==
  /\ remote[b] # NoBranch
  /\ remote' = [remote EXCEPT ![b] = NoBranch]
  /\ UNCHANGED <<head, staged, unadded, local>>

\* The calls at work in the tree.  History alone: what the base held, here and on the
\* remote, for those that found the tree clean and have had it to themselves since.
InTree == {c \in Calls : pc[c] \in {"branch", "write", "add", "commit", "push", "hash",
                                    "qa", "rbase", "rdelete", "rpush"}}
FoundClean(c) ==
  /\ InTree = {} /\ staged = {} /\ unadded = {}
  /\ local[req[c].base] = remote[req[c].base]
EnterTree(c) ==
  alone' = [d \in Calls |->
             IF d = c /\ FoundClean(c) THEN remote[req[c].base]
             ELSE IF d \in InTree THEN NoBranch ELSE alone[d]]

------------------------------------------------------------------------------
(* Runner.Execute. *)

\* A dry run plans its commands and touches nothing.
Plan(c) ==
  /\ pc[c] = "base" /\ req[c].dry
  /\ Goto(c, "record")
  /\ UNCHANGED <<status, git, prs, req, file, failed, iteration, rollback, commitHash, step,
                 recorded, answer, history>>

\* Mutant of CheckoutBase: branch off whatever is checked out.
CheckoutNothing(c) ==
  /\ pc[c] = "base" /\ ~ req[c].dry
  /\ UNCHANGED git
  /\ EnterTree(c)
  /\ Goto(c, "branch")
  /\ UNCHANGED <<status, prs, req, file, failed, iteration, rollback, commitHash, step,
                 recorded, answer, approved, tested>>

CheckoutBase(c) ==
  /\ pc[c] = "base" /\ ~ req[c].dry
  /\ GitCheckout(req[c].base)
  /\ EnterTree(c)
  /\ Goto(c, "branch")
  /\ UNCHANGED <<status, prs, req, file, failed, iteration, rollback, commitHash, step,
                 recorded, answer, approved, tested>>

\* The command of the step a call is at.
Command(c) ==
  \/ pc[c] = "branch" /\ GitCheckoutNew(req[c].head)
  \/ pc[c] = "write"  /\ WriteFile(c)
  \/ pc[c] = "add"    /\ GitAdd(c)
  \/ pc[c] = "commit" /\ GitCommit
  \/ pc[c] = "push"   /\ GitPush(req[c].head)

\* checkout -b; write and add the files, one after another; commit; push.
After(c) ==
  [branch |-> "write", write |-> "add",
   add |-> IF file[c] < req[c].files THEN "write" ELSE "commit",
   commit |-> "push", push |-> "hash"]
Commands == {"branch", "write", "add", "commit", "push"}

RunCommand(c) ==
  /\ pc[c] \in Commands
  /\ Command(c)
  /\ file' = IF pc[c] = "write" THEN [file EXCEPT ![c] = @ + 1] ELSE file
  /\ Goto(c, After(c)[pc[c]])
  /\ UNCHANGED <<status, prs, req, failed, iteration, rollback, commitHash, step,
                 recorded, answer, history>>

\* rev-parse HEAD answers what is checked out by now.
RevParse(c) ==
  /\ pc[c] = "hash"
  /\ commitHash' = [commitHash EXCEPT ![c] = local[head]]
  /\ Goto(c, IF req[c].tool = RepairLoop THEN "qa" ELSE "pr")
  /\ UNCHANGED <<status, git, prs, req, file, failed, iteration, rollback, step, recorded,
                 answer, history>>

\* Mutant of ExecuteFails: a command that fails has Execute start over.
ExecuteRetries(c) ==
  /\ pc[c] \in {"base", "hash"} \cup Commands
  /\ Goto(c, "base")
  /\ UNCHANGED <<status, git, prs, req, file, failed, iteration, rollback, commitHash, step,
                 recorded, answer, history>>

\* The request is malformed or a command fails; what was done before it stays.
ExecuteFails(c) ==
  /\ pc[c] \in {"base", "hash"} \cup Commands
  /\ \/ UNCHANGED <<git, alone>>
     \/ pc[c] = "base" /\ ~ req[c].dry /\ GitCheckout(req[c].base) /\ EnterTree(c)
     \/ pc[c] \in Commands /\ Command(c) /\ UNCHANGED alone
  /\ Fail(c, "record")
  /\ UNCHANGED <<status, prs, req, file, iteration, rollback, commitHash, step, recorded,
                 answer, approved, tested>>

------------------------------------------------------------------------------
(* The repair loop. *)

\* Test and lint pass on what the tree holds.
QAPasses(c) ==
  /\ pc[c] = "qa"
  /\ iteration' = [iteration EXCEPT ![c] = @ + 1]
  /\ tested' = [tested EXCEPT ![c] = local[head] \cup staged \cup unadded]
  /\ Goto(c, "pr")
  /\ UNCHANGED <<status, git, prs, req, file, failed, rollback, commitHash, step, recorded,
                 answer, approved, alone>>

\* Mutant of QAFails: one iteration too many.
QAFailsOnceMore(c) ==
  /\ pc[c] = "qa"
  /\ iteration' = [iteration EXCEPT ![c] = @ + 1]
  /\ IF iteration[c] + 1 <= Iterations(req[c])
       THEN UNCHANGED <<pc, failed>>
       ELSE Fail(c, "rbase")
  /\ UNCHANGED <<status, git, prs, req, file, rollback, commitHash, step, recorded, answer,
                 history>>

\* One of them fails: again, or roll back.
QAFails(c) ==
  /\ pc[c] = "qa"
  /\ iteration' = [iteration EXCEPT ![c] = @ + 1]
  /\ IF iteration[c] + 1 < Iterations(req[c])
       THEN UNCHANGED <<pc, failed>>
       ELSE Fail(c, "rbase")
  /\ UNCHANGED <<status, git, prs, req, file, rollback, commitHash, step, recorded, answer,
                 history>>

\* RollbackBranch: checkout of the base, or give up.
RollbackCheckout(c) ==
  /\ pc[c] = "rbase"
  /\ \/ /\ GitCheckout(req[c].base)
        /\ rollback' = [rollback EXCEPT ![c] = "clean"]
        /\ Goto(c, "rdelete")
     \/ /\ UNCHANGED git \/ GitCheckout(req[c].base)
        /\ rollback' = [rollback EXCEPT ![c] = "error"]
        /\ Goto(c, "record")
  /\ UNCHANGED <<status, prs, req, file, failed, iteration, commitHash, step, recorded,
                 answer, history>>

\* Mutant of RollbackDelete: its errors are ignored.
RollbackDeleteIgnored(c) ==
  /\ pc[c] \in {"rdelete", "rpush"}
  /\ UNCHANGED <<git, rollback>>
  /\ Goto(c, IF pc[c] = "rdelete" THEN "rpush" ELSE "record")
  /\ UNCHANGED <<status, prs, req, file, failed, iteration, commitHash, step, recorded,
                 answer, history>>

\* branch -D and then push --delete, each tried whatever became of the other.
RollbackDelete(c) ==
  /\ pc[c] \in {"rdelete", "rpush"}
  /\ LET Delete == IF pc[c] = "rdelete" THEN GitDelete(req[c].head)
                                        ELSE GitPushDelete(req[c].head)
     IN \/ Delete /\ UNCHANGED rollback
        \/ /\ UNCHANGED git \/ Delete
           /\ rollback' = [rollback EXCEPT ![c] = "error"]
  /\ Goto(c, IF pc[c] = "rdelete" THEN "rpush" ELSE "record")
  /\ UNCHANGED <<status, prs, req, file, failed, iteration, commitHash, step, recorded,
                 answer, history>>

------------------------------------------------------------------------------
(* Pull request, audit record, answer. *)

\* GitHub opens a pull request when both branches are there and differ.
Opened(c) ==
  LET r == req[c] IN
  /\ NoBranch \notin {remote[r.head], remote[r.base]} /\ remote[r.head] # remote[r.base]
  /\ prs' = prs \cup {[call |-> c, head |-> r.head, base |-> r.base,
                       content |-> remote[r.head]]}

OpenPR(c) ==
  /\ pc[c] = "pr"
  /\ Opened(c)
  /\ Goto(c, "record")
  /\ UNCHANGED <<status, git, req, file, failed, iteration, rollback, commitHash, step,
                 recorded, answer, history>>

\* Mutant of OpenPRFails: the error is only logged.
OpenPRFailsIgnored(c) ==
  /\ pc[c] = "pr"
  /\ Goto(c, "record")
  /\ UNCHANGED <<status, git, prs, req, file, failed, iteration, rollback, commitHash, step,
                 recorded, answer, history>>

OpenPRFails(c) ==
  /\ pc[c] = "pr"
  /\ UNCHANGED prs \/ Opened(c)
  /\ Fail(c, "record")
  /\ UNCHANGED <<status, git, req, file, iteration, rollback, commitHash, step, recorded,
                 answer, history>>

Outcome(c) == [recorded EXCEPT ![c] = IF failed[c] THEN "fail" ELSE "ok"]

\* audit.Record (see AuditTrail); these calls have no idempotency key.
Record(c) ==
  /\ pc[c] = "record"
  /\ recorded' = Outcome(c)
  /\ Goto(c, IF req[c].tool = RepairLoop THEN "close" ELSE "answer")
  /\ UNCHANGED <<status, git, prs, req, file, failed, iteration, rollback, commitHash, step,
                 answer, history>>

\* Mutant of RecordFails: the error is only logged.
RecordFailsIgnored(c) ==
  /\ pc[c] = "record"
  /\ recorded' \in {recorded, Outcome(c)}
  /\ Goto(c, IF req[c].tool = RepairLoop THEN "close" ELSE "answer")
  /\ UNCHANGED <<status, git, prs, req, file, failed, iteration, rollback, commitHash, step,
                 answer, history>>

RecordFails(c) ==
  /\ pc[c] = "record"
  /\ recorded' \in {recorded, Outcome(c)}
  /\ End(c, "audit_error")
  /\ UNCHANGED <<status, git, prs, req, file, failed, iteration, rollback, commitHash, step,
                 history>>

\* The last decision and FinishStep; their errors are logged only.
FinishStep(c) ==
  /\ pc[c] = "close"
  /\ step' \in {step, [step EXCEPT ![c] = IF failed[c] THEN "failed" ELSE "completed"]}
  /\ Goto(c, "answer")
  /\ UNCHANGED <<status, git, prs, req, file, failed, iteration, rollback, commitHash,
                 recorded, answer, history>>

Answer(c) ==
  /\ pc[c] = "answer"
  /\ End(c, IF failed[c] THEN "error" ELSE "ok")
  /\ UNCHANGED <<status, git, prs, req, file, failed, iteration, rollback, commitHash, step,
                 recorded, history>>

\* The process stops; the tree stays as it is.
Crash ==
  /\ \E c \in Calls : pc[c] \notin {"new", "done", "gone"}
  /\ pc' = [c \in Calls |-> IF pc[c] \in {"new", "done"} THEN pc[c] ELSE "gone"]
  /\ UNCHANGED <<status, git, prs, req, file, failed, iteration, rollback, commitHash, step,
                 recorded, answer, history>>

Step(c) ==
  \/ Plan(c) \/ CheckoutBase(c) \/ RunCommand(c) \/ RevParse(c) \/ ExecuteFails(c)
  \/ QAPasses(c) \/ QAFails(c) \/ RollbackCheckout(c) \/ RollbackDelete(c)
  \/ OpenPR(c) \/ OpenPRFails(c) \/ Record(c) \/ RecordFails(c)
  \/ FinishStep(c) \/ Answer(c)

Next ==
  \/ \E id \in Ids, verdict \in {"approved", "rejected"} : Resolve(id, verdict)
  \/ \E c \in Calls :
       \/ \E r \in Requests : Admit(c, r) \/ Refuse(c, r) \/ StartStepFails(c, r)
       \/ Step(c)
  \/ Crash

Spec == Init /\ [][Next]_vars

\* A handler goroutine keeps running: git and QA commands and the calls to GitHub
\* and the database end, with an error if need be.
FairSpec == Spec /\ \A c \in Calls : WF_vars(Step(c))

------------------------------------------------------------------------------
(* Properties. *)

Of(content) == IF content = NoBranch THEN {} ELSE content

\* The changes there are anywhere: in the tree, on a branch, in a pull request.
InUse == staged \cup unadded \cup (UNION {Of(local[b]) \cup Of(remote[b]) : b \in Branches})
                \cup (UNION {p.content : p \in prs})

\* No code enters the tree, a branch or a pull request, not even by way of another
\* call's commit, but from a call that is no dry run, keeps to the path policy and
\* named an approval of its run and of scope code_write that had been approved
\* (http/server.go:646-678, codeops/runner.go:99-120).
NoUnapprovedCode ==
  \A x \in InUse : LET r == req[x[1]] IN
    /\ ~ r.dry /\ r.paths # "forbidden"
    /\ ApprovalOf[r.approval] = [run |-> r.run, scope |-> "code_write"]
    /\ r.approval \in approved

\* The commands of c went through up to the commit hash and, of a repair loop, QA
\* passed within its iterations, so that it was not rolled back.
WentThrough(c) ==
  /\ ~ req[c].dry /\ commitHash[c] # NoBranch
  /\ req[c].tool = RepairLoop => /\ tested[c] # NoBranch /\ rollback[c] = "none"
                                /\ iteration[c] \in 1..Iterations(req[c])

\* A pull request is opened only by a call whose own commands went through and, of a
\* repair loop, that had QA pass within its iterations and does not roll back; what is
\* answered ok is recorded ok and has such a pull request from its head to its base,
\* or was a dry run and left no change anywhere.  QA passes on whatever the shared tree
\* holds at the time, and a commit takes whatever is staged: that both were of the
\* pull request is AloneIsExact, of a call left alone (http/server.go:868-996).
SuccessIsWhole ==
  /\ \A p \in prs : WentThrough(p.call)
  /\ \A c \in Calls : answer[c] = "ok" =>
       /\ recorded[c] = "ok"
       /\ req[c].dry => \A x \in InUse : x[1] # c
       /\ ~ req[c].dry =>
            \E p \in prs : p.call = c /\ p.head = req[c].head /\ p.base = req[c].base

\* A closed step says what was recorded, and nobody is told otherwise; one that says
\* completed has a pull request for its branch, or was a dry run; and the step of a
\* call that could not be recorded is never closed.  A stop between FinishStep and the
\* answer leaves a closed step that nobody was told of (http/server.go:961-995).
StepIsHonest ==
  \A c \in Calls : step[c] \in {"completed", "failed"} =>
    LET done == step[c] = "completed" IN
    /\ recorded[c] = (IF done THEN "ok" ELSE "fail")
    /\ answer[c] \in {"none", IF done THEN "ok" ELSE "error"}
    /\ done /\ ~ req[c].dry => \E p \in prs : p.call = c /\ p.head = req[c].head

\* A call that found the tree clean and had it to itself opens a pull request with all
\* its own changes on top of the base it found, and nothing else, whatever others do
\* to both branches once it has left the tree; it reports that very commit and had
\* QA run on it (codeops/runner.go:99-135).
Own(c) == {c} \X (1..req[c].files)
AloneIsExact ==
  \A p \in prs : alone[p.call] # NoBranch =>
    /\ p.content = Own(p.call) \cup alone[p.call]
    /\ commitHash[p.call] = p.content
    /\ req[p.call].tool = RepairLoop => tested[p.call] = p.content

\* A head branch on the remote has an owner: a call, no dry run, that was let through
\* for it and has not reported it rolled back; a rollback that reports no error took
\* the branch away, whoever else was at work (codeops/runner.go:138-177).
Admitted(c) == pc[c] # "new" /\ ~ req[c].dry /\ answer[c] \notin {"refused", "unstarted"}
RolledBack(c) == rollback[c] = "clean" /\ pc[c] \in {"record", "close", "answer", "done"}
RemoteHasOwner ==
  \A b \in Branches \ {Trunk} : remote[b] # NoBranch =>
    \E c \in Calls : Admitted(c) /\ req[c].head = b /\ ~ RolledBack(c)

\* Every admitted call ends, the repair loop after its last iteration.
CallsEnd == \A c \in Calls : pc[c] = "base" ~> pc[c] \in {"done", "gone"}

------------------------------------------------------------------------------
(* What the repository's documents say, and the code does not do. *)

\* docs/IMPLEMENTED_FEATURES_STATUS.md:24 "`code.branch_pr.create` implemented with
\* approval-gated branch/commit/push/PR flow.": what a pull request brings was
\* let through under the approval of the call that opened it.
PRCarriesApproved ==
  \A p \in prs : \A x \in p.content : req[x[1]].approval = req[p.call].approval
==============================================================================
