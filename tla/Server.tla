-------------------------------- MODULE Server --------------------------------
(***************************************************************************)
(* A toolhub process from its start to its exit (cmd/toolhub/main.go,      *)
(* db/migrate.go), and the tools that change nothing outside: qa.test and  *)
(* qa.lint (qa/runner.go, sandbox_runner.go), github.pr.get,               *)
(* github.pr.files.list and code.patch.generate, through HTTP and MCP.     *)
(* Several processes may share one database.                               *)
(*                                                                         *)
(* A QA command is a leader, which exec.Cmd starts, kills and waits for,   *)
(* and what the leader started.  That may outlive it: while it holds the   *)
(* output pipes exec.Cmd.Wait waits for it too, and when it lets go of     *)
(* them and runs on nobody does.  A sandboxed command is the docker        *)
(* client, whose container may outlive a client that ended badly.          *)
(***************************************************************************)
EXTENDS Integers, Sequences, FiniteSets

CONSTANTS Processes, NoProcess,
          Callers,          \* each makes one call
          Tools, QATools,   \* QATools: qa.test and qa.lint
          AllowedTools,     \* the tool allowlist
          NoRequest,
          Scenarios,        \* the calls made and the processes started
          Backends,         \* QA_BACKEND: "local" or "sandbox"
          MaxConcurrency,   \* QA_MAX_CONCURRENCY (default 2)
          LastVersion       \* migrations 1..LastVersion, in the order of their names

Request == [door : {"http", "mcp"}, tool : Tools, dry : BOOLEAN]

ASSUME ServerAssumption ==
  /\ Scenarios \subseteq [calls : [Callers -> Request \cup {NoRequest}],
                          processes : SUBSET Processes]
  /\ NoProcess \notin Processes /\ NoRequest \notin Request
  /\ IsFiniteSet(Callers)
  /\ QATools \subseteq Tools /\ {"files_list", "patch"} \subseteq Tools \ QATools
  /\ Backends \subseteq {"local", "sandbox"}
  /\ MaxConcurrency \in Nat \ {0} /\ LastVersion \in Nat

VARIABLES
  fleet, backend,  \* the processes there are, and their QA_BACKEND
  phase,    \* where main stands
  next,     \* the migration a starting process has come to
  applied,  \* the migrations committed, in that order (schema_migrations)
  sem,      \* Runner.semaphore of each process
  req,      \* per caller: its request
  host, pc, \* the process that serves it, and where its handler stands
  ctx,      \* the request's context
  expired,  \* execCtx.Err() of its command
  cmd,      \* its command: the "leader" runs; the "rest" it started runs and holds
            \* the pipes; an "orphan" runs and nothing waits for it
  exit,     \* how the leader ended
  outcome,  \* what the handler came to know
  trail,    \* the tool_calls rows of these calls
  answer    \* what the handler answered

process == <<phase, next, applied, sem>>
command == <<expired, cmd, exit>>
vars == <<fleet, backend, process, req, host, pc, ctx, command, outcome, trail, answer>>

Verdicts == {"pass", "fail", "timeout", "error", "dry_run"}
Phases == {"down", "check", "apply", "up", "draining", "overdue", "stopped"}

TypeOK ==
  /\ fleet \subseteq Processes /\ backend \in Backends
  /\ phase \in [Processes -> Phases]
  /\ next \in [Processes -> 1..LastVersion + 1]
  /\ applied \in Seq(1..LastVersion)
  /\ sem \in [Processes -> 0..MaxConcurrency]
  /\ req \in [Callers -> Request \cup {NoRequest}]
  /\ host \in [Callers -> Processes \cup {NoProcess}]
  /\ pc \in [Callers -> {"new", "check", "wait", "exec", "read", "record", "done", "gone"}]
  /\ ctx \in [Callers -> {"live", "cancelled"}]
  /\ expired \in [Callers -> {"none", "canceled", "deadline"}]
  /\ cmd \in [Callers -> {"none", "leader", "rest", "orphan", "ended"}]
  /\ exit \in [Callers -> {"none", "unstarted", "zero", "nonzero", "killed", "spared"}]
  /\ outcome \in [Callers -> Verdicts \cup {"none", "ok", "failed", "early"}]
  /\ trail \subseteq [call : Callers, status : {"ok", "fail"}]
  /\ answer \in [Callers -> Verdicts \cup {"none", "ok", "failed", "early", "refused", "unrecorded"}]

Init ==
  /\ \E s \in Scenarios : req = s.calls /\ fleet = s.processes
  /\ backend \in Backends
  /\ phase = [p \in Processes |-> "down"]
  /\ next = [p \in Processes |-> 1]
  /\ applied = <<>>
  /\ sem = [p \in Processes |-> 0]
  /\ host = [c \in Callers |-> NoProcess]
  /\ pc = [c \in Callers |-> "new"]
  /\ ctx = [c \in Callers |-> "live"]
  /\ expired = [c \in Callers |-> "none"]
  /\ cmd = [c \in Callers |-> "none"]
  /\ exit = [c \in Callers |-> "none"]
  /\ outcome = [c \in Callers |-> "none"]
  /\ trail = {}
  /\ answer = [c \in Callers |-> "none"]

------------------------------------------------------------------------------
(* A process: start, migrations, shutdown, crash. *)

InProgress(c) == pc[c] \notin {"new", "done", "gone"}

Boot(p) ==
  /\ phase[p] \in {"down", "stopped"}
  /\ phase' = [phase EXCEPT ![p] = "check"]
  /\ next' = [next EXCEPT ![p] = 1]
  /\ UNCHANGED <<applied, sem, host, pc, ctx, command, outcome, trail, answer>>

IsApplied(v) == \E i \in 1..Len(applied) : applied[i] = v

\* SELECT EXISTS: skip the version, apply it, or begin to serve after the last.
CheckVersion(p) ==
  /\ phase[p] = "check"
  /\ \/ /\ next[p] > LastVersion
        /\ phase' = [phase EXCEPT ![p] = "up"]
        /\ UNCHANGED next
     \/ /\ next[p] <= LastVersion /\ IsApplied(next[p])
        /\ next' = [next EXCEPT ![p] = @ + 1]
        /\ UNCHANGED phase
     \/ /\ next[p] <= LastVersion /\ ~ IsApplied(next[p])
        /\ phase' = [phase EXCEPT ![p] = "apply"]
        /\ UNCHANGED next
  /\ UNCHANGED <<applied, sem, host, pc, ctx, command, outcome, trail, answer>>

\* Mutant of Recordable: schema_migrations without its primary key.
RecordableAlways(v) == TRUE

\* The primary key of schema_migrations.
Recordable(v) == ~ IsApplied(v)

\* One transaction: the migration and its row.
ApplyVersion(p) ==
  /\ phase[p] = "apply" /\ Recordable(next[p])
  /\ applied' = Append(applied, next[p])
  /\ next' = [next EXCEPT ![p] = @ + 1]
  /\ phase' = [phase EXCEPT ![p] = "check"]
  /\ UNCHANGED <<sem, host, pc, ctx, command, outcome, trail, answer>>

\* New fails: another process was first, the 5 s are over or the connection is
\* lost, perhaps after the commit.  The process exits.
BootFails(p) ==
  /\ phase[p] \in {"check", "apply"}
  /\ \/ UNCHANGED applied
     \/ /\ phase[p] = "apply" /\ Recordable(next[p])
        /\ applied' = Append(applied, next[p])
  /\ phase' = [phase EXCEPT ![p] = "down"]
  /\ UNCHANGED <<next, sem, host, pc, ctx, command, outcome, trail, answer>>

\* SIGTERM, SIGINT, or one of the servers cannot listen: http.Server.Shutdown
\* refuses new HTTP calls and waits for those at work; MCP still accepts.
Shutdown(p) ==
  /\ phase[p] = "up"
  /\ phase' = [phase EXCEPT ![p] = "draining"]
  /\ UNCHANGED <<next, applied, sem, host, pc, ctx, command, outcome, trail, answer>>

\* The 15 s of main are over.
GraceEnds(p) ==
  /\ phase[p] = "draining"
  /\ phase' = [phase EXCEPT ![p] = "overdue"]
  /\ UNCHANGED <<next, applied, sem, host, pc, ctx, command, outcome, trail, answer>>

\* The process is gone and its calls with it; their commands run on.
Die(p) ==
  /\ sem' = [sem EXCEPT ![p] = 0]
  /\ pc' = [c \in Callers |-> IF host[c] = p /\ InProgress(c) THEN "gone" ELSE pc[c]]
  /\ cmd' = [c \in Callers |-> IF host[c] = p /\ cmd[c] \in {"leader", "rest"}
                               THEN "orphan" ELSE cmd[c]]
  /\ UNCHANGED <<next, applied, host, ctx, expired, exit, outcome, trail, answer>>

\* Mutant of Exit: main waits for the calls at work however long they take.
ExitWaits(p) ==
  /\ phase[p] \in {"draining", "overdue"}
  /\ \A c \in Callers : host[c] = p => ~ InProgress(c)
  /\ phase' = [phase EXCEPT ![p] = "stopped"]
  /\ Die(p)

\* Shutdown has returned, the MCP listener is closed and main ends, whatever
\* MCP calls are at work.
Exit(p) ==
  /\ \/ phase[p] = "overdue"
     \/ /\ phase[p] = "draining"
        /\ \A c \in Callers : host[c] = p /\ InProgress(c) => req[c].door = "mcp"
  /\ phase' = [phase EXCEPT ![p] = "stopped"]
  /\ Die(p)

Crash(p) ==
  /\ phase[p] \in {"up", "draining", "overdue"}
  /\ phase' = [phase EXCEPT ![p] = "down"]
  /\ Die(p)

------------------------------------------------------------------------------
(* A handler, up to the point where it acts. *)

Goto(c, label) == pc' = [pc EXCEPT ![c] = label]

\* What the handler learns, and on to Record.
Conclude(c, o) ==
  /\ outcome' = [outcome EXCEPT ![c] = o]
  /\ Goto(c, "record")

Reply(c, a) ==
  /\ answer' = [answer EXCEPT ![c] = a]
  /\ Goto(c, "done")

Accept(c, p) ==
  /\ req[c] # NoRequest /\ pc[c] = "new"
  /\ \/ phase[p] = "up"
     \/ /\ phase[p] \in {"draining", "overdue"}
        /\ req[c].door = "mcp"
  /\ host' = [host EXCEPT ![c] = p]
  /\ Goto(c, "check")
  /\ UNCHANGED <<process, ctx, command, outcome, trail, answer>>

\* No such run, no database, a body or a path that is not accepted, or a tool off
\* the allowlist.
Refuse(c) ==
  /\ pc[c] = "check"
  /\ Reply(c, "refused")
  /\ UNCHANGED <<process, host, ctx, command, outcome, trail>>

\* CheckTool, which the MCP handler of github.pr.files.list does not call.
Admitted(r) ==
  r.tool \in AllowedTools \/ (r.door = "mcp" /\ r.tool = "files_list")

\* A patch is generated from the body alone.
Admit(c) ==
  /\ pc[c] = "check" /\ Admitted(req[c])
  /\ \/ req[c].tool \in QATools /\ Goto(c, "wait") /\ UNCHANGED outcome
     \/ req[c].tool = "patch" /\ Conclude(c, "ok")
     \/ req[c].tool \notin QATools \cup {"patch"} /\ Goto(c, "read") /\ UNCHANGED outcome
  /\ UNCHANGED <<process, host, ctx, command, trail, answer>>

\* GetPullRequest or ListPullRequestFiles returns.
ReadGitHub(c) ==
  /\ pc[c] = "read"
  /\ \/ ctx[c] = "live" /\ Conclude(c, "ok")
     \/ Conclude(c, "failed")
  /\ UNCHANGED <<process, host, ctx, command, trail, answer>>

\* An HTTP client goes away; the context of an MCP call is never cancelled.
HangUp(c) ==
  /\ InProgress(c) /\ req[c].door = "http" /\ ctx[c] = "live"
  /\ ctx' = [ctx EXCEPT ![c] = "cancelled"]
  /\ expired' = [expired EXCEPT ![c] =
                   IF pc[c] = "exec" /\ @ = "none" THEN "canceled" ELSE @]
  /\ UNCHANGED <<process, host, pc, cmd, exit, outcome, trail, answer>>

------------------------------------------------------------------------------
(* Runner.Run *)

\* Mutant of SlotFree: one slot too many.
SlotFreeOneMore(p) == sem[p] <= MaxConcurrency

SlotFree(p) == sem[p] < MaxConcurrency

Acquire(c) ==
  /\ pc[c] = "wait" /\ SlotFree(host[c])
  /\ sem' = [sem EXCEPT ![host[c]] = @ + 1]
  /\ Goto(c, "exec")
  /\ expired' = [expired EXCEPT ![c] = IF ctx[c] = "live" THEN "none" ELSE "canceled"]
  /\ UNCHANGED <<phase, next, applied, host, ctx, cmd, exit, outcome, trail, answer>>

\* qa_concurrency_exceeded: the context ended before a slot came free.
GiveUp(c) ==
  /\ pc[c] = "wait" /\ ctx[c] = "cancelled"
  /\ Conclude(c, "early")
  /\ UNCHANGED <<process, host, ctx, command, trail, answer>>

\* Mutant of Release: the slot of a call whose client hung up is not given back.
ReleaseUnlessCancelled(c) ==
  sem' = IF ctx[c] = "live" THEN [sem EXCEPT ![host[c]] = @ - 1] ELSE sem

\* The deferred receive.
Release(c) == sem' = [sem EXCEPT ![host[c]] = @ - 1]

\* os.Getwd fails; the command lines were accepted when the process started.
NoWorkDir(c) ==
  /\ pc[c] = "exec" /\ cmd[c] = "none"
  /\ Conclude(c, "early")
  /\ Release(c)
  /\ UNCHANGED <<phase, next, applied, host, ctx, command, trail, answer>>

DryRun(c) ==
  /\ pc[c] = "exec" /\ req[c].dry
  /\ Conclude(c, "dry_run")
  /\ Release(c)
  /\ UNCHANGED <<phase, next, applied, host, ctx, command, trail, answer>>

\* cmd.Start; it fails when the context has ended or there is no such program.
Start(c) ==
  /\ pc[c] = "exec" /\ ~ req[c].dry /\ cmd[c] = "none"
  /\ \/ /\ expired[c] = "none"
        /\ cmd' = [cmd EXCEPT ![c] = "leader"]
        /\ UNCHANGED exit
     \/ /\ cmd' = [cmd EXCEPT ![c] = "ended"]
        /\ exit' = [exit EXCEPT ![c] = "unstarted"]
  /\ UNCHANGED <<process, host, pc, ctx, expired, outcome, trail, answer>>

\* QA_TIMEOUT_SECONDS are over.
Expire(c) ==
  /\ pc[c] = "exec" /\ ~ req[c].dry /\ expired[c] = "none"
  /\ expired' = [expired EXCEPT ![c] = "deadline"]
  /\ UNCHANGED <<process, host, pc, ctx, cmd, exit, outcome, trail, answer>>

\* What may be left of a command when its leader ends with this exit.
Left(ended) ==
  IF backend = "local" THEN {"rest", "orphan", "ended"}
  ELSE {"ended"} \cup IF ended \in {"nonzero", "killed"} THEN {"orphan"} ELSE {}

LeaderGone(c, ended) ==
  /\ exit' = [exit EXCEPT ![c] = ended]
  /\ \E left \in Left(ended) : cmd' = [cmd EXCEPT ![c] = left]

\* The context has ended and the leader is killed (SIGKILL, it alone).
Kill(c) ==
  /\ cmd[c] = "leader" /\ pc[c] = "exec" /\ expired[c] # "none"
  /\ LeaderGone(c, "killed")
  /\ UNCHANGED <<process, host, pc, ctx, expired, outcome, trail, answer>>

\* The leader ends by itself.  When the kill comes a moment too late, Wait may
\* return the context's error for a command that exited with 0 ("spared").
LeaderEnds(c) ==
  /\ cmd[c] = "leader" /\ pc[c] = "exec"
  /\ \/ LeaderGone(c, "zero") \/ LeaderGone(c, "nonzero")
     \/ expired[c] # "none" /\ LeaderGone(c, "spared")
  /\ UNCHANGED <<process, host, pc, ctx, expired, outcome, trail, answer>>

\* What the leader started ends, or lets go of the pipes and runs on.
RestEnds(c) ==
  /\ cmd[c] \in {"rest", "orphan"}
  /\ \/ cmd' = [cmd EXCEPT ![c] = "ended"]
     \/ cmd[c] = "rest" /\ cmd' = [cmd EXCEPT ![c] = "orphan"]
  /\ UNCHANGED <<process, host, pc, ctx, expired, exit, outcome, trail, answer>>

\* Mutant of Verdict: the deadline is looked at first.
VerdictDeadlineFirst(c) ==
  CASE expired[c] = "deadline"            -> "timeout"
    [] exit[c] = "zero"                   -> "pass"
    [] exit[c] \in {"nonzero", "killed"}  -> "fail"
    [] OTHER                              -> "error"

\* runLocal and RunCommand, then DeriveStatus: no error is a pass, however late;
\* else the deadline, then the exit status; any other error is an error.
Verdict(c) ==
  CASE exit[c] = "zero"                   -> "pass"
    [] exit[c] # "zero" /\ expired[c] = "deadline" -> "timeout"
    [] expired[c] # "deadline" /\ exit[c] \in {"nonzero", "killed"} -> "fail"
    [] OTHER                              -> "error"

\* Mutant of Waited: Wait does not wait for the pipes (WaitDelay).
WaitedForLeader(c) == cmd[c] \in {"rest", "ended", "orphan"}

\* exec.Cmd.Wait returns: the leader has ended and the pipes are closed.
Waited(c) == cmd[c] \in {"ended", "orphan"}

Return(c) ==
  /\ pc[c] = "exec" /\ ~ req[c].dry /\ Waited(c)
  /\ Conclude(c, Verdict(c))
  /\ Release(c)
  /\ UNCHANGED <<phase, next, applied, host, ctx, command, trail, answer>>

------------------------------------------------------------------------------
(* AuditService.Record and the answer. *)

Row(c) == [call |-> c,
           status |-> IF outcome[c] \in {"ok", "pass", "dry_run"} THEN "ok" ELSE "fail"]

\* Mutant of MayRecord: Record does not look at the tool.
MayRecordAnyTool(c) == ctx[c] = "live"

\* Record checks the tool again, and its statements run under the request's context.
MayRecord(c) == ctx[c] = "live" /\ req[c].tool \in AllowedTools

RecordCall(c) ==
  /\ pc[c] = "record" /\ MayRecord(c)
  /\ trail' = trail \cup {Row(c)}
  /\ Reply(c, outcome[c])
  /\ UNCHANGED <<process, host, ctx, command, outcome>>

\* Mutant of Unrecorded: the failure is logged and the result given out.
UnrecordedIgnored(c) == outcome[c]

\* An early error of Run is answered as it is, and the failed Record only logged.
Unrecorded(c) == IF outcome[c] = "early" THEN "early" ELSE "unrecorded"

\* Record fails, perhaps after its row is there.
RecordFails(c) ==
  /\ pc[c] = "record"
  /\ \/ UNCHANGED trail
     \/ MayRecord(c) /\ trail' = trail \cup {Row(c)}
  /\ Reply(c, Unrecorded(c))
  /\ UNCHANGED <<process, host, ctx, command, outcome>>

------------------------------------------------------------------------------
\* The steps a handler takes by itself.
Handler(c) ==
  \/ Refuse(c) \/ Admit(c) \/ ReadGitHub(c)
  \/ Acquire(c) \/ GiveUp(c) \/ NoWorkDir(c) \/ DryRun(c) \/ Start(c) \/ Return(c)
  \/ RecordCall(c) \/ RecordFails(c)

\* A process and its clients.
ProcessStep(p) ==
  \/ Boot(p) \/ CheckVersion(p) \/ ApplyVersion(p) \/ BootFails(p)
  \/ Shutdown(p) \/ GraceEnds(p) \/ Exit(p) \/ Crash(p)
  \/ \E c \in Callers : Accept(c, p)

CommandStep(c) == Expire(c) \/ Kill(c) \/ LeaderEnds(c) \/ RestEnds(c)

Given == <<fleet, backend, req>>

Next ==
  \/ (\E p \in fleet : ProcessStep(p)) /\ UNCHANGED Given
  \/ (\E c \in Callers : Handler(c) \/ CommandStep(c) \/ HangUp(c)) /\ UNCHANGED Given

\* Handlers run on; timers fire and what they do is done.  Nothing makes a command
\* end, a client stay, or a process start.
Fairness ==
  /\ \A c \in Callers : /\ WF_vars(Handler(c) /\ UNCHANGED Given)
                        /\ WF_vars((Expire(c) \/ Kill(c)) /\ UNCHANGED Given)
  /\ \A p \in Processes : WF_vars((GraceEnds(p) \/ Exit(p)) /\ UNCHANGED Given)

Spec == Init /\ [][Next]_vars /\ Fairness

------------------------------------------------------------------------------
(* Properties. *)

\* The slots bound the commands at work: no more calls than slots are inside Run, and
\* while a command's leader runs, or anything that holds its pipes, its call is one of
\* them.  What else lives has no slot behind it, and comes from a process that is gone,
\* from a docker client that was killed or failed, or from a local leader that has
\* ended (qa/runner.go:208-214, 261-269, sandbox_runner.go:86-93).
CommandsHeld ==
  /\ \A p \in Processes :
       Cardinality({c \in Callers : host[c] = p /\ pc[c] = "exec"}) <= MaxConcurrency
  /\ \A c \in Callers :
       /\ cmd[c] \in {"leader", "rest"} => pc[c] = "exec"
       /\ cmd[c] = "orphan" =>
            \/ pc[c] = "gone"
            \/ exit[c] \in {"nonzero", "killed"}
            \/ backend = "local" /\ exit[c] \in {"zero", "spared"}

\* A verdict is earned: "pass" means that the leader exited with 0 and nothing
\* else does, "timeout" only after the deadline, "fail" never for a command that
\* succeeded (runner.go:86-109, 282-300, sandbox_runner.go:98-111).
VerdictEarned ==
  \A c \in Callers :
    outcome[c] \in Verdicts /\ ~ req[c].dry =>
      /\ outcome[c] = "pass" <=> exit[c] = "zero"
      /\ outcome[c] = "timeout" => expired[c] = "deadline"
      /\ outcome[c] = "fail" => exit[c] \in {"nonzero", "killed"}

\* Whoever is told a result can find it in the trail with that status, although
\* the client may hang up and Record may fail at any moment (server.go:1062-1127).
AnswerIsRecorded ==
  \A c \in Callers :
    answer[c] \in Verdicts \cup {"ok", "failed"} => Row(c) \in trail

\* A tool off the allowlist leaves no row and gives nobody a result, even where
\* its handler acts without asking (mcp/server.go:1370-1401, audit.go:50).
OffListLeavesNothing ==
  \A c \in Callers : req[c] # NoRequest /\ req[c].tool \notin AllowedTools =>
    /\ answer[c] \in {"none", "refused", "unrecorded"}
    /\ \A t \in trail : t.call # c

\* Each migration is committed once and in order, whatever processes start at
\* once and wherever they stop; who serves finds them all (migrate.go:16-75).
SchemaInOrder ==
  /\ \A i \in 1..Len(applied) : applied[i] = i
  /\ \A p \in Processes :
       phase[p] \in {"up", "draining", "overdue"} => Len(applied) = LastVersion

\* A waiting test run gets its slot, its client goes or its process ends, unless what
\* a local command of the same process left behind keeps its pipes open for good: the
\* deadline frees every other slot (qa/runner.go:208-214, 258-269).
SlotComesFree ==
  \A c \in Callers :
    pc[c] = "wait" ~>
      pc[c] # "wait" \/ \E d \in Callers : [](cmd[d] = "rest" /\ host[d] = host[c])

\* A process told to stop stops, whatever its calls do (main.go:189-201,
\* mcp/server.go:110-118).
DrainEnds ==
  \A p \in Processes : phase[p] = "draining" ~> phase[p] \in {"stopped", "down"}
==============================================================================
