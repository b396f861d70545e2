----------------------------- MODULE ServerProofs -----------------------------
(***************************************************************************)
(* Proofs about Server: the migrations (SchemaInv), the calls and their    *)
(* commands (CallInv), and the slots of the QA runner (SlotInv).  Each is  *)
(* an inductive invariant; the last two use the first parts of each other. *)
(***************************************************************************)
EXTENDS Server, TLAPS, FiniteSetTheorems

Serving == {"up", "draining", "overdue"}

\* What a process knows of the migrations: all before the one it has come to are
\* committed, and nobody commits one out of order.
SchemaInv ==
  /\ fleet \subseteq Processes
  /\ phase \in [Processes -> Phases]
  /\ next \in [Processes -> 1..LastVersion + 1]
  /\ applied \in Seq(1..LastVersion) /\ Len(applied) <= LastVersion
  /\ \A i \in 1..Len(applied) : applied[i] = i
  /\ \A p \in Processes :
       /\ phase[p] \in {"check", "apply"} => next[p] <= Len(applied) + 1
       /\ phase[p] = "apply" => next[p] <= LastVersion
       /\ phase[p] \in Serving => Len(applied) = LastVersion

\* What lives of a command when its leader has ended.
OutlivesLeader(c) ==
  \/ exit[c] \in {"nonzero", "killed"}
  \/ backend = "local" /\ exit[c] \in {"zero", "spared"}

\* A call and its command, step by step, so that a command never outlives the
\* place of its call unnoticed, and what is told was found out and written down.
CallFacts(c) ==
  /\ pc[c] \in {"check", "wait", "exec", "read", "record"} => host[c] \in Processes
  /\ pc[c] \in {"new", "check", "wait", "read"} \/ req[c].dry => cmd[c] = "none"
  /\ pc[c] \in {"new", "check", "wait", "exec", "read"} => outcome[c] = "none"
  /\ answer[c] # "none" => pc[c] = "done"
  /\ pc[c] \in {"wait", "exec"} \/ outcome[c] = "early" => req[c].tool \in AllowedTools
  /\ cmd[c] \in {"leader", "rest"} => pc[c] = "exec"
  /\ pc[c] # "gone" /\ cmd[c] \in {"rest", "orphan"} => OutlivesLeader(c)
  /\ outcome[c] \in Verdicts /\ ~ req[c].dry =>
       /\ outcome[c] = "pass" <=> exit[c] = "zero"
       /\ outcome[c] = "timeout" => expired[c] = "deadline"
       /\ outcome[c] = "fail" => exit[c] \in {"nonzero", "killed"}
  /\ answer[c] \in Verdicts \cup {"ok", "failed"} => Row(c) \in trail
  /\ req[c].tool \notin AllowedTools =>
       /\ answer[c] \in {"none", "refused", "unrecorded"}
       /\ \A t \in trail : t.call # c

CallTypes ==
  /\ backend \in Backends /\ req \in [Callers -> Request \cup {NoRequest}]
  /\ host \in [Callers -> Processes \cup {NoProcess}]
  /\ pc \in [Callers -> {"new", "check", "wait", "exec", "read", "record", "done", "gone"}]
  /\ ctx \in [Callers -> {"live", "cancelled"}]
  /\ expired \in [Callers -> {"none", "canceled", "deadline"}]
  /\ cmd \in [Callers -> {"none", "leader", "rest", "orphan", "ended"}]
  /\ exit \in [Callers -> {"none", "unstarted", "zero", "nonzero", "killed", "spared"}]
  /\ outcome \in [Callers -> Verdicts \cup {"none", "ok", "failed", "early"}]
  /\ trail \subseteq [call : Callers, status : {"ok", "fail"}]
  /\ answer \in [Callers -> Verdicts \cup {"none", "ok", "failed", "early", "refused", "unrecorded"}]

CallInv == CallTypes /\ \A c \in Callers : CallFacts(c)

------------------------------------------------------------------------------
(* Migrations. *)

LEMMA SchemaInit == Init => SchemaInv
  BY ServerAssumption DEF Init, SchemaInv, Phases, Serving

\* What a process does to its phase and the migrations (main.go:84-202).
LEMMA SchemaProcess ==
  ASSUME SchemaInv, NEW p \in fleet, ProcessStep(p), UNCHANGED Given
  PROVE  SchemaInv'
  <1> USE ServerAssumption DEF SchemaInv, Phases, Serving
  <1>0. p \in Processes /\ fleet' = fleet
    BY DEF Given
  <1>1. CASE Boot(p)
    BY <1>0, <1>1 DEF Boot
  <1>2. CASE CheckVersion(p)
    <2>1. CASE next[p] > LastVersion
      BY <1>0, <1>2, <2>1 DEF CheckVersion
    <2>2. CASE next[p] <= LastVersion /\ IsApplied(next[p])
      <3>1. next[p] \in 1..Len(applied)
        BY <1>0, <2>2 DEF IsApplied
      <3>2. /\ phase[p] = "check"
            /\ next' = [next EXCEPT ![p] = next[p] + 1]
            /\ UNCHANGED <<phase, applied>>
        BY <1>0, <1>2, <2>2 DEF CheckVersion
      <3> QED BY <1>0, <2>2, <3>1, <3>2
    <2>3. CASE next[p] <= LastVersion /\ ~ IsApplied(next[p])
      BY <1>0, <1>2, <2>3 DEF CheckVersion
    <2> QED BY <1>2, <2>1, <2>2, <2>3 DEF CheckVersion
  <1>3. ASSUME phase[p] = "apply", Recordable(next[p]), applied' = Append(applied, next[p])
        PROVE  /\ next[p] = Len(applied) + 1 /\ Len(applied') = Len(applied) + 1
               /\ applied' \in Seq(1..LastVersion) /\ Len(applied') <= LastVersion
               /\ \A i \in 1..Len(applied') : applied'[i] = i
               /\ \A q \in Processes : phase[q] \notin Serving
    BY <1>0, <1>3 DEF Recordable, IsApplied
  <1>4. CASE ApplyVersion(p)
    BY <1>0, <1>3, <1>4 DEF ApplyVersion
  <1>5. CASE BootFails(p)
    <2>1. CASE UNCHANGED applied
      BY <1>0, <1>5, <2>1 DEF BootFails
    <2>2. CASE phase[p] = "apply" /\ Recordable(next[p]) /\ applied' = Append(applied, next[p])
      BY <1>0, <1>3, <1>5, <2>2 DEF BootFails
    <2> QED BY <1>5, <2>1, <2>2 DEF BootFails
  <1>6. CASE Shutdown(p)
    BY <1>0, <1>6 DEF Shutdown
  <1>7. CASE GraceEnds(p)
    BY <1>0, <1>7 DEF GraceEnds
  <1>8. CASE Exit(p)
    BY <1>0, <1>8 DEF Exit, Die
  <1>9. CASE Crash(p)
    BY <1>0, <1>9 DEF Crash, Die
  <1>10. CASE \E c \in Callers : Accept(c, p)
    BY <1>0, <1>10 DEF Accept, process
  <1> QED BY <1>1, <1>2, <1>4, <1>5, <1>6, <1>7, <1>8, <1>9, <1>10 DEF ProcessStep

\* Calls leave the processes and the schema alone.
LEMMA CallsKeepProcesses ==
  ASSUME NEW c \in Callers, Handler(c) \/ CommandStep(c) \/ HangUp(c)
  PROVE  UNCHANGED <<phase, next, applied>>
  BY DEF Handler, CommandStep, HangUp, process, Refuse, Admit, ReadGitHub, Acquire, GiveUp,
     NoWorkDir, DryRun, Start, Return, RecordCall, RecordFails, Expire, Kill, LeaderEnds, RestEnds

LEMMA SchemaNext == SchemaInv /\ [Next]_vars => SchemaInv'
  <1> SUFFICES ASSUME SchemaInv, [Next]_vars PROVE SchemaInv'
    OBVIOUS
  <1>1. CASE UNCHANGED <<fleet, phase, next, applied>>
    BY <1>1 DEF SchemaInv
  <1>2. CASE \E p \in fleet : ProcessStep(p) /\ UNCHANGED Given
    BY <1>2, SchemaProcess
  <1>3. CASE \E c \in Callers : (Handler(c) \/ CommandStep(c) \/ HangUp(c)) /\ UNCHANGED Given
    BY <1>1, <1>3, CallsKeepProcesses DEF Given
  <1> QED BY <1>1, <1>2, <1>3 DEF Next, vars, process

\* Whatever processes start at once and wherever they stop, each migration is
\* committed once and in order, and who serves finds them all (migrate.go:16-75).
THEOREM SchemaSafe == Spec => []SchemaInOrder
  <1>1. SchemaInv => SchemaInOrder
    BY DEF SchemaInv, SchemaInOrder, Serving
  <1> QED BY <1>1, SchemaInit, SchemaNext, PTL DEF Spec

------------------------------------------------------------------------------
(* Calls. *)

\* A step is of one call when nothing changes that the facts of another are about.
Alone(c) ==
  /\ \A d \in Callers \ {c} :
       UNCHANGED <<host[d], pc[d], expired[d], cmd[d], exit[d], outcome[d], answer[d]>>
  /\ trail \subseteq trail' /\ \A t \in trail' \ trail : t.call = c

LEMMA CallFrame ==
  ASSUME NEW d \in Callers, CallFacts(d), UNCHANGED Given,
         UNCHANGED <<host[d], pc[d], expired[d], cmd[d], exit[d], outcome[d], answer[d]>>,
         trail \subseteq trail', \A t \in trail' \ trail : t.call # d
  PROVE  CallFacts(d)'
  BY DEF CallFacts, OutlivesLeader, Given, Row, Verdicts

LEMMA OneCall ==
  ASSUME CallInv, NEW c \in Callers, UNCHANGED Given, CallTypes', CallFacts(c)', Alone(c)
  PROVE  CallInv'
  <1> SUFFICES ASSUME NEW d \in Callers, d # c PROVE CallFacts(d)'
    BY DEF CallInv
  <1> QED BY CallFrame DEF CallInv, Alone

LEMMA CallInit == Init => CallInv
  BY ServerAssumption DEF Init, CallInv, CallTypes, CallFacts, OutlivesLeader, Verdicts

\* What a process does to the calls: take one on, or take them all down.
LEMMA CallProcess ==
  ASSUME CallInv, fleet \subseteq Processes, NEW p \in fleet, ProcessStep(p), UNCHANGED Given
  PROVE  CallInv'
  <1>1. CASE \E c \in Callers : Accept(c, p)
    <2> PICK c \in Callers : Accept(c, p)
      BY <1>1
    <2>1. CallTypes'
      BY ServerAssumption DEF CallInv, CallTypes, Accept, Goto, Given, command
    <2>2. CallFacts(c)' /\ Alone(c)
      BY DEF CallInv, CallTypes, CallFacts, OutlivesLeader,
         Alone, Accept, Goto, Given, command, Row, Verdicts
    <2> QED BY <2>1, <2>2, OneCall
  <1>2. CASE Die(p)
    <2>1. CallTypes'
      BY <1>2 DEF CallInv, CallTypes, Die, Given
    <2>2. ASSUME NEW c \in Callers PROVE CallFacts(c)'
      BY <1>2, <2>2 DEF CallInv, CallTypes, CallFacts, OutlivesLeader,
         Die, InProgress, Given, Row, Verdicts
    <2> QED BY <2>1, <2>2 DEF CallInv
  <1>3. CASE UNCHANGED <<host, pc, ctx, command, outcome, trail, answer>>
    BY <1>3, CallFrame DEF CallInv, CallTypes, Given, command
  <1> QED
    BY <1>1, <1>2, <1>3 DEF ProcessStep, Boot, CheckVersion, ApplyVersion, BootFails, Shutdown,
       GraceEnds, Exit, Crash

\* Up to the point where a call acts.
LEMMA CallBegins ==
  ASSUME CallInv, NEW c \in Callers, UNCHANGED Given,
         Refuse(c) \/ Admit(c) \/ ReadGitHub(c) \/ HangUp(c)
  PROVE  CallInv'
  <1> USE DEF Goto, Given, command, Verdicts, Row
  <1>1. CASE Refuse(c)
    <2>1. CallTypes' /\ Alone(c)
      BY <1>1 DEF CallInv, CallTypes, Alone, Refuse, Reply
    <2>2. /\ pc[c] = "check" /\ pc'[c] = "done" /\ answer'[c] = "refused"
          /\ UNCHANGED <<host, expired, cmd, exit, outcome, trail, req, backend>>
      BY <1>1 DEF CallInv, CallTypes, Refuse, Reply
    <2>3. CallFacts(c)'
      BY <2>2 DEF CallInv, CallFacts, OutlivesLeader
    <2> QED BY <2>1, <2>3, OneCall
  <1>2. CASE Admit(c)
    <2>1. CallTypes' /\ Alone(c)
      BY <1>2 DEF CallInv, CallTypes, Alone, Admit, Conclude
    <2>2. /\ pc[c] = "check"
          /\ UNCHANGED <<host, expired, cmd, exit, answer, trail, req, backend>>
          /\ \/ pc'[c] = "wait" /\ outcome' = outcome /\ req[c].tool \in AllowedTools
             \/ pc'[c] = "record" /\ outcome'[c] = "ok"
             \/ pc'[c] = "read" /\ outcome' = outcome
      BY <1>2, ServerAssumption DEF CallInv, CallTypes, Admit, Admitted, Conclude
    <2>3. CallFacts(c)'
      BY <2>2 DEF CallInv, CallFacts, OutlivesLeader
    <2> QED BY <2>1, <2>3, OneCall
  <1>3. CASE ReadGitHub(c)
    <2>1. CallTypes' /\ Alone(c)
      BY <1>3 DEF CallInv, CallTypes, Alone, ReadGitHub, Conclude
    <2>2. /\ pc[c] = "read" /\ pc'[c] = "record" /\ outcome'[c] \in {"ok", "failed"}
          /\ UNCHANGED <<host, expired, cmd, exit, answer, trail, req, backend>>
      BY <1>3 DEF CallInv, CallTypes, ReadGitHub, Conclude
    <2>3. CallFacts(c)'
      BY <2>2 DEF CallInv, CallFacts, OutlivesLeader
    <2> QED BY <2>1, <2>3, OneCall
  <1>4. CASE HangUp(c)
    <2>1. CallTypes' /\ Alone(c)
      BY <1>4 DEF CallInv, CallTypes, Alone, HangUp
    <2>2. CallFacts(c)'
      BY <1>4 DEF CallInv, CallTypes, CallFacts, OutlivesLeader, HangUp
    <2> QED BY <2>1, <2>2, OneCall
  <1> QED BY <1>1, <1>2, <1>3, <1>4

\* Inside Runner.Run, from the semaphore to the return.
LEMMA CallRuns ==
  ASSUME CallInv, NEW c \in Callers, UNCHANGED Given,
         Acquire(c) \/ GiveUp(c) \/ NoWorkDir(c) \/ DryRun(c) \/ Start(c) \/ Return(c)
  PROVE  CallInv'
  <1> USE DEF Goto, Conclude, Given, command, Verdicts, Row
  <1>1. CASE Acquire(c)
    <2>1. CallTypes' /\ Alone(c)
      BY <1>1 DEF CallInv, CallTypes, Alone, Acquire
    <2>2. CallFacts(c)'
      BY <1>1 DEF CallInv, CallTypes, CallFacts, OutlivesLeader, Acquire
    <2> QED BY <2>1, <2>2, OneCall
  <1>2. CASE GiveUp(c) \/ NoWorkDir(c) \/ DryRun(c)
    <2>1. CallTypes' /\ Alone(c)
      BY <1>2 DEF CallInv, CallTypes, Alone, GiveUp, NoWorkDir, DryRun
    <2>2. /\ pc[c] \in {"wait", "exec"} /\ cmd[c] = "none" /\ pc'[c] = "record"
          /\ outcome'[c] = "early" \/ (outcome'[c] = "dry_run" /\ req[c].dry)
          /\ UNCHANGED <<host, expired, cmd, exit, answer, trail, req, backend>>
      <3>1. pc[c] \in {"wait", "exec"} /\ cmd[c] = "none"
        BY <1>2 DEF CallInv, CallFacts, GiveUp, NoWorkDir, DryRun
      <3> QED BY <1>2, <3>1 DEF CallInv, CallTypes, GiveUp, NoWorkDir, DryRun
    <2>3. CallFacts(c)'
      BY <2>2 DEF CallInv, CallFacts, OutlivesLeader
    <2> QED BY <2>1, <2>3, OneCall
  <1>3. CASE Start(c)
    <2>1. CallTypes' /\ Alone(c)
      BY <1>3 DEF CallInv, CallTypes, Alone, Start
    <2>2. CallFacts(c)'
      BY <1>3 DEF CallInv, CallTypes, CallFacts, OutlivesLeader, Start
    <2> QED BY <2>1, <2>2, OneCall
  <1>4. CASE Return(c)
    <2>0. Verdict(c) \in Verdicts
      BY DEF Verdict
    <2>1. CallTypes' /\ Alone(c)
      BY <1>4, <2>0 DEF CallInv, CallTypes, Alone, Return
    <2>2. /\ Verdict(c) = "pass" <=> exit[c] = "zero"
          /\ Verdict(c) = "timeout" => expired[c] = "deadline"
          /\ Verdict(c) = "fail" => exit[c] \in {"nonzero", "killed"}
      BY DEF Verdict
    <2>3. /\ pc[c] = "exec" /\ pc'[c] = "record" /\ ~ req[c].dry
          /\ cmd[c] \in {"ended", "orphan"} /\ outcome'[c] = Verdict(c)
          /\ UNCHANGED <<host, expired, cmd, exit, answer, trail, req, backend>>
      BY <1>4 DEF CallInv, CallTypes, Return, Waited
    <2>4. CallFacts(c)'
      BY <2>0, <2>2, <2>3 DEF CallInv, CallFacts, OutlivesLeader
    <2> QED BY <2>1, <2>4, OneCall
  <1> QED BY <1>1, <1>2, <1>3, <1>4

\* The command of a call, and its timer.
LEMMA CallCommand ==
  ASSUME CallInv, NEW c \in Callers, UNCHANGED Given, CommandStep(c)
  PROVE  CallInv'
  <1> USE DEF Given, Verdicts, Row
  <1>1. CallTypes' /\ Alone(c)
    BY DEF CallInv, CallTypes, Alone, CommandStep, Expire, Kill, LeaderEnds, RestEnds,
       LeaderGone, Left
  <1>2. CASE Expire(c)
    BY <1>1, <1>2, OneCall DEF CallInv, CallTypes, CallFacts, OutlivesLeader, Expire
  <1>3. ASSUME NEW e \in {"zero", "nonzero", "killed", "spared"}, LeaderGone(c, e),
               cmd[c] = "leader", pc[c] = "exec", UNCHANGED <<pc, expired>>,
               UNCHANGED <<host, outcome, answer, trail>>
        PROVE  CallFacts(c)'
    <2>1. /\ cmd'[c] \in Left(e) /\ exit'[c] = e
      BY <1>3 DEF LeaderGone, CallInv, CallTypes
    <2>2. cmd'[c] \in {"rest", "orphan", "ended"}
          /\ (cmd'[c] # "ended" => backend = "local" \/ e \in {"nonzero", "killed"})
      BY <2>1 DEF Left
    <2>3. pc'[c] = "exec" /\ outcome'[c] = "none" /\ answer'[c] = "none"
      BY <1>3 DEF CallInv, CallFacts, OutlivesLeader
    <2> QED BY <1>3, <2>1, <2>2, <2>3 DEF CallInv, CallFacts, OutlivesLeader
  <1>4. CASE Kill(c) \/ LeaderEnds(c)
    BY <1>1, <1>3, <1>4, OneCall DEF Kill, LeaderEnds, process
  <1>5. CASE RestEnds(c)
    BY <1>1, <1>5, OneCall DEF CallInv, CallTypes, CallFacts, OutlivesLeader, RestEnds
  <1> QED BY <1>2, <1>4, <1>5 DEF CommandStep

\* Record and the answer.
LEMMA CallRecords ==
  ASSUME CallInv, NEW c \in Callers, UNCHANGED Given, RecordCall(c) \/ RecordFails(c)
  PROVE  CallInv'
  <1> USE DEF Given, Verdicts, Row, Reply, Goto, command, Unrecorded
  <1>1. CallTypes' /\ Alone(c)
    BY DEF CallInv, CallTypes, Alone, RecordCall, RecordFails
  <1>2. CASE RecordCall(c)
    BY <1>1, <1>2, OneCall DEF CallInv, CallTypes, CallFacts, OutlivesLeader,
        RecordCall, MayRecord
  <1>3. CASE RecordFails(c)
    BY <1>1, <1>3, OneCall DEF CallInv, CallTypes, CallFacts, OutlivesLeader,
        RecordFails, MayRecord
  <1> QED BY <1>2, <1>3

LEMMA CallNext == CallInv /\ fleet \subseteq Processes /\ [Next]_vars => CallInv'
  <1> SUFFICES ASSUME CallInv, fleet \subseteq Processes, [Next]_vars PROVE CallInv'
    OBVIOUS
  <1>1. CASE UNCHANGED vars
    BY <1>1, CallFrame DEF CallInv, CallTypes, vars, Given, command
  <1>2. CASE \E p \in fleet : ProcessStep(p) /\ UNCHANGED Given
    BY <1>2, CallProcess
  <1>3. CASE \E c \in Callers : (Handler(c) \/ CommandStep(c) \/ HangUp(c)) /\ UNCHANGED Given
    BY <1>3, CallBegins, CallRuns, CallCommand, CallRecords DEF Handler
  <1> QED BY <1>1, <1>2, <1>3 DEF Next

LEMMA SchemaAndCalls == Spec => [](SchemaInv /\ CallInv)
  <1>1. SchemaInv => fleet \subseteq Processes
    BY DEF SchemaInv
  <1> QED BY <1>1, SchemaInit, SchemaNext, CallInit, CallNext, PTL DEF Spec

\* A verdict is earned: "pass" is told of a command that exited with 0 and of no
\* other, "timeout" only after the deadline (runner.go:86-109, 282-300).
THEOREM VerdictsAreEarned == Spec => []VerdictEarned
  <1>1. CallInv => VerdictEarned
    BY DEF CallInv, CallFacts, VerdictEarned
  <1> QED BY <1>1, SchemaAndCalls, PTL

\* Whoever is told a result can find it in the trail, whichever clients hang up and
\* whichever records fail (server.go:1062-1127).
THEOREM AnswersAreRecorded == Spec => []AnswerIsRecorded
  <1>1. CallInv => AnswerIsRecorded
    BY DEF CallInv, CallFacts, AnswerIsRecorded
  <1> QED BY <1>1, SchemaAndCalls, PTL

\* A tool off the allowlist leaves no row and gives nobody a result
\* (mcp/server.go:1370-1401, audit.go:50).
THEOREM OffListIsRefused == Spec => []OffListLeavesNothing
  <1>1. CallInv => OffListLeavesNothing
    BY DEF CallInv, CallFacts, OffListLeavesNothing
  <1> QED BY <1>1, SchemaAndCalls, PTL

------------------------------------------------------------------------------
(* Slots. *)

Inside(p) == {c \in Callers : host[c] = p /\ pc[c] = "exec"}

\* The semaphore of a process counts the calls inside Run.
SlotInv ==
  /\ sem \in [Processes -> 0..MaxConcurrency]
  /\ \A p \in Processes : sem[p] = Cardinality(Inside(p))

LEMMA SlotsKept ==
  ASSUME SlotInv, UNCHANGED sem,
         \A c \in Callers : pc[c] = "exec" \/ pc'[c] = "exec" => UNCHANGED <<pc[c], host[c]>>
  PROVE  SlotInv'
  <1>1. \A p \in Processes : Inside(p)' = Inside(p)
    BY DEF Inside
  <1> QED BY <1>1 DEF SlotInv

LEMMA InsideFinite ==
  ASSUME NEW p PROVE IsFiniteSet(Inside(p)) /\ Cardinality(Inside(p)) \in Nat
  BY ServerAssumption, FS_Subset, FS_CardinalityType DEF Inside

\* Taking a slot, in Acquire (runner.go:209-210).
LEMMA SlotTaken ==
  ASSUME SlotInv, CallInv, NEW c \in Callers, Acquire(c)
  PROVE  SlotInv'
  <1> PICK p \in Processes : p = host[c]
    BY DEF Acquire, CallInv, CallFacts, OutlivesLeader
  <1>1. c \notin Inside(p)
    BY DEF Acquire, Inside
  <1>2. Inside(p)' = Inside(p) \cup {c}
    BY DEF Acquire, CallInv, CallTypes, Goto, Inside
  <1>3. \A q \in Processes \ {p} : Inside(q)' = Inside(q)
    BY DEF Acquire, CallInv, CallTypes, Goto, Inside
  <1>4. Cardinality(Inside(p)') = Cardinality(Inside(p)) + 1
    BY <1>1, <1>2, InsideFinite, FS_AddElement
  <1>5. sem[p] < MaxConcurrency /\ sem' = [sem EXCEPT ![p] = @ + 1]
    BY DEF Acquire, SlotFree
  <1>6. sem' \in [Processes -> 0..MaxConcurrency]
    BY <1>5, ServerAssumption DEF SlotInv
  <1>7. \A q \in Processes : sem'[q] = Cardinality(Inside(q)')
    BY <1>3, <1>4, <1>5 DEF SlotInv
  <1> QED BY <1>6, <1>7 DEF SlotInv

\* Giving it back, on every way out of Run (runner.go:211).
LEMMA SlotGivenBack ==
  ASSUME SlotInv, CallInv, NEW c \in Callers, pc[c] = "exec", pc' = [pc EXCEPT ![c] = "record"],
         UNCHANGED host, Release(c)
  PROVE  SlotInv'
  <1> PICK p \in Processes : p = host[c]
    BY DEF CallInv, CallFacts, OutlivesLeader
  <1>1. c \in Inside(p)
    BY DEF Inside
  <1>2. Inside(p)' = Inside(p) \ {c}
    BY DEF CallInv, CallTypes, Inside
  <1>3. \A q \in Processes \ {p} : Inside(q)' = Inside(q)
    BY DEF CallInv, CallTypes, Inside
  <1>4. Cardinality(Inside(p)') = Cardinality(Inside(p)) - 1 /\ Cardinality(Inside(p)) > 0
    <2>1. Inside(p) # {}
      BY <1>1
    <2>2. IsFiniteSet(Inside(p)) /\ Cardinality(Inside(p)) \in Nat
      BY InsideFinite
    <2>3. Cardinality(Inside(p)) # 0
      BY <2>1, <2>2, FS_EmptySet
    <2>4. Cardinality(Inside(p) \ {c}) = Cardinality(Inside(p)) - 1
      BY <1>1, <2>2, FS_RemoveElement
    <2> QED BY <1>2, <2>2, <2>3, <2>4
  <1>5. sem' = [sem EXCEPT ![p] = @ - 1]
    BY DEF Release
  <1> QED BY <1>3, <1>4, <1>5, ServerAssumption, InsideFinite DEF SlotInv

\* A process that ends takes its slots with it (main.go:196-202).
LEMMA SlotsGone ==
  ASSUME SlotInv, CallInv, NEW p \in Processes, Die(p)
  PROVE  SlotInv'
  <1>1. Inside(p)' = {}
    BY DEF Die, Inside, InProgress
  <1>2. \A q \in Processes \ {p} : Inside(q)' = Inside(q)
    BY DEF Die, Inside, InProgress
  <1>3. sem' = [sem EXCEPT ![p] = 0]
    BY DEF Die
  <1> QED BY <1>1, <1>2, <1>3, FS_EmptySet, ServerAssumption DEF SlotInv

LEMMA SlotInit == Init => SlotInv
  <1> SUFFICES ASSUME Init PROVE SlotInv
    OBVIOUS
  <1>1. \A p \in Processes : Inside(p) = {}
    BY DEF Init, Inside
  <1>2. \A p \in Processes : sem[p] = 0 /\ Cardinality(Inside(p)) = 0
    BY <1>1, FS_EmptySet DEF Init
  <1>3. sem \in [Processes -> 0..MaxConcurrency]
    BY ServerAssumption DEF Init
  <1> QED BY <1>2, <1>3 DEF SlotInv

LEMMA SlotNext == SlotInv /\ CallInv /\ fleet \subseteq Processes /\ [Next]_vars => SlotInv'
  <1> SUFFICES ASSUME SlotInv, CallInv, fleet \subseteq Processes, [Next]_vars PROVE SlotInv'
    OBVIOUS
  <1>1. CASE UNCHANGED vars
    BY <1>1, SlotsKept DEF vars, process
  <1>2. ASSUME NEW p \in fleet, ProcessStep(p) PROVE SlotInv'
    <2>1. CASE \E c \in Callers : Accept(c, p)
      BY <2>1, SlotsKept DEF Accept, Goto, process, CallInv, CallTypes
    <2>2. CASE Die(p)
      BY <2>2, SlotsGone
    <2>3. CASE UNCHANGED <<sem, host, pc>>
      BY <2>3, SlotsKept
    <2> QED
      BY <1>2, <2>1, <2>2, <2>3 DEF ProcessStep, Boot, CheckVersion, ApplyVersion, BootFails,
         Shutdown, GraceEnds, Exit, Crash
  <1>3. ASSUME NEW c \in Callers, Handler(c) PROVE SlotInv'
    <2>1. CASE Refuse(c) \/ Admit(c) \/ ReadGitHub(c) \/ GiveUp(c) \/ Start(c)
      BY <2>1, SlotsKept DEF Refuse, Admit, ReadGitHub, GiveUp, Start, Reply, Conclude, Goto,
         process, CallInv, CallTypes
    <2>2. CASE RecordCall(c) \/ RecordFails(c)
      BY <2>2, SlotsKept DEF RecordCall, RecordFails, Reply, Goto, process, CallInv, CallTypes
    <2>3. CASE Acquire(c)
      BY <2>3, SlotTaken
    <2>4. CASE NoWorkDir(c) \/ DryRun(c) \/ Return(c)
      BY <2>4, SlotGivenBack DEF NoWorkDir, DryRun, Return, Conclude, Goto
    <2> QED BY <1>3, <2>1, <2>2, <2>3, <2>4 DEF Handler
  <1>4. ASSUME NEW c \in Callers, CommandStep(c) \/ HangUp(c) PROVE SlotInv'
    BY <1>4, SlotsKept DEF CommandStep, Expire, Kill, LeaderEnds, RestEnds, HangUp, process
  <1> QED BY <1>1, <1>2, <1>3, <1>4 DEF Next

LEMMA ServerInvariance == Spec => [](SchemaInv /\ CallInv /\ SlotInv)
  <1>1. SchemaInv => fleet \subseteq Processes
    BY DEF SchemaInv
  <1> QED BY <1>1, SchemaInit, SchemaNext, CallInit, CallNext, SlotInit, SlotNext, PTL DEF Spec

\* The slots bound the commands at work: never more calls than slots are inside Run,
\* and while a command's leader runs, or anything that holds its pipes, its call is one
\* of them; what lives without a slot is left by a process that is gone, a docker
\* client that was killed or failed, or a local leader that has ended
\* (qa/runner.go:208-214, 261-269, sandbox_runner.go:86-93).
THEOREM SlotsBoundCommands == Spec => []CommandsHeld
  <1>1. SlotInv /\ CallInv => CommandsHeld
    BY ServerAssumption
    DEF SlotInv, CallInv, CallFacts, OutlivesLeader, Inside, CommandsHeld
  <1> QED BY <1>1, ServerInvariance, PTL

\* The types of the variables, the range of the semaphore among them.
THEOREM ServerTypes == Spec => []TypeOK
  <1>1. SchemaInv /\ CallInv /\ SlotInv => TypeOK
    BY DEF SchemaInv, CallInv, CallTypes, SlotInv, TypeOK
  <1> QED BY <1>1, ServerInvariance, PTL
==============================================================================
