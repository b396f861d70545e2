------------------------------ MODULE Approvals ------------------------------
(***************************************************************************)
(* Manual approvals: CreateApproval and ResolveApproval of AuditService    *)
(* (internal/core/audit.go) under their HTTP handlers (http/server.go).    *)
(* Each is a sequence of separate statements on tables approvals and       *)
(* decisions; any of them may fail, commit and still report an error, or   *)
(* be the last before the process stops.                                   *)
(*                                                                         *)
(* A caller is one request handled once.  time.Now() is a clock that ticks *)
(* with every request.                                                     *)
(***************************************************************************)
EXTENDS PathPolicy

CONSTANTS Callers, Ids, Runs, Approvers,
          Jobs,          \* the requests callers may bring
          NoJob, NoRow, NoId, NoOne,
          Unanswered, Refused, Failed

Verdicts == {"approved", "rejected"}
Scopes == {"code_write", "path_change"}

CreateJob == [kind : {"create"}, run : Runs, scope : Scopes, paths : SUBSET Paths]
ResolveJob == [kind : {"resolve"}, run : Runs, id : Ids, verdict : Verdicts,
               approver : Approvers]

ASSUME JobsAssumption == Jobs \subseteq CreateJob \cup ResolveJob

VARIABLES
  approvals, decisions,  \* the tables
  pc, job, now, clock,
  target,                \* the approval a caller works on
  answer,
  applied                \* history: the callers whose UPDATE took effect, in order

vars == <<approvals, decisions, pc, job, now, clock, target, answer, applied>>

Row == [run : Runs, scope : Scopes, status : {"requested"} \cup Verdicts,
        approver : Approvers \cup {NoOne}, at : Nat]
\* A decision row names no approval; "by" stands for its decision_id.
Decision == [by : Callers, run : Runs, actor : Approvers \cup {"system"}, at : Nat,
             type : {"approval_requested", "approval_approved", "approval_rejected"}]

\* What stands for a missing row, approval or answer is none itself.
ASSUME MarksAssumption ==
  /\ NoId \notin Ids /\ NoRow \notin Row /\ NoJob \notin Jobs
  /\ Row \cap {Unanswered, Refused, Failed} = {}

TypeOK ==
  /\ approvals \in [Ids -> Row \cup {NoRow}]
  /\ decisions \subseteq Decision
  /\ pc \in [Callers -> {"new", "insert", "payload", "update", "decide", "reread",
                         "done", "gone"}]
  /\ job \in [Callers -> Jobs \cup {NoJob}]
  /\ now \in [Callers -> Nat] /\ clock \in Nat
  /\ target \in [Callers -> Ids \cup {NoId}]
  /\ answer \in [Callers -> Row \cup {Unanswered, Refused, Failed}]
  /\ applied \in Seq(Callers)

Init ==
  /\ approvals = [i \in Ids |-> NoRow] /\ decisions = {}
  /\ pc = [c \in Callers |-> "new"]
  /\ job = [c \in Callers |-> NoJob]
  /\ now = [c \in Callers |-> 0] /\ clock = 0
  /\ target = [c \in Callers |-> NoId]
  /\ answer = [c \in Callers |-> Unanswered]
  /\ applied = <<>>

Goto(c, label) == pc' = [pc EXCEPT ![c] = label]

End(c, what) == Goto(c, "done") /\ answer' = [answer EXCEPT ![c] = what]

\* The handler goes on to the service call, which reads the clock first.
Enter(c, j, label) ==
  /\ job' = [job EXCEPT ![c] = j]
  /\ clock' = clock + 1
  /\ now' = [now EXCEPT ![c] = clock + 1]
  /\ Goto(c, label)

------------------------------------------------------------------------------
(* Creating. *)

\* CheckPaths and RequiresApproval on the paths of the request.
Acceptable(j) ==
  /\ CheckPaths(j.paths)
  /\ RequiresApproval(j.paths) => j.scope = "path_change"

BeginCreate(c, j) ==
  /\ pc[c] = "new" /\ j.kind = "create"
  /\ Acceptable(j)
  /\ Enter(c, j, "insert")
  /\ UNCHANGED <<approvals, decisions, target, answer, applied>>

RefuseCreate(c, j) ==
  /\ pc[c] = "new" /\ j.kind = "create"
  /\ ~ Acceptable(j)
  /\ job' = [job EXCEPT ![c] = j]
  /\ End(c, Refused)
  /\ UNCHANGED <<approvals, decisions, now, clock, target, applied>>

Inserted(c, id) ==
  [approvals EXCEPT ![id] = [run |-> job[c].run, scope |-> job[c].scope,
                             status |-> "requested", approver |-> NoOne, at |-> 0]]

\* InsertApproval, under a new uuid.
InsertApproval(c, id) ==
  /\ pc[c] = "insert"
  /\ approvals[id] = NoRow
  /\ approvals' = Inserted(c, id)
  /\ target' = [target EXCEPT ![c] = id]
  /\ Goto(c, "payload")
  /\ UNCHANGED <<decisions, job, now, clock, answer, applied>>

InsertApprovalFails(c) ==
  /\ pc[c] = "insert"
  /\ \/ UNCHANGED approvals
     \/ \E id \in Ids : approvals[id] = NoRow /\ approvals' = Inserted(c, id)
  /\ End(c, Failed)
  /\ UNCHANGED <<decisions, job, now, clock, target, applied>>

\* The payload artifact is saved (see AuditTrail).
SavePayload(c) ==
  /\ pc[c] = "payload"
  /\ Goto(c, "decide")
  /\ UNCHANGED <<approvals, decisions, job, now, clock, target, answer, applied>>

SavePayloadFails(c) ==
  /\ pc[c] = "payload"
  /\ End(c, Failed)
  /\ UNCHANGED <<approvals, decisions, job, now, clock, target, applied>>

------------------------------------------------------------------------------
(* Resolving. *)

Found(j) == approvals[j.id] # NoRow /\ approvals[j.id].run = j.run

\* handleResolveApproval reads the approval to see that it exists in this run;
\* its status is not looked at.
BeginResolve(c, j) ==
  /\ pc[c] = "new" /\ j.kind = "resolve"
  /\ Found(j)
  /\ Enter(c, j, "update")
  /\ target' = [target EXCEPT ![c] = j.id]
  /\ UNCHANGED <<approvals, decisions, answer, applied>>

RefuseResolve(c, j) ==
  /\ pc[c] = "new" /\ j.kind = "resolve"
  /\ ~ Found(j)
  /\ job' = [job EXCEPT ![c] = j]
  /\ End(c, Refused)
  /\ UNCHANGED <<approvals, decisions, now, clock, target, applied>>

\* Mutant of Updated: the first time of resolution is kept.
UpdatedOnce(c) ==
  [approvals EXCEPT ![target[c]].status = job[c].verdict,
                    ![target[c]].approver = job[c].approver,
                    ![target[c]].at = IF @ = 0 THEN now[c] ELSE @]

\* UpdateApprovalDecision: UPDATE ... WHERE approval_id = $1.
Updated(c) ==
  [approvals EXCEPT ![target[c]].status = job[c].verdict,
                    ![target[c]].approver = job[c].approver,
                    ![target[c]].at = now[c]]

\* Mutant of Update: only a pending row is updated, and no one looks whether it was.
UpdatePending(c) ==
  /\ pc[c] = "update"
  /\ IF approvals[target[c]].status = "requested"
       THEN approvals' = Updated(c) /\ applied' = Append(applied, c)
       ELSE UNCHANGED <<approvals, applied>>
  /\ Goto(c, "decide")
  /\ UNCHANGED <<decisions, job, now, clock, target, answer>>

Update(c) ==
  /\ pc[c] = "update"
  /\ approvals' = Updated(c)
  /\ applied' = Append(applied, c)
  /\ Goto(c, "decide")
  /\ UNCHANGED <<decisions, job, now, clock, target, answer>>

\* Mutant of UpdateFails: the error is only logged.
UpdateFailsIgnored(c) ==
  /\ pc[c] = "update"
  /\ Goto(c, "decide")
  /\ UNCHANGED <<approvals, applied, decisions, job, now, clock, target, answer>>

UpdateFails(c) ==
  /\ pc[c] = "update"
  /\ \/ UNCHANGED <<approvals, applied>>
     \/ approvals' = Updated(c) /\ applied' = Append(applied, c)
  /\ End(c, Failed)
  /\ UNCHANGED <<decisions, job, now, clock, target>>

\* The answer is the row as it stands after the decision was recorded.
Reread(c) ==
  /\ pc[c] = "reread"
  /\ End(c, approvals[target[c]])
  /\ UNCHANGED <<approvals, decisions, job, now, clock, target, applied>>

RereadFails(c) ==
  /\ pc[c] = "reread"
  /\ End(c, Failed)
  /\ UNCHANGED <<approvals, decisions, job, now, clock, target, applied>>

------------------------------------------------------------------------------
(* The decision log. *)

\* Mutant of NewDecision: the actor is taken from the approval.
NewDecisionByRow(c) ==
  LET j == job[c] IN
  [by |-> c, run |-> j.run, at |-> now[c], actor |-> approvals[target[c]].approver,
   type |-> IF j.kind = "create" THEN "approval_requested"
            ELSE IF j.verdict = "approved" THEN "approval_approved" ELSE "approval_rejected"]

NewDecision(c) ==
  LET j == job[c] IN
  [by |-> c, run |-> j.run, at |-> now[c],
   actor |-> IF j.kind = "create" THEN "system" ELSE j.approver,
   type |-> IF j.kind = "create" THEN "approval_requested"
            ELSE IF j.verdict = "approved" THEN "approval_approved" ELSE "approval_rejected"]

\* InsertDecision; CreateApproval then returns the row it built.
InsertDecision(c) ==
  /\ pc[c] = "decide"
  /\ decisions' = decisions \cup {NewDecision(c)}
  /\ IF job[c].kind = "create"
       THEN End(c, [run |-> job[c].run, scope |-> job[c].scope, status |-> "requested",
                    approver |-> NoOne, at |-> 0])
       ELSE Goto(c, "reread") /\ UNCHANGED answer
  /\ UNCHANGED <<approvals, job, now, clock, target, applied>>

\* Mutant of InsertDecisionFails: the error is only logged.
InsertDecisionFailsIgnored(c) ==
  /\ pc[c] = "decide"
  /\ IF job[c].kind = "create"
       THEN End(c, approvals[target[c]])
       ELSE Goto(c, "reread") /\ UNCHANGED answer
  /\ UNCHANGED <<approvals, decisions, job, now, clock, target, applied>>

InsertDecisionFails(c) ==
  /\ pc[c] = "decide"
  /\ decisions' \in {decisions, decisions \cup {NewDecision(c)}}
  /\ End(c, Failed)
  /\ UNCHANGED <<approvals, job, now, clock, target, applied>>

\* The process stops; statements that were committed stay.
Crash ==
  /\ \E c \in Callers : pc[c] \notin {"new", "done", "gone"}
  /\ pc' = [c \in Callers |-> IF pc[c] \in {"new", "done"} THEN pc[c] ELSE "gone"]
  /\ UNCHANGED <<approvals, decisions, job, now, clock, target, answer, applied>>

Step(c) ==
  \/ \E j \in Jobs : BeginCreate(c, j) \/ RefuseCreate(c, j)
                     \/ BeginResolve(c, j) \/ RefuseResolve(c, j)
  \/ (\E id \in Ids : InsertApproval(c, id)) \/ InsertApprovalFails(c)
  \/ SavePayload(c) \/ SavePayloadFails(c)
  \/ Update(c) \/ UpdateFails(c)
  \/ InsertDecision(c) \/ InsertDecisionFails(c)
  \/ Reread(c) \/ RereadFails(c)

Next == (\E c \in Callers : Step(c)) \/ Crash

Spec == Init /\ [][Next]_vars

------------------------------------------------------------------------------
(* Properties. *)

\* An approval says what the last UPDATE that reached it said, whole: status,
\* approver and time of one and the same request, made in its run; racing
\* approvers never mix their verdicts (audit.go:277-281, db.go:438-456).
Says(row, c) ==
  /\ row.run = job[c].run /\ row.status = job[c].verdict
  /\ row.approver = job[c].approver /\ row.at = now[c]

ResolutionWhole ==
  \A id \in Ids : approvals[id] # NoRow =>
    LET ups == {n \in 1..Len(applied) : target[applied[n]] = id}
    IN IF ups = {} THEN approvals[id].status = "requested"
       ELSE \E n \in ups : (\A m \in ups : m <= n) /\ Says(approvals[id], applied[n])

\* The decision log never runs ahead of the approvals table: a recorded verdict
\* took effect, and at the time the log gives for it, and a recorded request has
\* its row (audit.go:219-298).
LogIsTrue ==
  \A d \in decisions :
    /\ d.at = now[d.by]
    /\ d.type = "approval_requested" =>
         target[d.by] # NoId /\ approvals[target[d.by]] # NoRow
    /\ d.type # "approval_requested" =>
         /\ Contains(applied, d.by)
         /\ d.actor = job[d.by].approver
         /\ d.type = "approval_approved" <=> job[d.by].verdict = "approved"

\* A change without its log entry was never confirmed: its caller is still at it,
\* got an error or was cut off (audit.go:231-263, 277-295).
UnloggedIsUnconfirmed ==
  \A c \in Callers :
    answer[c] \notin {Unanswered, Refused, Failed} =>
      /\ \E d \in decisions : d.by = c
      /\ job[c].kind = "resolve" => Contains(applied, c)

\* The row an approver is answered with is the row its own UPDATE left, or one a
\* racing approver put there afterwards; never an older verdict (audit.go:277-298).
AnswerIsOwnOrLater ==
  \A c \in Callers :
    (job[c] # NoJob /\ answer[c] \notin {Unanswered, Refused, Failed}) =>
      (job[c].kind = "resolve" =>
        \E m, n \in 1..Len(applied) :
          /\ applied[m] = c /\ m <= n
          /\ target[applied[n]] = target[c] /\ Says(answer[c], applied[n]))

\* The policy judges every path under the name it would be written to, and no
\* approval was asked for but for paths that it lets pass under that name, and in
\* scope path_change when one of them needs it (http/server.go:220-232).
CheckedIsWritten ==
  /\ JudgedAsWritten
  /\ \A c \in Callers :
       (job[c] # NoJob /\ answer[c] # Refused) =>
         (job[c].kind = "create" =>
           LET written == {safeRelativePath(raw) : raw \in job[c].paths} \ {NoPath} IN
           /\ \A path \in written : IsOutside(path)
           /\ RequiresApproval(written) => job[c].scope = "path_change")

==============================================================================
