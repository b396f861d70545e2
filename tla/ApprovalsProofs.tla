---------------------------- MODULE ApprovalsProofs ----------------------------
(***************************************************************************)
(* Proofs about Approvals: what is known of a caller at each statement     *)
(* (CallerFacts), of an UPDATE that took effect (AppliedFacts), and of a   *)
(* row of the decision log (DecisionFacts).  The checked invariants follow *)
(* from these, together with ResolutionWhole and AnswerIsOwnOrLater, which *)
(* lean on them and are carried along.                                     *)
(***************************************************************************)
EXTENDS Approvals, PathPolicyProofs

Marks == {Unanswered, Refused, Failed}

\* The row a caller works on is there, and of the run it was asked for.
OnRow(c) ==
  /\ job[c] \in Jobs /\ target[c] \in Ids /\ approvals[target[c]] # NoRow
  /\ approvals[target[c]].run = job[c].run

CallerFacts(c) ==
  /\ pc[c] = "insert" => job[c] \in Jobs
  /\ pc[c] \in {"insert", "payload"} => job[c].kind = "create"
  /\ pc[c] \in {"update", "reread"} => job[c].kind = "resolve"
  /\ pc[c] \in {"payload", "update", "decide", "reread"} => OnRow(c)
  /\ pc[c] \in {"decide", "reread"} /\ job[c].kind = "resolve" => Contains(applied, c)
  /\ pc[c] = "reread" => \E d \in decisions : d.by = c
  /\ answer[c] \notin Marks => pc[c] = "done" /\ job[c] \in Jobs /\ \E d \in decisions : d.by = c
  /\ answer[c] \notin Marks /\ job[c].kind = "resolve" => Contains(applied, c)

\* An UPDATE in the history is of a caller past it, on a row that is still there.
AppliedFacts(n) ==
  /\ pc[applied[n]] \in {"decide", "reread", "done", "gone"}
  /\ OnRow(applied[n]) /\ job[applied[n]].kind = "resolve"

\* A decision is of a caller past recording it, and says what that caller's request was.
DecisionFacts(d) ==
  /\ pc[d.by] \in {"reread", "done", "gone"}
  /\ OnRow(d.by)
  /\ d.at = now[d.by]
  /\ d.type = "approval_requested" <=> job[d.by].kind = "create"
  /\ job[d.by].kind = "resolve" =>
       /\ Contains(applied, d.by)
       /\ d.actor = job[d.by].approver
       /\ d.type = "approval_approved" <=> job[d.by].verdict = "approved"

Known ==
  /\ \A c \in Callers : CallerFacts(c)
  /\ \A n \in 1..Len(applied) : AppliedFacts(n)
  /\ \A d \in decisions : DecisionFacts(d)

IInv == TypeOK /\ Known /\ ResolutionWhole /\ AnswerIsOwnOrLater

------------------------------------------------------------------------------
(* What one step may change. *)

Past == {"decide", "reread", "done", "gone"}

\* Rows are neither deleted nor moved to another run.
RowsStay ==
  \A id \in Ids : approvals[id] # NoRow =>
    approvals'[id] # NoRow /\ approvals'[id].run = approvals[id].run

Same(d) == UNCHANGED <<pc[d], job[d], now[d], target[d], answer[d]>>

\* c stays with its request and its row.
Stays(c) == UNCHANGED <<job[c], now[c], target[c]>>

Inserts(c) ==
  /\ pc[c] = "insert" /\ UNCHANGED <<decisions, applied>>
  /\ \E id \in Ids : approvals[id] = NoRow /\ approvals' = Inserted(c, id)

Updates(c) ==
  /\ pc[c] = "update" /\ pc'[c] \in {"decide", "done"} /\ Stays(c)
  /\ approvals' = Updated(c) /\ applied' = Append(applied, c)
  /\ UNCHANGED decisions

Logs(c) ==
  /\ pc[c] = "decide" /\ pc'[c] \in {"reread", "done"} /\ Stays(c)
  /\ decisions' = decisions \cup {NewDecision(c)}
  /\ UNCHANGED <<approvals, applied>>

Answers(c) ==
  /\ pc[c] = "reread" /\ Stays(c)
  /\ UNCHANGED <<approvals, decisions, applied>>
  /\ answer'[c] = approvals[target[c]]

\* A step of c is c's own, adds at most one thing to the tables, and once c is
\* past its UPDATE it goes forward.
Alone(c) ==
  /\ \A d \in Callers \ {c} : Same(d)
  /\ pc[c] \in Past => pc'[c] \in {"reread", "done"} /\ Stays(c)
  /\ pc[c] \notin {"done", "gone"}
  /\ \/ UNCHANGED <<approvals, decisions, applied>>
     \/ Inserts(c) \/ Updates(c) \/ Logs(c)
  /\ answer'[c] \in Marks \/ job'[c].kind = "create" \/ UNCHANGED answer \/ Answers(c)

LEMMA Shapes ==
  /\ \A j \in Jobs : j \in CreateJob \/ j \in ResolveJob
  /\ \A j \in Jobs : j.kind \in {"create", "resolve"} /\ j.run \in Runs
  /\ \A j \in Jobs : j.kind = "create" => j.scope \in Scopes
  /\ \A j \in Jobs : j.kind = "resolve" =>
       j.id \in Ids /\ j.verdict \in Verdicts /\ j.approver \in Approvers
  BY JobsAssumption DEF CreateJob, ResolveJob

\* InsertApproval adds a row and touches no other.
LEMMA InsertedRow ==
  ASSUME TypeOK, NEW c \in Callers, job[c] \in Jobs, job[c].kind = "create",
         NEW id \in Ids
  PROVE  /\ Inserted(c, id) \in [Ids -> Row \cup {NoRow}]
         /\ Inserted(c, id)[id] # NoRow
         /\ Inserted(c, id)[id].run = job[c].run /\ Inserted(c, id)[id].status = "requested"
         /\ \A i \in Ids \ {id} : Inserted(c, id)[i] = approvals[i]
  BY Shapes, MarksAssumption DEF TypeOK, Row, Inserted

\* UpdateApprovalDecision leaves the row with the verdict of its caller.
LEMMA UpdatedRow ==
  ASSUME TypeOK, NEW c \in Callers, OnRow(c), job[c].kind = "resolve"
  PROVE  /\ Updated(c) \in [Ids -> Row \cup {NoRow}]
         /\ Updated(c)[target[c]] # NoRow
         /\ Says(Updated(c)[target[c]], c)
         /\ \A i \in Ids \ {target[c]} : Updated(c)[i] = approvals[i]
  <1>1. /\ target[c] \in Ids /\ approvals[target[c]] \in Row
        /\ approvals[target[c]].run = job[c].run
        /\ job[c].verdict \in Verdicts /\ job[c].approver \in Approvers /\ now[c] \in Nat
    BY Shapes DEF TypeOK, OnRow
  <1> DEFINE row == [approvals[target[c]] EXCEPT !.status = job[c].verdict,
                       !.approver = job[c].approver, !.at = now[c]]
  <1>2. row \in Row /\ Says(row, c)
    BY <1>1 DEF Row, Says
  <1>3. Updated(c) = [approvals EXCEPT ![target[c]] = row]
    BY <1>1 DEF TypeOK, Row, Updated
  <1> HIDE DEF row
  <1> QED BY <1>1, <1>2, <1>3, MarksAssumption DEF TypeOK

LEMMA AloneKeepsRows ==
  ASSUME TypeOK, Known, NEW c \in Callers, Alone(c)
  PROVE  /\ RowsStay /\ decisions \subseteq decisions'
         /\ \A d \in Callers : Contains(applied, d) => Contains(applied, d)'
  <1>1. CASE UNCHANGED <<approvals, decisions, applied>>
    BY <1>1 DEF RowsStay, Contains
  <1>2. CASE Inserts(c)
    <2>1. job[c] \in Jobs /\ job[c].kind = "create"
      BY <1>2 DEF Known, CallerFacts, Inserts
    <2> QED BY <1>2, <2>1, InsertedRow DEF RowsStay, Contains, Inserts
  <1>3. CASE Updates(c)
    <2>1. OnRow(c) /\ job[c].kind = "resolve" /\ applied \in Seq(Callers)
      BY <1>3 DEF Known, CallerFacts, Updates, TypeOK
    <2>2. RowsStay
      BY <1>3, <2>1, UpdatedRow DEF RowsStay, OnRow, Updates, Says
    <2>3. \A i \in 1..Len(applied) : i \in 1..Len(applied') /\ applied'[i] = applied[i]
      BY <1>3, <2>1 DEF Updates
    <2> QED BY <1>3, <2>2, <2>3 DEF Updates, Contains
  <1>4. CASE Logs(c)
    BY <1>4 DEF Logs, RowsStay, Contains
  <1> QED BY <1>1, <1>2, <1>3, <1>4 DEF Alone

\* What is known of one caller stays so while another one steps.
LEMMA OtherCaller ==
  ASSUME TypeOK, Known, NEW c \in Callers, Alone(c), NEW d \in Callers \ {c}
  PROVE  CallerFacts(d)'
  <1>1. CallerFacts(d) /\ Same(d)
    BY DEF Known, Alone
  <1>2. OnRow(d) => OnRow(d)'
    BY <1>1, AloneKeepsRows DEF OnRow, RowsStay, Same
  <1> QED BY <1>1, <1>2, AloneKeepsRows DEF CallerFacts, Same

\* So is an UPDATE or a decision once it was made, whoever steps.
LEMMA PastStays ==
  ASSUME TypeOK, Known, NEW c \in Callers, Alone(c), NEW d \in Callers, pc[d] \in Past, OnRow(d)
  PROVE  pc'[d] \in Past /\ Stays(d) /\ OnRow(d)' /\ (pc[d] # "decide" => pc'[d] # "decide")
  <1>1. pc'[d] \in Past /\ Stays(d) /\ (pc[d] # "decide" => pc'[d] # "decide")
    BY DEF Alone, Past, Same, Stays
  <1> QED BY <1>1, AloneKeepsRows DEF OnRow, RowsStay, Stays

LEMMA HistoryStep ==
  ASSUME TypeOK, Known, NEW c \in Callers, Alone(c)
  PROVE  \A n \in 1..Len(applied') : AppliedFacts(n)'
  <1> SUFFICES ASSUME NEW n \in 1..Len(applied') PROVE AppliedFacts(n)'
    OBVIOUS
  <1>1. applied \in Seq(Callers)
    BY DEF TypeOK
  <1>2. CASE n \in 1..Len(applied)
    <2>1. applied'[n] = applied[n] /\ applied[n] \in Callers
      BY <1>1, <1>2 DEF Alone, Inserts, Updates, Logs
    <2>2. AppliedFacts(n)
      BY <1>2 DEF Known
    <2> QED BY <2>1, <2>2, PastStays DEF AppliedFacts, Past, Stays
  <1>3. CASE n \notin 1..Len(applied)
    <2>1. Updates(c)
      BY <1>3 DEF Alone, Inserts, Logs
    <2>2. applied'[n] = c
      BY <1>1, <1>3, <2>1 DEF Updates
    <2>3. OnRow(c) /\ job[c].kind = "resolve"
      BY <2>1 DEF Known, CallerFacts, Updates
    <2>4. OnRow(c)'
      BY <2>1, <2>3, AloneKeepsRows DEF OnRow, RowsStay, Updates, Stays
    <2> QED BY <2>1, <2>2, <2>3, <2>4 DEF AppliedFacts, Updates, Stays
  <1> QED BY <1>2, <1>3

LEMMA DecisionStep ==
  ASSUME TypeOK, Known, NEW c \in Callers, Alone(c)
  PROVE  \A d \in decisions' : DecisionFacts(d)'
  <1> SUFFICES ASSUME NEW d \in decisions' PROVE DecisionFacts(d)'
    OBVIOUS
  <1>1. CASE d \in decisions
    <2>1. DecisionFacts(d) /\ d.by \in Callers
      BY <1>1 DEF Known, TypeOK, Decision
    <2>2. pc'[d.by] \in Past \ {"decide"} /\ Stays(d.by) /\ OnRow(d.by)'
      BY <2>1, PastStays DEF DecisionFacts, Past
    <2> QED BY <2>1, <2>2, AloneKeepsRows DEF DecisionFacts, Past, Stays
  <1>2. CASE d \notin decisions
    <2>1. Logs(c) /\ d = NewDecision(c)
      BY <1>2 DEF Alone, Inserts, Updates, Logs
    <2>2. OnRow(c) /\ (job[c].kind = "resolve" => Contains(applied, c)) /\ job[c] \in Jobs
      BY <2>1 DEF Known, CallerFacts, Logs, OnRow
    <2>3. OnRow(c)'
      BY <2>1, <2>2, AloneKeepsRows DEF OnRow, RowsStay, Logs, Stays
    <2>4. /\ d.by = c /\ d.at = now[c]
          /\ d.type = "approval_requested" <=> job[c].kind = "create"
          /\ job[c].kind = "resolve" =>
               /\ d.actor = job[c].approver
               /\ d.type = "approval_approved" <=> job[c].verdict = "approved"
      BY <2>1, <2>2, Shapes DEF NewDecision
    <2>5. pc'[c] \in {"reread", "done"} /\ Stays(c)
      BY <2>1 DEF Logs
    <2>6. job[c].kind = "resolve" => Contains(applied, c)'
      BY <2>2, AloneKeepsRows
    <2> QED BY <2>3, <2>4, <2>5, <2>6 DEF DecisionFacts, Stays
  <1> QED BY <1>1, <1>2

\* The last UPDATE of a row is the one it shows.
LEMMA ResolutionStep ==
  ASSUME TypeOK, Known, ResolutionWhole, NEW c \in Callers, Alone(c)
  PROVE  ResolutionWhole'
  <1> DEFINE ups(id) == {n \in 1..Len(applied) : target[applied[n]] = id}
  <1> SUFFICES ASSUME NEW id \in Ids, approvals'[id] # NoRow
               PROVE  IF ups(id)' = {} THEN approvals'[id].status = "requested"
                      ELSE \E n \in ups(id)' :
                             (\A m \in ups(id)' : m <= n) /\ Says(approvals[id], applied[n])'
    BY DEF ResolutionWhole
  <1>1. applied \in Seq(Callers)
    BY DEF TypeOK
  <1>2. \A n \in 1..Len(applied) :
          /\ applied[n] \in Callers /\ Stays(applied[n])
          /\ approvals[target[applied[n]]] # NoRow
    BY <1>1, PastStays DEF Known, AppliedFacts, Past, OnRow
  <1>3. CASE UNCHANGED applied
    <2>1. ups(id)' = ups(id)
      BY <1>2, <1>3 DEF Stays
    <2>2. CASE approvals[id] # NoRow
      <3>1. approvals'[id] = approvals[id]
        <4>1. CASE Inserts(c)
          <5>1. job[c] \in Jobs /\ job[c].kind = "create"
            BY <4>1 DEF Known, CallerFacts, Inserts
          <5> QED BY <2>2, <4>1, <5>1, InsertedRow DEF Inserts
        <4>2. ~ Updates(c)
          BY <1>1, <1>3 DEF Updates
        <4> QED BY <4>1, <4>2 DEF Alone, Logs
      <3>2. IF ups(id) = {} THEN approvals[id].status = "requested"
            ELSE \E n \in ups(id) : (\A m \in ups(id) : m <= n) /\ Says(approvals[id], applied[n])
        BY <2>2 DEF ResolutionWhole
      <3>3. \A n \in ups(id) : Says(approvals[id], applied[n]) => Says(approvals[id], applied[n])'
        BY <1>2, <1>3, <3>1 DEF Says, Stays
      <3> HIDE DEF ups
      <3> QED BY <2>1, <3>1, <3>2, <3>3
    <2>3. CASE approvals[id] = NoRow
      <3>1. Inserts(c)
        BY <1>1, <1>3, <2>3 DEF Alone, Logs, Updates
      <3>2. job[c] \in Jobs /\ job[c].kind = "create"
        BY <3>1 DEF Known, CallerFacts, Inserts
      <3>3. approvals'[id].status = "requested"
        BY <2>3, <3>1, <3>2, InsertedRow DEF Inserts
      <3>4. ups(id) = {}
        BY <1>2, <2>3
      <3> QED BY <2>1, <3>3, <3>4
    <2> QED BY <2>2, <2>3
  <1>4. CASE Updates(c)
    <2>1. OnRow(c) /\ job[c].kind = "resolve"
      BY <1>4 DEF Known, CallerFacts, Updates
    <2> PICK last \in Nat : last = Len(applied) + 1
      BY <1>1
    <2>2. /\ Len(applied') = last /\ applied'[last] = c
          /\ \A n \in 1..Len(applied) : n \in 1..last /\ n < last /\ applied'[n] = applied[n]
          /\ \A n \in 1..last : n = last \/ n \in 1..Len(applied)
          /\ last \in 1..last
      BY <1>1, <1>4 DEF Updates
    <2>3. CASE id = target[c]
      <3>1. last \in ups(id)' /\ \A m \in ups(id)' : m <= last
        BY <1>4, <2>2, <2>3 DEF Updates, Stays
      <3>2. Says(approvals[id], applied[last])'
        BY <1>4, <2>1, <2>2, <2>3, UpdatedRow DEF Updates, Stays, Says
      <3> HIDE DEF ups
      <3> QED BY <3>1, <3>2
    <2>4. CASE id # target[c]
      <3>1. approvals'[id] = approvals[id]
        BY <1>4, <2>1, <2>4, UpdatedRow DEF Updates
      <3>2. ups(id)' = ups(id)
        BY <1>2, <1>4, <2>2, <2>4 DEF Updates, Stays
      <3>3. IF ups(id) = {} THEN approvals[id].status = "requested"
            ELSE \E n \in ups(id) : (\A m \in ups(id) : m <= n) /\ Says(approvals[id], applied[n])
        BY <3>1 DEF ResolutionWhole
      <3>4. \A n \in ups(id) : Says(approvals[id], applied[n]) => Says(approvals[id], applied[n])'
        BY <1>2, <2>2, <3>1 DEF Says, Stays
      <3> HIDE DEF ups
      <3> QED BY <3>1, <3>2, <3>3, <3>4
    <2> QED BY <2>3, <2>4
  <1> QED BY <1>3, <1>4 DEF Alone, Inserts, Logs

\* An answered approver finds the own verdict, or a later one, in the row answered with.
LEMMA AnswerStep ==
  ASSUME TypeOK, Known, ResolutionWhole, AnswerIsOwnOrLater, NEW c \in Callers, Alone(c)
  PROVE  AnswerIsOwnOrLater'
  <1> DEFINE Met(d, m, n) == /\ applied[m] = d /\ m <= n
                             /\ target[applied[n]] = target[d] /\ Says(answer[d], applied[n])
  <1> SUFFICES ASSUME NEW d \in Callers, answer'[d] \notin Marks, job'[d].kind = "resolve"
               PROVE  \E m, n \in 1..Len(applied') : Met(d, m, n)'
    BY DEF AnswerIsOwnOrLater, Marks
  <1>1. /\ applied \in Seq(Callers) /\ answer \in [Callers -> Row \cup Marks]
        /\ CallerFacts(d) /\ CallerFacts(c)
    BY DEF TypeOK, Known, Marks
  <1>2. \A n \in 1..Len(applied) :
          /\ n \in 1..Len(applied') /\ applied'[n] = applied[n]
          /\ applied[n] \in Callers /\ Stays(applied[n])
    BY <1>1, PastStays DEF Known, AppliedFacts, Alone, Past, Inserts, Updates, Logs
  <1>3. CASE answer'[d] = answer[d]
    <2>1. pc[d] = "done" /\ job[d] \in Jobs
      BY <1>1, <1>3 DEF CallerFacts
    <2>2. d # c /\ Same(d)
      BY <2>1 DEF Alone
    <2>3. PICK m \in 1..Len(applied), n \in 1..Len(applied) : Met(d, m, n)
      BY <1>3, <2>1, <2>2, MarksAssumption DEF AnswerIsOwnOrLater, Marks, Same
    <2>4. Met(d, m, n)'
      BY <1>2, <2>2, <2>3 DEF Says, Same, Stays
    <2> HIDE DEF Met
    <2> QED BY <1>2, <2>4
  <1>4. CASE answer'[d] # answer[d]
    <2>1. d = c /\ Answers(c)
      BY <1>4 DEF Alone, Same
    <2>2. OnRow(c) /\ Contains(applied, c)
      BY <1>1, <2>1 DEF CallerFacts, Answers
    <2>3. PICK m \in 1..Len(applied) : applied[m] = c
      BY <2>2 DEF Contains
    <2>4. PICK n \in 1..Len(applied) :
            /\ m <= n /\ target[applied[n]] = target[c]
            /\ Says(approvals[target[c]], applied[n])
      BY <2>2, <2>3 DEF ResolutionWhole, OnRow
    <2>5. Met(d, m, n)'
      BY <1>2, <2>1, <2>3, <2>4 DEF Says, Answers, Stays
    <2> HIDE DEF Met
    <2> QED BY <1>2, <2>5
  <1> QED BY <1>3, <1>4

------------------------------------------------------------------------------
(* The statements of a caller, one by one. *)

\* What a step must be shown to do.
Fine(c) == TypeOK' /\ Alone(c) /\ CallerFacts(c)'

LEMMA BeginsFine ==
  ASSUME TypeOK, Known, NEW c \in Callers, NEW j \in Jobs,
         BeginCreate(c, j) \/ RefuseCreate(c, j) \/ BeginResolve(c, j) \/ RefuseResolve(c, j)
  PROVE  Fine(c)
  <1> USE DEF Goto, End, Enter
  <1>1. TypeOK'
    <2>1. j.kind = "resolve" => j.id \in Ids
      BY Shapes
    <2>2. CASE BeginCreate(c, j)
      BY <2>2 DEF TypeOK, BeginCreate
    <2>3. CASE RefuseCreate(c, j) \/ RefuseResolve(c, j)
      BY <2>3 DEF TypeOK, RefuseCreate, RefuseResolve
    <2>4. CASE BeginResolve(c, j)
      BY <2>1, <2>4 DEF TypeOK, BeginResolve
    <2> QED BY <2>2, <2>3, <2>4
  <1>2. /\ pc[c] = "new" /\ answer[c] \in Marks /\ j.run \in Runs
        /\ \A d \in Callers \ {c} : Same(d)
        /\ UNCHANGED <<approvals, decisions, applied>>
        /\ job'[c] = j
    <2>1. pc[c] = "new"
      BY DEF BeginCreate, RefuseCreate, BeginResolve, RefuseResolve
    <2>2. answer[c] \in Marks /\ j.run \in Runs
      BY <2>1, Shapes DEF Known, CallerFacts
    <2>3. job'[c] = j /\ \A d \in Callers \ {c} : Same(d)
      BY DEF TypeOK, BeginCreate, RefuseCreate, BeginResolve, RefuseResolve, Same
    <2> QED BY <2>1, <2>2, <2>3 DEF BeginCreate, RefuseCreate, BeginResolve, RefuseResolve
  <1>3. answer'[c] \in Marks
    BY <1>2 DEF TypeOK, BeginCreate, RefuseCreate, BeginResolve, RefuseResolve, Marks
  <1>4. \/ pc'[c] = "done"
        \/ pc'[c] = "insert" /\ j.kind = "create"
        \/ /\ pc'[c] = "update" /\ j.kind = "resolve" /\ target'[c] = j.id
           /\ approvals[j.id] # NoRow /\ approvals[j.id].run = j.run
    BY DEF TypeOK, BeginCreate, RefuseCreate, BeginResolve, RefuseResolve, Found
  <1>5. Alone(c)
    BY <1>2, <1>3 DEF Alone, Past
  <1>6. CallerFacts(c)'
    BY <1>2, <1>3, <1>4, Shapes DEF CallerFacts, OnRow
  <1> QED BY <1>1, <1>5, <1>6 DEF Fine

LEMMA InsertFine ==
  ASSUME TypeOK, Known, NEW c \in Callers,
         (\E id \in Ids : InsertApproval(c, id)) \/ InsertApprovalFails(c)
  PROVE  Fine(c)
  <1>1. job[c] \in Jobs /\ job[c].kind = "create" /\ pc[c] = "insert" /\ CallerFacts(c)
    BY DEF Known, CallerFacts, InsertApproval, InsertApprovalFails
  <1>2. CASE \E id \in Ids : InsertApproval(c, id)
    <2>1. PICK id \in Ids : InsertApproval(c, id)
      BY <1>2
    <2>2. /\ pc'[c] = "payload" /\ target'[c] = id /\ UNCHANGED <<job, decisions, applied, answer, now>>
          /\ \A d \in Callers \ {c} : Same(d)
          /\ approvals[id] = NoRow /\ approvals' = Inserted(c, id)
      BY <2>1 DEF TypeOK, InsertApproval, Goto, Same
    <2>3. TypeOK'
      BY <1>1, <2>1, InsertedRow DEF TypeOK, InsertApproval, Goto
    <2>4. Alone(c)
      BY <1>1, <2>2 DEF Alone, Inserts, Past
    <2>5. CallerFacts(c)'
      BY <1>1, <2>2, InsertedRow DEF CallerFacts, OnRow
    <2> QED BY <2>3, <2>4, <2>5 DEF Fine
  <1>3. CASE InsertApprovalFails(c)
    <2>1. /\ pc'[c] = "done" /\ answer'[c] = Failed
          /\ UNCHANGED <<job, now, target, decisions, applied>>
          /\ \A d \in Callers \ {c} : Same(d)
          /\ \/ UNCHANGED approvals
             \/ \E id \in Ids : approvals[id] = NoRow /\ approvals' = Inserted(c, id)
      BY <1>3 DEF TypeOK, InsertApprovalFails, End, Goto, Same
    <2>2. TypeOK'
      <3>1. approvals' \in [Ids -> Row \cup {NoRow}]
        BY <1>1, <2>1, InsertedRow DEF TypeOK
      <3> QED BY <1>3, <3>1 DEF TypeOK, InsertApprovalFails, End, Goto
    <2>3. Alone(c)
      BY <1>1, <2>1 DEF Alone, Inserts, Past, Marks
    <2>4. CallerFacts(c)'
      BY <1>1, <2>1 DEF CallerFacts, Marks
    <2> QED BY <2>2, <2>3, <2>4 DEF Fine
  <1> QED BY <1>2, <1>3

LEMMA PayloadFine ==
  ASSUME TypeOK, Known, NEW c \in Callers, SavePayload(c) \/ SavePayloadFails(c)
  PROVE  Fine(c)
  <1> USE DEF SavePayload, SavePayloadFails, Goto, End
  <1>1. TypeOK'
    BY DEF TypeOK
  <1>2. /\ pc[c] = "payload" /\ CallerFacts(c)
        /\ UNCHANGED <<approvals, job, now, target, decisions, applied>>
        /\ \/ pc'[c] = "decide" /\ UNCHANGED answer
           \/ pc'[c] = "done" /\ answer'[c] = Failed
        /\ \A d \in Callers \ {c} : Same(d)
    <2>1. CallerFacts(c)
      BY DEF Known
    <2> QED BY <2>1 DEF TypeOK, Same
  <1>3. Alone(c)
    BY <1>2 DEF Alone, Past, Marks
  <1>4. CallerFacts(c)'
    BY <1>2 DEF CallerFacts, OnRow, Marks
  <1> QED BY <1>1, <1>3, <1>4 DEF Fine

LEMMA UpdateFine ==
  ASSUME TypeOK, Known, NEW c \in Callers, Update(c) \/ UpdateFails(c)
  PROVE  Fine(c)
  <1>1. /\ pc[c] = "update" /\ CallerFacts(c) /\ OnRow(c) /\ job[c].kind = "resolve"
        /\ applied \in Seq(Callers)
    BY DEF Known, CallerFacts, TypeOK, Update, UpdateFails
  <1>2. /\ UNCHANGED <<job, now, clock, target, decisions>>
        /\ \/ pc'[c] = "decide" /\ UNCHANGED answer /\ applied' # applied
           \/ pc'[c] = "done" /\ answer'[c] = Failed
        /\ \A d \in Callers \ {c} : Same(d)
        /\ \/ UNCHANGED <<approvals, applied>>
           \/ approvals' = Updated(c) /\ applied' = Append(applied, c)
    BY <1>1 DEF TypeOK, Update, UpdateFails, End, Goto, Same
  <1>3. TypeOK'
    <2>1. approvals' \in [Ids -> Row \cup {NoRow}] /\ applied' \in Seq(Callers)
      <3>1. Updated(c) \in [Ids -> Row \cup {NoRow}] /\ Append(applied, c) \in Seq(Callers)
        BY <1>1, UpdatedRow
      <3> QED BY <1>2, <3>1 DEF TypeOK
    <2> QED BY <1>2, <2>1 DEF TypeOK, Update, UpdateFails, End, Goto
  <1>4. Alone(c)
    BY <1>1, <1>2 DEF Alone, Updates, Past, Stays, Marks
  <1>5. pc'[c] = "decide" => OnRow(c)' /\ Contains(applied, c)'
    <2> SUFFICES ASSUME pc'[c] = "decide" PROVE OnRow(c)' /\ Contains(applied, c)'
      OBVIOUS
    <2>1. approvals' = Updated(c) /\ applied' = Append(applied, c)
      BY <1>2
    <2>2. OnRow(c)'
      BY <1>1, <1>2, <2>1, UpdatedRow DEF OnRow, Says
    <2>3. Len(applied) + 1 \in 1..Len(applied') /\ applied'[Len(applied) + 1] = c
      BY <1>1, <2>1
    <2> QED BY <2>2, <2>3 DEF Contains
  <1>6. CallerFacts(c)'
    BY <1>1, <1>2, <1>5 DEF CallerFacts, Marks
  <1> QED BY <1>3, <1>4, <1>6 DEF Fine

LEMMA DecideFine ==
  ASSUME TypeOK, Known, NEW c \in Callers, InsertDecision(c) \/ InsertDecisionFails(c)
  PROVE  Fine(c)
  <1>1. /\ pc[c] = "decide" /\ CallerFacts(c) /\ OnRow(c) /\ job[c] \in Jobs
        /\ job[c].kind = "resolve" => Contains(applied, c)
        /\ now[c] \in Nat
    BY DEF Known, CallerFacts, OnRow, TypeOK, InsertDecision, InsertDecisionFails
  <1>2. NewDecision(c) \in Decision /\ NewDecision(c).by = c
    BY <1>1, Shapes DEF NewDecision, Decision
  <1>3. /\ UNCHANGED <<approvals, job, now, clock, target, applied>>
        /\ \/ /\ pc'[c] = "reread" /\ UNCHANGED answer /\ job[c].kind = "resolve"
              /\ decisions' = decisions \cup {NewDecision(c)}
           \/ /\ pc'[c] = "done" /\ job[c].kind = "create"
              /\ decisions' = decisions \cup {NewDecision(c)}
           \/ /\ pc'[c] = "done" /\ answer'[c] = Failed
              /\ decisions' \in {decisions, decisions \cup {NewDecision(c)}}
        /\ \A d \in Callers \ {c} : Same(d)
    <2>1. CASE InsertDecision(c)
      BY <1>1, <2>1, Shapes DEF TypeOK, InsertDecision, End, Goto, Same
    <2>2. CASE InsertDecisionFails(c)
      BY <1>1, <2>2 DEF TypeOK, InsertDecisionFails, End, Goto, Same
    <2> QED BY <2>1, <2>2
  <1>4. TypeOK'
    <2>1. CASE InsertDecision(c)
      <3> DEFINE row == [run |-> job[c].run, scope |-> job[c].scope, status |-> "requested",
                         approver |-> NoOne, at |-> 0]
      <3>1. job[c].kind = "create" => row \in Row
        BY <1>1, Shapes DEF Row
      <3> HIDE DEF row
      <3>2. /\ decisions' = decisions \cup {NewDecision(c)}
            /\ pc' \in {[pc EXCEPT ![c] = "done"], [pc EXCEPT ![c] = "reread"]}
            /\ \/ UNCHANGED answer
               \/ job[c].kind = "create" /\ answer' = [answer EXCEPT ![c] = row]
        BY <2>1 DEF InsertDecision, End, Goto, row
      <3> QED BY <1>2, <1>3, <3>1, <3>2 DEF TypeOK
    <2>2. CASE InsertDecisionFails(c)
      BY <1>2, <1>3, <2>2 DEF TypeOK, InsertDecisionFails, End, Goto
    <2> QED BY <2>1, <2>2
  <1>5. Alone(c)
    BY <1>1, <1>3 DEF Alone, Logs, Past, Stays, Marks
  <1>6. CallerFacts(c)'
    BY <1>1, <1>2, <1>3 DEF CallerFacts, OnRow, Marks
  <1> QED BY <1>4, <1>5, <1>6 DEF Fine

LEMMA RereadFine ==
  ASSUME TypeOK, Known, NEW c \in Callers, Reread(c) \/ RereadFails(c)
  PROVE  Fine(c)
  <1>1. /\ pc[c] = "reread" /\ CallerFacts(c) /\ OnRow(c) /\ job[c].kind = "resolve"
        /\ approvals[target[c]] \in Row
    BY DEF Known, CallerFacts, OnRow, TypeOK, Reread, RereadFails
  <1>2. /\ UNCHANGED <<approvals, decisions, job, now, clock, target, applied>>
        /\ pc'[c] = "done" /\ answer'[c] \in {approvals[target[c]], Failed}
        /\ \A d \in Callers \ {c} : Same(d)
    BY DEF TypeOK, Reread, RereadFails, End, Goto, Same
  <1>3. TypeOK'
    BY <1>1 DEF TypeOK, Reread, RereadFails, End, Goto
  <1>4. Alone(c)
    BY <1>1, <1>2 DEF Alone, Answers, Past, Stays, Marks
  <1>5. CallerFacts(c)'
    BY <1>1, <1>2 DEF CallerFacts, OnRow, Marks
  <1> QED BY <1>3, <1>4, <1>5 DEF Fine

LEMMA StepFine == ASSUME TypeOK, Known, NEW c \in Callers, Step(c) PROVE Fine(c)
  BY BeginsFine, InsertFine, PayloadFine, UpdateFine, DecideFine, RereadFine DEF Step

------------------------------------------------------------------------------
(* The invariant. *)

LEMMA IInit == Init => IInv
  <1> SUFFICES ASSUME Init PROVE IInv
    OBVIOUS
  <1>1. TypeOK /\ Len(applied) = 0
    BY DEF Init, TypeOK
  <1>2. Known
    BY <1>1 DEF Init, Known, CallerFacts, Marks
  <1>3. ResolutionWhole /\ AnswerIsOwnOrLater
    BY <1>1 DEF Init, ResolutionWhole, AnswerIsOwnOrLater
  <1> QED BY <1>1, <1>2, <1>3 DEF IInv

\* A stop changes nothing but where the callers are.
LEMMA CrashKeeps == ASSUME IInv, Crash PROVE IInv'
  <1>1. /\ UNCHANGED <<approvals, decisions, job, now, clock, target, answer, applied>>
        /\ \A c \in Callers : IF pc[c] \in {"new", "done"} THEN pc'[c] = pc[c] ELSE pc'[c] = "gone"
    BY DEF Crash
  <1>2. TypeOK'
    BY DEF IInv, TypeOK, Crash
  <1>3. \A c \in Callers : CallerFacts(c)'
    BY <1>1 DEF IInv, Known, CallerFacts, OnRow
  <1>4. \A n \in 1..Len(applied') : AppliedFacts(n)'
    <2>1. \A n \in 1..Len(applied) : applied[n] \in Callers
      BY DEF IInv, TypeOK
    <2> QED BY <1>1, <2>1 DEF IInv, Known, AppliedFacts, OnRow
  <1>5. \A d \in decisions' : DecisionFacts(d)'
    <2>1. \A d \in decisions : d.by \in Callers
      BY DEF IInv, TypeOK, Decision
    <2> QED BY <1>1, <2>1 DEF IInv, Known, DecisionFacts, OnRow
  <1>6. ResolutionWhole' /\ AnswerIsOwnOrLater'
    BY <1>1 DEF IInv, ResolutionWhole, AnswerIsOwnOrLater, Says
  <1> QED BY <1>2, <1>3, <1>4, <1>5, <1>6 DEF IInv, Known

LEMMA INext == IInv /\ [Next]_vars => IInv'
  <1> SUFFICES ASSUME IInv, [Next]_vars PROVE IInv'
    OBVIOUS
  <1>1. CASE \E c \in Callers : Step(c)
    <2> PICK c \in Callers : Step(c)
      BY <1>1
    <2>1. TypeOK /\ Known /\ Fine(c)
      BY StepFine DEF IInv
    <2>2. Known'
      BY <2>1, OtherCaller, HistoryStep, DecisionStep DEF Known, Fine
    <2>3. ResolutionWhole' /\ AnswerIsOwnOrLater'
      BY <2>1, ResolutionStep, AnswerStep DEF IInv, Fine
    <2> QED BY <2>1, <2>2, <2>3 DEF IInv, Fine
  <1>2. CASE Crash
    BY <1>2, CrashKeeps
  <1>3. CASE UNCHANGED vars
    <2> USE <1>3 DEF vars
    <2>1. TypeOK'
      BY DEF IInv, TypeOK
    <2>2. Known'
      BY DEF IInv, Known, CallerFacts, AppliedFacts, DecisionFacts, OnRow
    <2>3. ResolutionWhole'
      BY DEF IInv, ResolutionWhole, Says
    <2>4. AnswerIsOwnOrLater'
      BY DEF IInv, AnswerIsOwnOrLater, Says
    <2> QED BY <2>1, <2>2, <2>3, <2>4 DEF IInv
  <1> QED BY <1>1, <1>2, <1>3 DEF Next

\* The tables, the callers and the history hold what they are said to.
THEOREM ApprovalTypes == Spec => []TypeOK
  <1>1. IInv => TypeOK
    BY DEF IInv
  <1> QED BY <1>1, IInit, INext, PTL DEF Spec

\* However many approvers race on an approval and whatever fails, its row is the
\* whole verdict of the last UPDATE that took effect, or still the request
\* (audit.go:277-281, db.go:438-456).
THEOREM RowsAreWhole == Spec => []ResolutionWhole
  <1>1. IInv => ResolutionWhole
    BY DEF IInv
  <1> QED BY <1>1, IInit, INext, PTL DEF Spec

\* The decision log holds nothing that is not in the approvals table, and says it
\* as the request did (audit.go:219-298).
THEOREM LogNeverRunsAhead == Spec => []LogIsTrue
  <1>1. IInv => LogIsTrue
    <2> SUFFICES ASSUME IInv, NEW d \in decisions
                 PROVE  /\ d.at = now[d.by]
                        /\ d.type = "approval_requested" =>
                             target[d.by] # NoId /\ approvals[target[d.by]] # NoRow
                        /\ d.type # "approval_requested" =>
                             /\ Contains(applied, d.by)
                             /\ d.actor = job[d.by].approver
                             /\ d.type = "approval_approved" <=> job[d.by].verdict = "approved"
      BY DEF LogIsTrue
    <2> QED BY MarksAssumption, Shapes DEF IInv, Known, DecisionFacts, OnRow
  <1> QED BY <1>1, IInit, INext, PTL DEF Spec

\* Whoever is answered with a row has its decision in the log, and an approver its
\* UPDATE in the table (audit.go:231-263, 277-295).
THEOREM ConfirmedIsLogged == Spec => []UnloggedIsUnconfirmed
  <1>1. IInv => UnloggedIsUnconfirmed
    BY DEF IInv, Known, CallerFacts, UnloggedIsUnconfirmed, Marks
  <1> QED BY <1>1, IInit, INext, PTL DEF Spec

\* An approver is answered with its own verdict or a later one (audit.go:277-298).
THEOREM AnswersAreCurrent == Spec => []AnswerIsOwnOrLater
  <1>1. IInv => AnswerIsOwnOrLater
    BY DEF IInv
  <1> QED BY <1>1, IInit, INext, PTL DEF Spec

------------------------------------------------------------------------------
(* The paths of a request. *)

\* A request to create that was not refused passed the path policy.
AskFacts ==
  \A c \in Callers :
    /\ pc[c] = "new" => job[c] = NoJob
    /\ job[c] # NoJob /\ job[c].kind = "create" =>
         Acceptable(job[c]) \/ (pc[c] = "done" /\ answer[c] = Refused)

\* The paths are judged in the step that takes the request on, and not again.
LEMMA AskStep == IInv /\ AskFacts /\ [Next]_vars => AskFacts'
  <1> SUFFICES ASSUME IInv, AskFacts, [Next]_vars, NEW d \in Callers
               PROVE  /\ pc'[d] = "new" => job'[d] = NoJob
                      /\ job'[d] # NoJob /\ job'[d].kind = "create" =>
                           Acceptable(job'[d]) \/ (pc'[d] = "done" /\ answer'[d] = Refused)
    BY DEF AskFacts, Acceptable
  <1>1. ASSUME Same(d)
        PROVE  /\ pc'[d] = "new" => job'[d] = NoJob
               /\ job'[d] # NoJob /\ job'[d].kind = "create" =>
                    Acceptable(job'[d]) \/ (pc'[d] = "done" /\ answer'[d] = Refused)
    BY <1>1 DEF AskFacts, Same
  <1>2. CASE Step(d)
    <2>1. CASE \E j \in Jobs : BeginCreate(d, j)
      <3> PICK j \in Jobs : BeginCreate(d, j)
        BY <2>1
      <3>1. pc'[d] = "insert" /\ job'[d] = j /\ Acceptable(j)
        BY DEF BeginCreate, Enter, Goto, IInv, TypeOK
      <3> QED BY <3>1
    <2>2. CASE \E j \in Jobs : RefuseCreate(d, j)
      <3>1. pc'[d] = "done" /\ answer'[d] = Refused
        BY <2>2 DEF RefuseCreate, End, Goto, IInv, TypeOK
      <3> QED BY <3>1
    <2>3. CASE \E j \in Jobs : BeginResolve(d, j) \/ RefuseResolve(d, j)
      <3> PICK j \in Jobs : BeginResolve(d, j) \/ RefuseResolve(d, j)
        BY <2>3
      <3>1. pc'[d] \in {"update", "done"} /\ job'[d] = j /\ j.kind = "resolve"
        BY DEF BeginResolve, RefuseResolve, Enter, End, Goto, IInv, TypeOK
      <3> QED BY <3>1
    <2>4. CASE /\ UNCHANGED job /\ pc[d] \notin {"new", "done", "gone"} /\ pc'[d] # "new"
      BY <2>4 DEF AskFacts
    <2>5. \/ \E j \in Jobs : BeginCreate(d, j) \/ RefuseCreate(d, j)
                             \/ BeginResolve(d, j) \/ RefuseResolve(d, j)
          \/ UNCHANGED job /\ pc[d] \notin {"new", "done", "gone"} /\ pc'[d] # "new"
      <3> USE DEF IInv, TypeOK, Goto, End
      <3>1. CASE (\E id \in Ids : InsertApproval(d, id)) \/ InsertApprovalFails(d)
        BY <3>1 DEF InsertApproval, InsertApprovalFails
      <3>2. CASE SavePayload(d) \/ SavePayloadFails(d)
        BY <3>2 DEF SavePayload, SavePayloadFails
      <3>3. CASE Update(d) \/ UpdateFails(d)
        BY <3>3 DEF Update, UpdateFails
      <3>4. CASE InsertDecision(d) \/ InsertDecisionFails(d)
        BY <3>4 DEF InsertDecision, InsertDecisionFails
      <3>5. CASE Reread(d) \/ RereadFails(d)
        BY <3>5 DEF Reread, RereadFails
      <3> QED BY <1>2, <3>1, <3>2, <3>3, <3>4, <3>5 DEF Step
    <2> QED BY <2>1, <2>2, <2>3, <2>4, <2>5
  <1>3. CASE \E c \in Callers \ {d} : Step(c)
    <2>1. Same(d)
      BY <1>3, StepFine DEF IInv, Fine, Alone
    <2> QED BY <1>1, <2>1
  <1>4. CASE Crash
    <2>1. /\ UNCHANGED <<job, answer>>
          /\ IF pc[d] \in {"new", "done"} THEN pc'[d] = pc[d] ELSE pc'[d] = "gone"
      BY <1>4 DEF Crash
    <2> QED BY <2>1 DEF AskFacts
  <1>5. CASE UNCHANGED vars
    BY <1>1, <1>5 DEF vars, Same
  <1> QED BY <1>2, <1>3, <1>4, <1>5 DEF Next

\* However its paths are spelled, a request for an approval is taken on only if what
\* Execute would write of them is outside everything built-in, and only in scope
\* path_change if one of the names written needs that (http/server.go:220-232,
\* policy.go:62-95).
THEOREM CheckedPathsAreWritten == Spec => []CheckedIsWritten
  <1>1. Init => AskFacts
    BY DEF Init, AskFacts
  <1>2. IInv /\ AskFacts => CheckedIsWritten
    <2> SUFFICES ASSUME IInv, AskFacts, NEW c \in Callers,
                        job[c] # NoJob, answer[c] # Refused, job[c].kind = "create"
                 PROVE  LET written == {safeRelativePath(raw) : raw \in job[c].paths} \ {NoPath} IN
                        /\ \A path \in written : IsOutside(path)
                        /\ RequiresApproval(written) => job[c].scope = "path_change"
      BY PathsJudgedAsWritten DEF CheckedIsWritten
    <2> DEFINE written == {safeRelativePath(raw) : raw \in job[c].paths} \ {NoPath}
    <2>1. Acceptable(job[c])
      BY DEF AskFacts
    <2>2. job[c].paths \subseteq Paths
      BY Shapes DEF IInv, TypeOK, CreateJob, ResolveJob
    <2>3. ASSUME NEW path \in written
          PROVE  /\ IsOutside(path)
                 /\ \E raw \in job[c].paths : canonicalizePath(raw) = canonicalizePath(path)
      <3>1. PICK raw \in job[c].paths : path = safeRelativePath(raw) /\ path # NoPath
        OBVIOUS
      <3>2. raw \in Paths
        BY <2>2
      <3>3. raw \in Seq(Segments) /\ raw # <<>>
        BY <3>2, PathShape
      <3>4. canonicalizePath(raw) = path /\ canonicalizePath(path) = path
        BY <3>1, <3>3, WrittenPath
      <3>5. CheckPaths({raw})
        BY <2>1, <3>1 DEF Acceptable, CheckPaths
      <3>6. IsOutside(path)
        BY <3>1, <3>2, <3>5, PathsJudgedAsWritten DEF JudgedAsWritten
      <3> QED BY <3>4, <3>6
    <2>4. RequiresApproval(written) => RequiresApproval(job[c].paths)
      <3> HIDE DEF written
      <3> QED BY <2>3 DEF RequiresApproval
    <2> QED BY <2>1, <2>3, <2>4 DEF Acceptable
  <1> QED BY <1>1, <1>2, AskStep, IInit, INext, PTL DEF Spec

==============================================================================
