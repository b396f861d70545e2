--------------------------- MODULE AuditTrailProofs ---------------------------
(***************************************************************************)
(* Proofs about AuditTrail, for any sets of callers, runs, tools, keys,    *)
(* bodies and inputs: the inductive invariant IInv, the properties it      *)
(* implies, and the refinement of AuditLedger.                             *)
(***************************************************************************)
EXTENDS AuditTrail, TLAPS

\* A caller's own fields after it returns.
LEMMA ReturnFields ==
  ASSUME TypeOK, NEW c \in Callers, Return(c)
  PROVE  /\ pc' = [pc EXCEPT ![c] = "idle"]
         /\ saved' = [saved EXCEPT ![c] = <<>>]
         /\ cur' = [cur EXCEPT ![c] = NoId]
         /\ Holds(c)' = {}
         /\ \A d \in Callers : d # c => Holds(d)' = Holds(d)
  BY DEF Return, Goto, Holds, TypeOK

\* The body being written belongs to the input.
LEMMA BodyInBodies ==
  ASSUME TypeOK, Progress, NEW c \in Callers,
         pc[c] \in {"create", "write", "insert", "remove"}
  PROVE  /\ input[c] \in Inputs
         /\ input[c].run \in Runs
         /\ Len(saved[c]) \in Nat
         /\ Body(c) \in Bodies
  <1>1. input[c] \in RecordInput
    BY InputsAssumption DEF Progress, CallerProgress
  <1>2. input[c].bodies \in Seq(Bodies)
    BY <1>1 DEF RecordInput
  <1>3. saved[c] \in Seq(Ids)
    BY DEF TypeOK
  <1>4. Len(saved[c]) + 1 \in 1..Len(input[c].bodies)
    BY <1>2, <1>3 DEF Progress, CallerProgress
  <1> QED
    BY <1>1, <1>2, <1>3, <1>4 DEF Body, RecordInput, Progress, CallerProgress

\* The row a caller is about to insert is well formed.
LEMMA NewRowInType ==
  ASSUME TypeOK, Progress, NEW c \in Callers, pc[c] = "record"
  PROVE  /\ NewRow(c) \in ToolCallRow
         /\ Len(saved[c]) >= 2
         /\ NewRow(c).evidence[1] = input[c].bodies[1]
         /\ NewRow(c).evidence[2] = input[c].bodies[2]
  <1>1. input[c] \in RecordInput /\ Len(input[c].bodies) >= 2
    BY InputsAssumption DEF Progress, CallerProgress
  <1>2. input[c].bodies \in Seq(Bodies) /\ saved[c] \in Seq(Ids)
    BY <1>1 DEF RecordInput, TypeOK
  <1>3. /\ 1 \in 1..Len(saved[c]) /\ 2 \in 1..Len(saved[c])
        /\ 1 \in 1..Len(input[c].bodies) /\ 2 \in 1..Len(input[c].bodies)
    BY <1>1, <1>2 DEF Progress, CallerProgress
  <1>4. /\ saved[c][1] \in Ids /\ saved[c][2] \in Ids
        /\ input[c].bodies[1] \in Bodies /\ input[c].bodies[2] \in Bodies
    BY <1>2, <1>3
  <1> QED
    BY <1>1, <1>3, <1>4 DEF NewRow, ToolCallRow, RecordInput, Progress, CallerProgress

\* Nothing is stored and nobody is at work at the start.
LEMMA InitIInv == Init => IInv
  BY DistinctAssumption
  DEF Init, IInv, TypeOK, NoSharedArtifacts, Drawn, Progress, CallerProgress, EvidenceIntact,
      RowsSound, Holds, Control

------------------------------------------------------------------------------
\* Every step keeps the types, given where the callers stand.
LEMMA TypeStep == IInv /\ [Next]_vars => TypeOK'
  <1> SUFFICES ASSUME IInv, [Next]_vars PROVE TypeOK'
    OBVIOUS
  <1>0. TypeOK /\ Progress
    BY DEF IInv
  <1> USE <1>0
  <1>1. ASSUME NEW c \in Callers, NEW in \in Inputs, BeginRecord(c, in) PROVE TypeOK'
    BY <1>1 DEF TypeOK, BeginRecord, Goto, store, Control
  <1>2. ASSUME NEW c \in Callers, NEW id \in Ids, CreateFile(c, id) PROVE TypeOK'
    BY <1>2 DEF TypeOK, CreateFile, Goto, Control
  <1>3. ASSUME NEW c \in Callers, CreateFileFails(c) PROVE TypeOK'
    BY <1>3 DEF TypeOK, CreateFileFails, Return, Goto, store, Control
  <1>4. ASSUME NEW c \in Callers, WriteFile(c) PROVE TypeOK'
    <2>1. Body(c) \in Bodies
      BY <1>4, BodyInBodies DEF WriteFile
    <2> QED
      BY <1>4, <2>1 DEF TypeOK, WriteFile, Goto, Control
  <1>5. ASSUME NEW c \in Callers, WriteFileFails(c) PROVE TypeOK'
    BY <1>5 DEF TypeOK, WriteFileFails, Goto, store, Control
  <1>6. ASSUME NEW c \in Callers, InsertArtifact(c) PROVE TypeOK'
    <2>1. Body(c) \in Bodies /\ input[c].run \in Runs
      BY <1>6, BodyInBodies DEF InsertArtifact
    <2>2. cur[c] \in Ids
      BY <1>6 DEF InsertArtifact, Progress, CallerProgress
    <2>3. artifacts' \in [Ids -> ArtifactRow \cup {NoRow}]
      BY <1>6, <2>1 DEF TypeOK, InsertArtifact, WithRow, ArtifactRow
    <2>4. saved' \in [Callers -> Seq(Ids)]
      BY <1>6, <2>2 DEF TypeOK, InsertArtifact
    <2> QED
      BY <1>6, <2>3, <2>4 DEF TypeOK, InsertArtifact, Goto, Control
  <1>7. ASSUME NEW c \in Callers, InsertArtifactFails(c) PROVE TypeOK'
    <2>1. Body(c) \in Bodies /\ input[c].run \in Runs
      BY <1>7, BodyInBodies DEF InsertArtifactFails
    <2>2. artifacts' \in [Ids -> ArtifactRow \cup {NoRow}]
      BY <1>7, <2>1 DEF TypeOK, InsertArtifactFails, WithRow, ArtifactRow
    <2> QED
      BY <1>7, <2>2 DEF TypeOK, InsertArtifactFails, Goto, Control
  <1>8. ASSUME NEW c \in Callers, RemoveFile(c) PROVE TypeOK'
    BY <1>8 DEF TypeOK, RemoveFile, Return, Goto, Control
  <1>9. ASSUME NEW c \in Callers, InsertToolCall(c) PROVE TypeOK'
    <2>1. NewRow(c) \in ToolCallRow
      BY <1>9, NewRowInType DEF InsertToolCall
    <2> QED
      BY <1>9, <2>1 DEF TypeOK, InsertToolCall, Return, Goto, Control
  <1>10. ASSUME NEW c \in Callers, InsertToolCallFails(c) PROVE TypeOK'
    <2>1. NewRow(c) \in ToolCallRow
      BY <1>10, NewRowInType DEF InsertToolCallFails
    <2> QED
      BY <1>10, <2>1 DEF TypeOK, InsertToolCallFails, Return, Goto, Control
  <1>11. CASE Crash
    BY <1>11 DEF TypeOK, Crash, store, Control
  <1>12. CASE UNCHANGED vars
    BY <1>12 DEF TypeOK, vars
  <1> QED
    BY <1>1, <1>2, <1>3, <1>4, <1>5, <1>6, <1>7, <1>8, <1>9, <1>10, <1>11, <1>12
    DEF Next, Step

------------------------------------------------------------------------------
(* Who owns which artifact. *)

\* A successful artifact insert moves the id at hand to the saved ones.
LEMMA InsertArtifactHolds ==
  ASSUME TypeOK, Progress, NEW c \in Callers, InsertArtifact(c)
  PROVE  /\ \A d \in Callers : Holds(d)' = Holds(d)
         /\ \A d \in Callers : d # c => saved'[d] = saved[d] /\ cur'[d] = cur[d]
         /\ saved'[c] = Append(saved[c], cur[c])
         /\ cur'[c] = NoId
         /\ cur[c] \in Ids
         /\ saved[c] \in Seq(Ids)
  <1>1. cur[c] \in Ids /\ cur[c] # NoId
    BY DistinctAssumption DEF InsertArtifact, Progress, CallerProgress
  <1>2. /\ saved' = [saved EXCEPT ![c] = Append(saved[c], cur[c])]
        /\ cur' = [cur EXCEPT ![c] = NoId]
    BY DEF InsertArtifact
  <1>3. saved[c] \in Seq(Ids)
    BY DEF TypeOK
  <1>4. /\ saved'[c] = Append(saved[c], cur[c]) /\ cur'[c] = NoId
        /\ \A d \in Callers : d # c => saved'[d] = saved[d] /\ cur'[d] = cur[d]
    BY <1>2 DEF TypeOK
  <1>5. Holds(c)' = Holds(c)
    <2>1. Len(saved'[c]) = Len(saved[c]) + 1 /\ Len(saved[c]) \in Nat
      BY <1>1, <1>3, <1>4
    <2>2. /\ \A i \in 1..Len(saved[c]) : saved'[c][i] = saved[c][i]
          /\ saved'[c][Len(saved[c]) + 1] = cur[c]
      BY <1>1, <1>3, <1>4
    <2> QED
      BY <1>1, <1>4, <2>1, <2>2 DEF Holds
  <1>6. ASSUME NEW d \in Callers PROVE Holds(d)' = Holds(d)
    <2>1. CASE d = c
      BY <1>5, <2>1
    <2>2. CASE d # c
      BY <1>4, <2>2 DEF Holds
    <2> QED
      BY <2>1, <2>2
  <1> QED
    BY <1>1, <1>3, <1>4, <1>6

\* Creating a file adds a fresh id to what the caller holds.
LEMMA CreateFileHolds ==
  ASSUME TypeOK, Progress, NEW c \in Callers, NEW id \in Ids, CreateFile(c, id)
  PROVE  /\ Holds(c)' = Holds(c) \cup {id}
         /\ \A d \in Callers : d # c => Holds(d)' = Holds(d)
         /\ cur[c] = NoId
         /\ cur' = [cur EXCEPT ![c] = id]
         /\ id \notin used
         /\ used' = used \cup {id}
         /\ UNCHANGED <<saved, toolCalls>>
  BY DistinctAssumption DEF TypeOK, Progress, CallerProgress, CreateFile, Holds

\* Ownership survives a step in which nobody comes to hold or name a new id.
LEMMA OwnershipFrame ==
  ASSUME IInv, UNCHANGED toolCalls, used \subseteq used',
         \A d \in Callers : Holds(d)' \subseteq Holds(d),
         \A d \in Callers : \A i \in 1..Len(saved'[d]) : saved'[d][i] # cur'[d]
  PROVE  NoSharedArtifacts' /\ Drawn'
  BY DEF IInv, NoSharedArtifacts, Drawn, Names

\* The ids of a new row are among those its caller held.
LEMMA NewRowNames ==
  ASSUME TypeOK, Progress, NEW c \in Callers, pc[c] = "record"
  PROVE  Names(NewRow(c)) \subseteq Holds(c)
  <1>1. saved[c] \in Seq(Ids) /\ Len(saved[c]) >= 2
    BY NewRowInType DEF TypeOK
  <1>2. 1 \in 1..Len(saved[c]) /\ 2 \in 1..Len(saved[c])
    BY <1>1
  <1> QED
    BY <1>2 DEF Names, NewRow, Holds

\* A call row inserted by a returning caller takes over the ids it held.
LEMMA OwnershipOfNewRow ==
  ASSUME IInv, NEW c \in Callers, pc[c] = "record", Return(c),
         toolCalls' = toolCalls \cup {NewRow(c)}, UNCHANGED used
  PROVE  NoSharedArtifacts' /\ Drawn'
  <1>1. /\ Holds(c)' = {}
        /\ saved' = [saved EXCEPT ![c] = <<>>]
        /\ cur' = [cur EXCEPT ![c] = NoId]
        /\ \A d \in Callers : d # c => Holds(d)' = Holds(d)
    BY ReturnFields DEF IInv
  <1>2. Names(NewRow(c)) \subseteq Holds(c)
    BY NewRowNames DEF IInv
  <1>3. \A t \in toolCalls : Names(t) \cap Names(NewRow(c)) = {}
    BY <1>2 DEF IInv, NoSharedArtifacts
  <1>4. \A d \in Callers : d # c => Names(NewRow(c)) \cap Holds(d) = {}
    BY <1>2 DEF IInv, NoSharedArtifacts
  <1>5. NoSharedArtifacts'
    <2>1. \A d, e \in Callers : d # e => Holds(d)' \cap Holds(e)' = {}
      BY <1>1 DEF IInv, NoSharedArtifacts
    <2>2. \A t \in toolCalls', d \in Callers : Names(t) \cap Holds(d)' = {}
      BY <1>1, <1>4 DEF IInv, NoSharedArtifacts
    <2>3. \A t, u \in toolCalls' : t # u => Names(t) \cap Names(u) = {}
      BY <1>3 DEF IInv, NoSharedArtifacts
    <2> QED
      BY <2>1, <2>2, <2>3 DEF NoSharedArtifacts, Names
  <1>6. Drawn'
    <2>1. \A d \in Callers : Holds(d)' \subseteq used'
      BY <1>1 DEF IInv, Drawn
    <2>2. \A d \in Callers : \A i \in 1..Len(saved'[d]) : saved'[d][i] # cur'[d]
      BY <1>1 DEF IInv, Drawn, TypeOK
    <2>3. \A t \in toolCalls' : Names(t) \subseteq used'
      BY <1>2 DEF IInv, Drawn
    <2> QED
      BY <2>1, <2>2, <2>3 DEF Drawn, Names
  <1> QED
    BY <1>5, <1>6

------------------------------------------------------------------------------
(* What a step leaves alone. *)

\* The id at hand belongs to one caller and to no row.
LEMMA CurIsOwned ==
  ASSUME IInv, NEW c \in Callers, pc[c] \in {"write", "insert", "remove"}
  PROVE  /\ cur[c] \in Ids
         /\ \A t \in toolCalls : cur[c] \notin Names(t)
         /\ \A d \in Callers : \A i \in 1..Len(saved[d]) : saved[d][i] # cur[c]
         /\ \A d \in Callers : d # c => cur[d] # cur[c]
  <1>1. cur[c] \in Ids
    BY DEF IInv, Progress, CallerProgress
  <1>2. cur[c] \in Holds(c)
    BY <1>1, DistinctAssumption DEF Holds
  <1>3. \A t \in toolCalls : cur[c] \notin Names(t)
    BY <1>2 DEF IInv, NoSharedArtifacts
  <1>4. ASSUME NEW d \in Callers, d # c
        PROVE  /\ \A i \in 1..Len(saved[d]) : saved[d][i] # cur[c]
               /\ cur[d] # cur[c]
    <2>1. cur[c] \notin Holds(d)
      BY <1>2, <1>4 DEF IInv, NoSharedArtifacts
    <2> QED
      BY <1>1, <2>1, DistinctAssumption DEF Holds
  <1>5. \A i \in 1..Len(saved[c]) : saved[c][i] # cur[c]
    BY DEF IInv, Drawn
  <1> QED
    BY <1>1, <1>3, <1>4, <1>5

\* An id not yet drawn belongs to nobody.
LEMMA FreshIsUnowned ==
  ASSUME IInv, NEW id \in Ids, id \notin used
  PROVE  /\ \A t \in toolCalls : id \notin Names(t)
         /\ \A d \in Callers : \A i \in 1..Len(saved[d]) : saved[d][i] # id
         /\ \A d \in Callers : cur[d] # id
  BY DistinctAssumption DEF IInv, Drawn, Holds

\* A step that touches the file and row of an unnamed id only keeps the evidence.
LEMMA EvidenceFrame ==
  ASSUME IInv, UNCHANGED toolCalls, NEW x,
         \A t \in toolCalls : x \notin Names(t),
         \A i \in Ids : i # x => files'[i] = files[i] /\ artifacts'[i] = artifacts[i]
  PROVE  EvidenceIntact'
  <1> SUFFICES ASSUME NEW t \in toolCalls
               PROVE  /\ Intact(t.request, t.run, t.evidence[1])'
                      /\ Intact(t.response, t.run, t.evidence[2])'
    BY DEF EvidenceIntact
  <1>1. t.request \in Ids /\ t.response \in Ids
    BY DEF IInv, TypeOK, ToolCallRow
  <1>2. t.request # x /\ t.response # x
    BY DEF Names
  <1> QED
    BY <1>1, <1>2 DEF IInv, EvidenceIntact, Intact

\* A caller whose fields do not change stays where it was, when the step touches
\* the file and row of an id it does not hold.
LEMMA ProgressFrame ==
  ASSUME IInv, NEW d \in Callers, NEW x,
         UNCHANGED <<pc[d], input[d], saved[d], cur[d]>>,
         \A i \in 1..Len(saved[d]) : saved[d][i] # x,
         cur[d] # x,
         \A i \in Ids : i # x => files'[i] = files[i] /\ artifacts'[i] = artifacts[i]
  PROVE  CallerProgress(d)'
  <1>1. CallerProgress(d) /\ saved[d] \in Seq(Ids)
    BY DEF IInv, Progress, TypeOK
  <1>2. \A i \in 1..Len(saved[d]) : saved[d][i] \in Ids
    BY <1>1
  <1>3. Body(d)' = Body(d)
    BY DEF Body
  <1>4. pc[d] = "insert" => files'[cur[d]] = files[cur[d]]
    BY <1>1 DEF CallerProgress
  <1>5. ASSUME NEW i \in 1..Len(saved[d])
        PROVE  Intact(saved[d][i], input[d].run, input[d].bodies[i])'
    BY <1>1, <1>2 DEF CallerProgress, Intact
  <1> QED
    BY <1>1, <1>3, <1>4, <1>5 DEF CallerProgress
------------------------------------------------------------------------------
(* One lemma per kind of step: everything of IInv but the types. *)

\* Steps that end Record without touching rows, files or what is named.
LEMMA QuietReturn ==
  ASSUME IInv, NEW c \in Callers, Return(c), NEW x,
         UNCHANGED <<toolCalls, returned, used>>,
         \A t \in toolCalls : x \notin Names(t),
         \A d \in Callers : \A i \in 1..Len(saved[d]) : saved[d][i] # x,
         \A d \in Callers : d # c => cur[d] # x,
         \A i \in Ids : i # x => files'[i] = files[i] /\ artifacts'[i] = artifacts[i]
  PROVE  NoSharedArtifacts' /\ Drawn' /\ Progress' /\ EvidenceIntact' /\ RowsSound'
  <1>0. TypeOK
    BY DEF IInv
  <1>1. /\ pc' = [pc EXCEPT ![c] = "idle"]
        /\ saved' = [saved EXCEPT ![c] = <<>>]
        /\ cur' = [cur EXCEPT ![c] = NoId]
        /\ input' = [input EXCEPT ![c] = NoInput]
        /\ Holds(c)' = {}
        /\ \A d \in Callers : d # c => Holds(d)' = Holds(d)
    BY <1>0, ReturnFields DEF Return
  <1>2. \A d \in Callers : Holds(d)' \subseteq Holds(d)
    BY <1>1
  <1>3. \A d \in Callers : \A i \in 1..Len(saved'[d]) : saved'[d][i] # cur'[d]
    BY <1>0, <1>1 DEF IInv, Drawn, TypeOK
  <1>4. NoSharedArtifacts' /\ Drawn'
    BY <1>2, <1>3, OwnershipFrame
  <1>5. ASSUME NEW d \in Callers PROVE CallerProgress(d)'
    <2>1. CASE d = c
      BY <1>0, <1>1, <2>1 DEF CallerProgress, TypeOK
    <2>2. CASE d # c
      <3>1. UNCHANGED <<pc[d], input[d], saved[d], cur[d]>>
        BY <1>0, <1>1, <2>2 DEF TypeOK
      <3> QED
        BY <2>2, <3>1, ProgressFrame
    <2> QED
      BY <2>1, <2>2
  <1>6. EvidenceIntact'
    BY EvidenceFrame
  <1>7. RowsSound'
    BY DEF IInv, RowsSound, Ledger!Clash
  <1> QED
    BY <1>4, <1>5, <1>6, <1>7 DEF Progress

\* Record takes its argument and touches nothing else (audit.go:49-56).
LEMMA BeginStep ==
  ASSUME IInv, NEW c \in Callers, NEW in \in Inputs, BeginRecord(c, in)
  PROVE  NoSharedArtifacts' /\ Drawn' /\ Progress' /\ EvidenceIntact' /\ RowsSound'
  <1>0. TypeOK
    BY DEF IInv
  <1>1. /\ UNCHANGED <<files, artifacts, toolCalls, returned, used, saved, cur>>
        /\ pc' = [pc EXCEPT ![c] = "create"]
        /\ input' = [input EXCEPT ![c] = in]
        /\ saved[c] = <<>> /\ cur[c] = NoId
    BY DEF BeginRecord, store, Goto, IInv, Progress, CallerProgress
  <1>2. NoSharedArtifacts' /\ Drawn'
    <2>1. \A d \in Callers : Holds(d)' \subseteq Holds(d)
      BY <1>1 DEF Holds
    <2>2. \A d \in Callers : \A i \in 1..Len(saved'[d]) : saved'[d][i] # cur'[d]
      BY <1>1 DEF IInv, Drawn
    <2> QED
      BY <1>1, <2>1, <2>2, OwnershipFrame
  <1>3. ASSUME NEW d \in Callers PROVE CallerProgress(d)'
    <2>1. CASE d = c
      <3>1. Len(in.bodies) >= 2 /\ in.bodies \in Seq(Bodies)
        BY InputsAssumption DEF RecordInput
      <3> QED
        BY <1>0, <1>1, <2>1, <3>1 DEF CallerProgress, TypeOK
    <2>2. CASE d # c
      <3>1. UNCHANGED <<pc[d], input[d], saved[d], cur[d]>>
        BY <1>0, <1>1, <2>2 DEF TypeOK
      <3>2. CallerProgress(d)
        BY DEF IInv, Progress
      <3> QED
        BY <1>1, <3>1, <3>2 DEF CallerProgress, Body, Intact
    <2> QED
      BY <2>1, <2>2
  <1>4. EvidenceIntact' /\ RowsSound'
    BY <1>1 DEF IInv, EvidenceIntact, RowsSound, Intact, Ledger!Clash
  <1> QED
    BY <1>2, <1>3, <1>4 DEF Progress

\* Creating the empty file disturbs no artifact that is held or named, for its
\* id is fresh (artifact.go:43-53).
LEMMA CreateFileStep ==
  ASSUME IInv, NEW c \in Callers, NEW id \in Ids, CreateFile(c, id)
  PROVE  NoSharedArtifacts' /\ Drawn' /\ Progress' /\ EvidenceIntact' /\ RowsSound'
  <1>0. TypeOK /\ Progress
    BY DEF IInv
  <1>1. /\ Holds(c)' = Holds(c) \cup {id}
        /\ \A d \in Callers : d # c => Holds(d)' = Holds(d)
        /\ cur[c] = NoId
        /\ cur' = [cur EXCEPT ![c] = id]
        /\ id \notin used
        /\ used' = used \cup {id}
        /\ UNCHANGED <<saved, toolCalls>>
    BY <1>0, CreateFileHolds
  <1>2. /\ \A t \in toolCalls : id \notin Names(t)
        /\ \A d \in Callers : \A i \in 1..Len(saved[d]) : saved[d][i] # id
        /\ \A d \in Callers : cur[d] # id
    BY <1>1, FreshIsUnowned
  <1>3. /\ pc' = [pc EXCEPT ![c] = "write"] /\ pc[c] = "create"
        /\ files' = [files EXCEPT ![id] = Partial]
        /\ UNCHANGED <<artifacts, returned, input>>
    BY DEF CreateFile, Goto
  <1>4. NoSharedArtifacts'
    <2>1. \A d \in Callers : id \notin Holds(d)
      BY <1>1 DEF IInv, Drawn
    <2>2. \A d, e \in Callers : d # e => Holds(d)' \cap Holds(e)' = {}
      BY <1>1, <2>1 DEF IInv, NoSharedArtifacts
    <2>3. \A t \in toolCalls, d \in Callers : Names(t) \cap Holds(d)' = {}
      BY <1>1, <1>2 DEF IInv, NoSharedArtifacts
    <2> QED
      BY <1>1, <2>2, <2>3 DEF IInv, NoSharedArtifacts, Names
  <1>5. Drawn'
    <2>1. \A d \in Callers : Holds(d)' \subseteq used'
      BY <1>1 DEF IInv, Drawn
    <2>2. \A d \in Callers : \A i \in 1..Len(saved[d]) : saved[d][i] # cur'[d]
      BY <1>0, <1>1, <1>2 DEF IInv, Drawn, TypeOK
    <2> QED
      BY <1>1, <2>1, <2>2 DEF IInv, Drawn, Names
  <1>6. \A i \in Ids : i # id => files'[i] = files[i] /\ artifacts'[i] = artifacts[i]
    BY <1>0, <1>3 DEF TypeOK
  <1>7. ASSUME NEW d \in Callers PROVE CallerProgress(d)'
    <2>1. CASE d = c
      <3>1. CallerProgress(c) /\ saved[c] \in Seq(Ids)
        BY <1>0 DEF Progress, TypeOK
      <3>2. \A i \in 1..Len(saved[c]) : saved[c][i] \in Ids
        BY <3>1
      <3>3. /\ pc'[c] = "write" /\ cur'[c] = id
            /\ saved'[c] = saved[c] /\ input'[c] = input[c]
        BY <1>0, <1>1, <1>3 DEF TypeOK
      <3>4. ASSUME NEW i \in 1..Len(saved[c])
            PROVE  Intact(saved[c][i], input[c].run, input[c].bodies[i])'
        BY <1>2, <1>6, <3>1, <3>2, <3>3 DEF CallerProgress, Intact
      <3>5. CallerProgress(c)'
        BY <1>3, <3>1, <3>3, <3>4 DEF CallerProgress
      <3> QED
        BY <2>1, <3>5
    <2>2. CASE d # c
      <3>1. UNCHANGED <<pc[d], input[d], saved[d], cur[d]>>
        BY <1>0, <1>1, <1>3, <2>2 DEF TypeOK
      <3> QED
        BY <1>2, <1>6, <3>1, ProgressFrame
    <2> QED
      BY <2>1, <2>2
  <1>8. EvidenceIntact'
    BY <1>1, <1>2, <1>6, EvidenceFrame
  <1>9. RowsSound'
    BY <1>1, <1>3 DEF IInv, RowsSound, Ledger!Clash
  <1> QED
    BY <1>4, <1>5, <1>7, <1>8, <1>9 DEF Progress

\* Writing the body touches the file of the id at hand only (artifact.go:55-65).
LEMMA WriteFileStep ==
  ASSUME IInv, NEW c \in Callers, WriteFile(c) \/ WriteFileFails(c)
  PROVE  NoSharedArtifacts' /\ Drawn' /\ Progress' /\ EvidenceIntact' /\ RowsSound'
  <1>0. TypeOK /\ Progress /\ pc[c] = "write"
    BY DEF IInv, WriteFile, WriteFileFails
  <1>1. /\ cur[c] \in Ids
        /\ \A t \in toolCalls : cur[c] \notin Names(t)
        /\ \A d \in Callers : \A i \in 1..Len(saved[d]) : saved[d][i] # cur[c]
        /\ \A d \in Callers : d # c => cur[d] # cur[c]
    BY <1>0, CurIsOwned
  <1>2. UNCHANGED <<artifacts, toolCalls, returned, used, input, saved, cur>>
    BY DEF WriteFile, WriteFileFails, store
  <1>3. \/ /\ pc' = [pc EXCEPT ![c] = "insert"]
           /\ files' = [files EXCEPT ![cur[c]] = Body(c)]
        \/ /\ pc' = [pc EXCEPT ![c] = "remove"]
           /\ UNCHANGED files
    BY DEF WriteFile, WriteFileFails, Goto, store
  <1>4. \A i \in Ids : i # cur[c] => files'[i] = files[i] /\ artifacts'[i] = artifacts[i]
    BY <1>0, <1>1, <1>2, <1>3 DEF TypeOK
  <1>5. NoSharedArtifacts' /\ Drawn'
    <2>1. \A d \in Callers : Holds(d)' \subseteq Holds(d)
      BY <1>2 DEF Holds
    <2>2. \A d \in Callers : \A i \in 1..Len(saved'[d]) : saved'[d][i] # cur'[d]
      BY <1>2 DEF IInv, Drawn
    <2> QED
      BY <1>2, <2>1, <2>2, OwnershipFrame
  <1>6. ASSUME NEW d \in Callers PROVE CallerProgress(d)'
    <2>1. CASE d = c
      <3>1. CallerProgress(c) /\ saved[c] \in Seq(Ids)
        BY <1>0 DEF Progress, TypeOK
      <3>2. \A i \in 1..Len(saved[c]) : saved[c][i] \in Ids
        BY <3>1
      <3>3. ASSUME NEW i \in 1..Len(saved[c])
            PROVE  Intact(saved[c][i], input[c].run, input[c].bodies[i])'
        BY <1>1, <1>2, <1>4, <3>1, <3>2 DEF CallerProgress, Intact
      <3>4. Body(c)' = Body(c)
        BY <1>2 DEF Body
      <3>5. \/ pc'[c] = "insert" /\ files'[cur[c]] = Body(c)
            \/ pc'[c] = "remove"
        BY <1>0, <1>1, <1>3 DEF TypeOK
      <3>6. CallerProgress(c)'
        BY <1>0, <1>1, <1>2, <3>1, <3>3, <3>4, <3>5 DEF CallerProgress
      <3> QED
        BY <2>1, <3>6
    <2>2. CASE d # c
      <3>1. UNCHANGED <<pc[d], input[d], saved[d], cur[d]>>
        BY <1>0, <1>2, <1>3, <2>2 DEF TypeOK
      <3> QED
        BY <1>1, <1>4, <2>2, <3>1, ProgressFrame
    <2> QED
      BY <2>1, <2>2
  <1>7. EvidenceIntact'
    BY <1>1, <1>2, <1>4, EvidenceFrame
  <1>8. RowsSound'
    BY <1>2 DEF IInv, RowsSound, Ledger!Clash
  <1> QED
    BY <1>5, <1>6, <1>7, <1>8 DEF Progress

\* An inserted artifact is intact, and goes from the one at hand to those saved
\* (artifact.go:67-82).
LEMMA InsertArtifactStep ==
  ASSUME IInv, NEW c \in Callers, InsertArtifact(c)
  PROVE  NoSharedArtifacts' /\ Drawn' /\ Progress' /\ EvidenceIntact' /\ RowsSound'
  <1>0. TypeOK /\ Progress /\ pc[c] = "insert"
    BY DEF IInv, InsertArtifact
  <1>1. /\ cur[c] \in Ids
        /\ \A t \in toolCalls : cur[c] \notin Names(t)
        /\ \A d \in Callers : \A i \in 1..Len(saved[d]) : saved[d][i] # cur[c]
        /\ \A d \in Callers : d # c => cur[d] # cur[c]
    BY <1>0, CurIsOwned
  <1>2. /\ \A d \in Callers : Holds(d)' = Holds(d)
        /\ \A d \in Callers : d # c => saved'[d] = saved[d] /\ cur'[d] = cur[d]
        /\ saved'[c] = Append(saved[c], cur[c])
        /\ cur'[c] = NoId
        /\ saved[c] \in Seq(Ids)
    BY <1>0, InsertArtifactHolds
  <1>3. /\ UNCHANGED <<files, toolCalls, returned, used, input>>
        /\ artifacts' = [artifacts EXCEPT ![cur[c]] = [run |-> input[c].run, sha |-> Body(c)]]
        /\ pc' = [pc EXCEPT ![c] =
                    IF Len(saved[c]) + 1 = Len(input[c].bodies) THEN "record" ELSE "create"]
    BY DEF InsertArtifact, WithRow, Goto
  <1>4. \A i \in Ids : i # cur[c] => files'[i] = files[i] /\ artifacts'[i] = artifacts[i]
    BY <1>0, <1>1, <1>3 DEF TypeOK
  <1>5. /\ Len(saved[c]) \in Nat /\ Len(saved'[c]) = Len(saved[c]) + 1
        /\ \A i \in 1..Len(saved[c]) : saved'[c][i] = saved[c][i] /\ saved[c][i] \in Ids
        /\ saved'[c][Len(saved[c]) + 1] = cur[c]
    BY <1>1, <1>2
  <1>6. NoSharedArtifacts' /\ Drawn'
    <2>1. \A i \in 1..Len(saved'[c]) : saved'[c][i] \in Ids
      BY <1>1, <1>5
    <2>2. \A d \in Callers : \A i \in 1..Len(saved'[d]) : saved'[d][i] # cur'[d]
      BY <1>2, <2>1, DistinctAssumption DEF IInv, Drawn
    <2> QED
      BY <1>2, <1>3, <2>2, OwnershipFrame
  <1>7. ASSUME NEW d \in Callers PROVE CallerProgress(d)'
    <2>1. CASE d = c
      <3>1. CallerProgress(c) /\ input[c] \in Inputs
        BY <1>0 DEF Progress, CallerProgress
      <3>2. Len(input[c].bodies) \in Nat
        BY <3>1, InputsAssumption DEF RecordInput
      <3>3. /\ files'[cur[c]] = Body(c)
            /\ artifacts'[cur[c]] = [run |-> input[c].run, sha |-> Body(c)]
        BY <1>0, <1>1, <1>3, <3>1 DEF CallerProgress, TypeOK
      <3>4. ASSUME NEW i \in 1..Len(saved'[c])
            PROVE  Intact(saved[c][i], input[c].run, input[c].bodies[i])'
        <4>1. CASE i = Len(saved[c]) + 1
          BY <1>3, <1>5, <3>3, <4>1 DEF Intact, Body
        <4>2. CASE i \in 1..Len(saved[c])
          <5>1. saved'[c][i] = saved[c][i] /\ saved[c][i] \in Ids /\ saved[c][i] # cur[c]
            BY <1>1, <1>5, <4>2
          <5>2. Intact(saved[c][i], input[c].run, input[c].bodies[i])
            BY <3>1, <4>2 DEF CallerProgress
          <5>3. /\ files'[saved[c][i]] = files[saved[c][i]]
                /\ artifacts'[saved[c][i]] = artifacts[saved[c][i]]
            BY <1>4, <5>1
          <5> QED
            BY <1>3, <5>1, <5>2, <5>3 DEF Intact
        <4> QED
          BY <1>5, <4>1, <4>2
      <3>5. /\ pc'[c] \in {"create", "record"}
            /\ pc'[c] = "record" => Len(saved'[c]) = Len(input[c].bodies)
            /\ pc'[c] = "create" => Len(saved'[c]) < Len(input[c].bodies)
        BY <1>0, <1>3, <1>5, <3>1, <3>2 DEF CallerProgress, TypeOK
      <3>6. CallerProgress(c)'
        BY <1>2, <1>3, <3>1, <3>4, <3>5 DEF CallerProgress
      <3> QED
        BY <2>1, <3>6
    <2>2. CASE d # c
      <3>1. UNCHANGED <<pc[d], input[d], saved[d], cur[d]>>
        BY <1>0, <1>2, <1>3, <2>2 DEF TypeOK
      <3> QED
        BY <1>1, <1>4, <2>2, <3>1, ProgressFrame
    <2> QED
      BY <2>1, <2>2
  <1>8. EvidenceIntact'
    BY <1>1, <1>3, <1>4, EvidenceFrame
  <1>9. RowsSound'
    BY <1>3 DEF IInv, RowsSound, Ledger!Clash
  <1> QED
    BY <1>6, <1>7, <1>8, <1>9 DEF Progress

\* A failed insert touches the row of the id at hand only (artifact.go:77-80).
LEMMA InsertArtifactFailsStep ==
  ASSUME IInv, NEW c \in Callers, InsertArtifactFails(c)
  PROVE  NoSharedArtifacts' /\ Drawn' /\ Progress' /\ EvidenceIntact' /\ RowsSound'
  <1>0. TypeOK /\ Progress /\ pc[c] = "insert"
    BY DEF IInv, InsertArtifactFails
  <1>1. /\ cur[c] \in Ids
        /\ \A t \in toolCalls : cur[c] \notin Names(t)
        /\ \A d \in Callers : \A i \in 1..Len(saved[d]) : saved[d][i] # cur[c]
        /\ \A d \in Callers : d # c => cur[d] # cur[c]
    BY <1>0, CurIsOwned
  <1>2. /\ UNCHANGED <<files, toolCalls, returned, used, input, saved, cur>>
        /\ pc' = [pc EXCEPT ![c] = "remove"]
    BY DEF InsertArtifactFails, Goto
  <1>3. \A i \in Ids : i # cur[c] => files'[i] = files[i] /\ artifacts'[i] = artifacts[i]
    BY <1>0, <1>1 DEF InsertArtifactFails, WithRow, TypeOK
  <1>4. NoSharedArtifacts' /\ Drawn'
    <2>1. \A d \in Callers : Holds(d)' \subseteq Holds(d)
      BY <1>2 DEF Holds
    <2>2. \A d \in Callers : \A i \in 1..Len(saved'[d]) : saved'[d][i] # cur'[d]
      BY <1>2 DEF IInv, Drawn
    <2> QED
      BY <1>2, <2>1, <2>2, OwnershipFrame
  <1>5. ASSUME NEW d \in Callers PROVE CallerProgress(d)'
    <2>1. CASE d = c
      <3>1. CallerProgress(c) /\ saved[c] \in Seq(Ids)
        BY <1>0 DEF Progress, TypeOK
      <3>2. \A i \in 1..Len(saved[c]) : saved[c][i] \in Ids
        BY <3>1
      <3>3. ASSUME NEW i \in 1..Len(saved[c])
            PROVE  Intact(saved[c][i], input[c].run, input[c].bodies[i])'
        BY <1>1, <1>2, <1>3, <3>1, <3>2 DEF CallerProgress, Intact
      <3>4. pc'[c] = "remove"
        BY <1>0, <1>2 DEF TypeOK
      <3>5. CallerProgress(c)'
        BY <1>0, <1>2, <3>1, <3>3, <3>4 DEF CallerProgress
      <3> QED
        BY <2>1, <3>5
    <2>2. CASE d # c
      <3>1. UNCHANGED <<pc[d], input[d], saved[d], cur[d]>>
        BY <1>0, <1>2, <2>2 DEF TypeOK
      <3> QED
        BY <1>1, <1>3, <2>2, <3>1, ProgressFrame
    <2> QED
      BY <2>1, <2>2
  <1>6. EvidenceIntact'
    BY <1>1, <1>2, <1>3, EvidenceFrame
  <1>7. RowsSound'
    BY <1>2 DEF IInv, RowsSound, Ledger!Clash
  <1> QED
    BY <1>4, <1>5, <1>6, <1>7 DEF Progress

\* The three ways Record returns without a row.
LEMMA CreateFileFailsStep ==
  ASSUME IInv, NEW c \in Callers, CreateFileFails(c)
  PROVE  NoSharedArtifacts' /\ Drawn' /\ Progress' /\ EvidenceIntact' /\ RowsSound'
  <1>1. UNCHANGED <<files, artifacts, toolCalls, returned, used>> /\ Return(c)
    BY DEF CreateFileFails, store
  <1>2. PICK x : x \notin Ids \cup {NoId}
    <2>1. \E x : x \notin Ids \cup {NoId}
      BY NoSetContainsEverything
    <2> QED
      BY <2>1
  <1>3. /\ \A t \in toolCalls : x \notin Names(t)
        /\ \A d \in Callers : \A i \in 1..Len(saved[d]) : saved[d][i] # x
        /\ \A d \in Callers : d # c => cur[d] # x
    BY <1>2 DEF IInv, TypeOK, Names, ToolCallRow
  <1>4. \A i \in Ids : i # x => files'[i] = files[i] /\ artifacts'[i] = artifacts[i]
    BY <1>1
  <1>5. UNCHANGED <<toolCalls, returned, used>>
    BY <1>1
  <1> QED
    BY <1>1, <1>3, <1>4, <1>5, QuietReturn

\* Removing the file of a failed Save reaches no recorded file (artifact.go:62-80).
LEMMA RemoveFileStep ==
  ASSUME IInv, NEW c \in Callers, RemoveFile(c)
  PROVE  NoSharedArtifacts' /\ Drawn' /\ Progress' /\ EvidenceIntact' /\ RowsSound'
  <1>1. PICK x : x = cur[c]
    OBVIOUS
  <1>2. /\ x \in Ids
        /\ \A t \in toolCalls : x \notin Names(t)
        /\ \A d \in Callers : \A i \in 1..Len(saved[d]) : saved[d][i] # x
        /\ \A d \in Callers : d # c => cur[d] # x
    BY <1>1, CurIsOwned DEF RemoveFile
  <1>3. \A i \in Ids : i # x => files'[i] = files[i] /\ artifacts'[i] = artifacts[i]
    BY <1>1, <1>2 DEF RemoveFile, IInv, TypeOK
  <1>4. UNCHANGED <<toolCalls, returned, used>> /\ Return(c)
    BY DEF RemoveFile
  <1> QED
    BY <1>2, <1>3, <1>4, QuietReturn

------------------------------------------------------------------------------
(* The INSERT of the tool call row. *)

\* A new row is auditable, for its caller's artifacts are in order.
LEMMA NewRowIntact ==
  ASSUME IInv, NEW c \in Callers, pc[c] = "record"
  PROVE  LET t == NewRow(c) IN
         /\ Intact(t.request, t.run, t.evidence[1])
         /\ Intact(t.response, t.run, t.evidence[2])
  <1>1. /\ CallerProgress(c)
        /\ Len(saved[c]) >= 2 /\ saved[c] \in Seq(Ids)
    BY NewRowInType DEF IInv, Progress, TypeOK
  <1>2. 1 \in 1..Len(saved[c]) /\ 2 \in 1..Len(saved[c])
    BY <1>1
  <1>3. /\ Intact(saved[c][1], input[c].run, input[c].bodies[1])
        /\ Intact(saved[c][2], input[c].run, input[c].bodies[2])
    BY <1>1, <1>2 DEF CallerProgress
  <1> QED
    BY <1>3 DEF NewRow

\* Inserting the row, whether or not Record learns of it.
LEMMA NewRowStep ==
  ASSUME IInv, NEW c \in Callers, pc[c] = "record", Return(c), Insertable(NewRow(c)),
         toolCalls' = toolCalls \cup {NewRow(c)},
         returned' \in {returned, returned \cup {NewRow(c)}},
         UNCHANGED <<files, artifacts, used>>
  PROVE  NoSharedArtifacts' /\ Drawn' /\ Progress' /\ EvidenceIntact' /\ RowsSound'
  <1>0. TypeOK /\ Progress
    BY DEF IInv
  <1>1. NoSharedArtifacts' /\ Drawn'
    BY OwnershipOfNewRow
  <1>2. ASSUME NEW d \in Callers PROVE CallerProgress(d)'
    <2>1. CASE d = c
      BY <1>0, <2>1 DEF Return, Goto, CallerProgress, TypeOK
    <2>2. CASE d # c
      <3>1. UNCHANGED <<pc[d], input[d], saved[d], cur[d]>>
        BY <1>0, <2>2 DEF TypeOK, Return, Goto
      <3>2. CallerProgress(d)
        BY <1>0 DEF Progress
      <3> QED
        BY <3>1, <3>2 DEF CallerProgress, Body, Intact
    <2> QED
      BY <2>1, <2>2
  <1>3. EvidenceIntact'
    BY NewRowIntact DEF IInv, EvidenceIntact, Intact
  <1>4. RowsSound'
    <2>1. \A u \in toolCalls : ~ Ledger!Clash(NewRow(c), u)
      BY DEF Insertable
    <2>2. \A u \in toolCalls : ~ Ledger!Clash(u, NewRow(c))
      BY <2>1 DEF Ledger!Clash
    <2>3. \A t, u \in toolCalls' : t # u => ~ Ledger!Clash(t, u)
      BY <2>1, <2>2 DEF IInv, RowsSound
    <2> QED
      BY <2>3 DEF IInv, RowsSound, Ledger!Clash
  <1> QED
    BY <1>1, <1>2, <1>3, <1>4 DEF Progress

\* A failed INSERT that left no row.
LEMMA NoRowStep ==
  ASSUME IInv, NEW c \in Callers, pc[c] = "record", Return(c),
         UNCHANGED <<files, artifacts, toolCalls, returned, used>>
  PROVE  NoSharedArtifacts' /\ Drawn' /\ Progress' /\ EvidenceIntact' /\ RowsSound'
  <1>1. PICK x : x \notin Ids \cup {NoId}
    <2>1. \E x : x \notin Ids \cup {NoId}
      BY NoSetContainsEverything
    <2> QED
      BY <2>1
  <1>2. /\ \A t \in toolCalls : x \notin Names(t)
        /\ \A d \in Callers : \A i \in 1..Len(saved[d]) : saved[d][i] # x
        /\ \A d \in Callers : d # c => cur[d] # x
    BY <1>1 DEF IInv, TypeOK, Names, ToolCallRow
  <1>3. \A i \in Ids : i # x => files'[i] = files[i] /\ artifacts'[i] = artifacts[i]
    OBVIOUS
  <1>4. UNCHANGED <<toolCalls, returned, used>>
    OBVIOUS
  <1> QED
    BY <1>2, <1>3, <1>4, QuietReturn

\* The INSERT that Record learns of (audit.go:117-121).
LEMMA InsertToolCallStep ==
  ASSUME IInv, NEW c \in Callers, InsertToolCall(c) \/ InsertToolCallFails(c)
  PROVE  NoSharedArtifacts' /\ Drawn' /\ Progress' /\ EvidenceIntact' /\ RowsSound'
  <1>1. CASE InsertToolCall(c)
    BY <1>1, NewRowStep DEF InsertToolCall
  <1>2. CASE InsertToolCallFails(c)
    BY <1>2, NewRowStep, NoRowStep DEF InsertToolCallFails
  <1> QED
    BY <1>1, <1>2

\* A crash drops every caller and keeps disk and database.
LEMMA CrashStep ==
  ASSUME IInv, Crash
  PROVE  NoSharedArtifacts' /\ Drawn' /\ Progress' /\ EvidenceIntact' /\ RowsSound'
  <1>1. /\ UNCHANGED <<files, artifacts, toolCalls, returned, used>>
        /\ pc' = [c \in Callers |-> "idle"]
        /\ saved' = [c \in Callers |-> <<>>]
        /\ cur' = [c \in Callers |-> NoId]
    BY DEF Crash, store
  <1>2. \A d \in Callers : Holds(d)' = {}
    BY <1>1 DEF Holds
  <1>3. NoSharedArtifacts' /\ Drawn'
    <2>1. \A d \in Callers : Holds(d)' \subseteq Holds(d)
      BY <1>2
    <2>2. \A d \in Callers : \A i \in 1..Len(saved'[d]) : saved'[d][i] # cur'[d]
      BY <1>1
    <2> QED
      BY <1>1, <2>1, <2>2, OwnershipFrame
  <1>4. Progress'
    BY <1>1 DEF Progress, CallerProgress
  <1>5. EvidenceIntact' /\ RowsSound'
    BY <1>1 DEF IInv, EvidenceIntact, RowsSound, Intact, Ledger!Clash
  <1> QED
    BY <1>3, <1>4, <1>5
------------------------------------------------------------------------------
(* The theorems. *)

\* The inductive invariant is inductive: one case per action.
LEMMA StepIInv == IInv /\ [Next]_vars => IInv'
  <1> SUFFICES ASSUME IInv, [Next]_vars PROVE IInv'
    OBVIOUS
  <1>1. TypeOK'
    BY TypeStep
  <1>2. ASSUME NEW c \in Callers, Step(c)
        PROVE  NoSharedArtifacts' /\ Drawn' /\ Progress' /\ EvidenceIntact' /\ RowsSound'
    BY <1>2, BeginStep, CreateFileStep, CreateFileFailsStep, WriteFileStep,
       InsertArtifactStep, InsertArtifactFailsStep, RemoveFileStep, InsertToolCallStep
    DEF Step
  <1>3. CASE UNCHANGED vars
    <2>1. NoSharedArtifacts' /\ Drawn'
      <3>1. \A d \in Callers : Holds(d)' \subseteq Holds(d)
        BY <1>3 DEF vars, Holds
      <3>2. \A d \in Callers : \A i \in 1..Len(saved'[d]) : saved'[d][i] # cur'[d]
        BY <1>3 DEF vars, IInv, Drawn
      <3> QED
        BY <1>3, <3>1, <3>2, OwnershipFrame DEF vars
    <2>2. Progress' /\ EvidenceIntact' /\ RowsSound'
      BY <1>3 DEF vars, IInv, Progress, CallerProgress, Body, EvidenceIntact,
                  RowsSound, Intact, Ledger!Clash
    <2> QED
      BY <1>1, <2>1, <2>2 DEF IInv
  <1> QED
    BY <1>1, <1>2, <1>3, CrashStep DEF Next, IInv

\* Record's steps keep the inductive invariant, for any number of concurrent
\* callers, failures and crashes (audit.go:49-122, artifact.go:42-82).
THEOREM Invariance == Spec => []IInv
  BY InitIInv, StepIInv, PTL DEF Spec

\* Every variable stays in its type.
THEOREM TypeCorrect == Spec => []TypeOK
  <1>1. IInv => TypeOK
    BY DEF IInv
  <1> QED
    BY Invariance, <1>1, PTL

\* Every tool call row can be audited, always: its artifacts are there, whole,
\* of its run, and hash to its evidence (audit.go:104-116).
THEOREM EvidenceSafe == Spec => []EvidenceIntact
  <1>1. IInv => EvidenceIntact
    BY DEF IInv
  <1> QED
    BY Invariance, <1>1, PTL

\* No artifact is shared between calls, so no clean-up can reach a recorded file.
THEOREM ArtifactsUnshared == Spec => []NoSharedArtifacts
  <1>1. IInv => NoSharedArtifacts
    BY DEF IInv
  <1> QED
    BY Invariance, <1>1, PTL

\* What a reader gets for a recorded row is what its call recorded.
LEMMA ReadsBack ==
  ASSUME IInv, NEW t \in toolCalls
  PROVE  /\ Read(t.request) = t.evidence[1] /\ t.evidence[1] \in Bodies
         /\ Read(t.response) = t.evidence[2] /\ t.evidence[2] \in Bodies
  <1>1. t \in ToolCallRow
    BY DEF IInv, TypeOK
  <1>2. t.evidence[1] \in Bodies /\ t.evidence[2] \in Bodies /\ t.run \in Runs
    BY <1>1 DEF ToolCallRow
  <1>3. /\ [run |-> t.run, sha |-> t.evidence[1]] # NoRow
        /\ [run |-> t.run, sha |-> t.evidence[2]] # NoRow
    BY <1>2, DistinctAssumption
  <1> QED
    BY <1>2, <1>3 DEF IInv, EvidenceIntact, Intact, Read

\* A replay finds one recorded success, reads its response and recognises its
\* request (audit.go:124-192).
THEOREM ReplaySafe == Spec => []ReplayFaithful
  <1>1. IInv => ReplayFaithful
    <2> SUFFICES ASSUME IInv, NEW t \in toolCalls, t.status = "ok", t.key # NoKey
                 PROVE  /\ ReplayResponse(t.run, t.tool, t.key) = {t.evidence[2]}
                        /\ \A req \in Bodies : RequestMatches(t, req) <=> req = t.evidence[1]
      BY DEF ReplayFaithful
    <2>1. OkRows(t.run, t.tool, t.key) = {t}
      BY DEF OkRows, IInv, RowsSound, Ledger!Clash
    <2> QED
      BY <2>1, ReadsBack DEF ReplayResponse, RequestMatches
  <1> QED
    BY Invariance, <1>1, PTL

------------------------------------------------------------------------------
(* Refinement of AuditLedger. *)

\* The entry of a recorded row, without reading the disk.
EntryOf(t) ==
  [id |-> t.request, run |-> t.run, tool |-> t.tool, key |-> t.key,
   status |-> t.status, request |-> t.evidence[1], response |-> t.evidence[2]]

\* An entry is what its row says, since the artifacts are read back as hashed.
LEMMA EntriesRead == IInv => \A t \in toolCalls : Entry(t) = EntryOf(t)
  BY ReadsBack DEF Entry, EntryOf

\* The ledger is a function of the rows alone, before and after a step.
LEMMA LedgerIsRows ==
  IInv => /\ {Entry(t) : t \in toolCalls} = {EntryOf(t) : t \in toolCalls}
          /\ {Entry(t) : t \in returned} = {EntryOf(t) : t \in returned}
  BY EntriesRead DEF IInv, RowsSound

\* Inserting a row commits its entry.
LEMMA NewRowCommits ==
  ASSUME IInv, IInv', NEW c \in Callers, pc[c] = "record", Insertable(NewRow(c)),
         toolCalls' = toolCalls \cup {NewRow(c)},
         returned' \in {returned, returned \cup {NewRow(c)}}
  PROVE  Ledger!Next
  <1> DEFINE row == NewRow(c)
             e == EntryOf(row)
  <1>1. row \in ToolCallRow /\ Names(row) \subseteq Holds(c)
    BY NewRowInType, NewRowNames DEF IInv
  <1>2. e \in Ledger!Entry
    BY <1>1 DEF Ledger!Entry, EntryOf, ToolCallRow
  <1>3. /\ {Entry(t) : t \in toolCalls} = {EntryOf(t) : t \in toolCalls}
        /\ {Entry(t) : t \in returned} = {EntryOf(t) : t \in returned}
    BY LedgerIsRows
  <1>4. /\ {Entry(t) : t \in toolCalls}' = {EntryOf(t) : t \in toolCalls'}
        /\ {Entry(t) : t \in returned}' = {EntryOf(t) : t \in returned'}
    <2>1. IInv' => ( /\ {Entry(t) : t \in toolCalls} = {EntryOf(t) : t \in toolCalls}
                     /\ {Entry(t) : t \in returned} = {EntryOf(t) : t \in returned} )'
      BY LedgerIsRows, PTL
    <2> QED
      BY <2>1 DEF EntryOf
  <1>5. ASSUME NEW t \in toolCalls
        PROVE  EntryOf(t).id # e.id /\ ~ Ledger!Clash(e, EntryOf(t))
    <2>1. Names(t) \cap Holds(c) = {}
      BY DEF IInv, NoSharedArtifacts
    <2>2. t.request # row.request
      BY <1>1, <2>1 DEF Names
    <2>3. ~ Ledger!Clash(row, t)
      BY DEF Insertable
    <2> QED
      BY <2>2, <2>3 DEF EntryOf, Ledger!Clash
  <1>6. Ledger!Commit(e)
    <2>1. \A f \in {Entry(t) : t \in toolCalls} : f.id # e.id /\ ~ Ledger!Clash(e, f)
      BY <1>3, <1>5
    <2>2. {Entry(t) : t \in toolCalls}' = {Entry(t) : t \in toolCalls} \cup {e}
      BY <1>3, <1>4
    <2>3. CASE returned' = returned
      <3>1. {Entry(t) : t \in returned}' = {Entry(t) : t \in returned}
        BY <1>3, <1>4, <2>3
      <3> QED
        BY <2>1, <2>2, <3>1 DEF Ledger!Commit
    <2>4. CASE returned' = returned \cup {row}
      <3>1. {Entry(t) : t \in returned}' = {Entry(t) : t \in returned} \cup {e}
        BY <1>3, <1>4, <2>4
      <3> QED
        BY <2>1, <2>2, <3>1 DEF Ledger!Commit
    <2> QED
      BY <2>3, <2>4
  <1> QED
    BY <1>2, <1>6 DEF Ledger!Next

\* Every step of the trail commits one entry to the ledger or leaves it alone.
LEMMA LedgerStep == IInv /\ IInv' /\ [Next]_vars => [Ledger!Next]_(Ledger!vars)
  <1> SUFFICES ASSUME IInv, IInv', [Next]_vars
               PROVE  [Ledger!Next]_(Ledger!vars)
    OBVIOUS
  <1>1. CASE UNCHANGED <<toolCalls, returned>>
    <2>1. IInv' => ( /\ {Entry(t) : t \in toolCalls} = {EntryOf(t) : t \in toolCalls}
                     /\ {Entry(t) : t \in returned} = {EntryOf(t) : t \in returned} )'
      BY LedgerIsRows, PTL
    <2>2. UNCHANGED Ledger!vars
      BY <1>1, <2>1, LedgerIsRows DEF Ledger!vars, EntryOf
    <2> QED
      BY <2>2
  <1>2. ASSUME NEW c \in Callers, Step(c), ~ UNCHANGED <<toolCalls, returned>>
        PROVE  Ledger!Next
    <2>1. InsertToolCall(c) \/ InsertToolCallFails(c)
      BY <1>2 DEF Step, BeginRecord, CreateFile, CreateFileFails, WriteFile,
         WriteFileFails, InsertArtifact, InsertArtifactFails, RemoveFile, store
    <2> QED
      BY <1>2, <2>1, NewRowCommits DEF InsertToolCall, InsertToolCallFails
  <1>3. Crash \/ UNCHANGED vars => UNCHANGED <<toolCalls, returned>>
    BY DEF Crash, store, vars
  <1> QED
    BY <1>1, <1>2, <1>3 DEF Next

\* The files and rows that Record writes step by step, read back, are an
\* append-only ledger with one success per key, and Record returns only entries
\* that are there (audit.go:49-122, migrations/001_init.sql:34-36).
THEOREM LedgerRefinement == Spec => ImplementsLedger
  <1>1. Init => Ledger!Init
    BY DEF Init, Ledger!Init
  <1> QED
    BY <1>1, Invariance, LedgerStep, PTL DEF Spec, Ledger!Spec, ImplementsLedger
==============================================================================
