------------------------------ MODULE AuditTrail ------------------------------
(***************************************************************************)
(* ArtifactStore.Save and AuditService.Record (internal/core/artifact.go,  *)
(* audit.go) as concurrent handlers run them: for the request, the         *)
(* response and each extra artifact a file is created, written and its row *)
(* inserted, then one tool_calls row ties request and response together.   *)
(* No transaction spans these steps.  Each may fail; an INSERT may commit  *)
(* and still report an error (connection lost, context cancelled); the     *)
(* process may stop between any two steps.                                 *)
(*                                                                         *)
(* A body stands for its bytes and for its SHA-256; evidence_hash, taken   *)
(* over the concatenated request and response, is the pair of the two.     *)
(***************************************************************************)
EXTENDS Naturals, Sequences

CONSTANTS Callers,            \* handler goroutines inside Record
          Ids,                \* artifact uuids; their number bounds the model
          Runs, Tools,
          AllowedTools,       \* the tool allowlist of Policy
          Keys, NoKey,        \* idempotency keys; NoKey: a NULL column
          Bodies,
          Inputs,             \* the RecordInputs handlers may pass
          NoFile, Partial, NoRow, NoId, NoInput

\* A RecordInput: bodies[1] is the request, bodies[2] the response, the rest
\* are the extra artifacts; ok says whether in.Err is nil.
RecordInput == [run : Runs, tool : Tools, key : Keys \cup {NoKey},
                ok : BOOLEAN, bodies : Seq(Bodies)]

ASSUME InputsAssumption ==
  /\ Inputs \subseteq RecordInput
  /\ \A in \in Inputs : Len(in.bodies) >= 2
ASSUME DistinctAssumption ==
  /\ NoKey \notin Keys /\ NoId \notin Ids /\ NoInput \notin Inputs
  /\ NoFile \notin Bodies /\ Partial \notin Bodies /\ NoFile # Partial
  /\ NoRow \notin [run : Runs, sha : Bodies]

VARIABLES
  files,      \* content of <baseDir>/<run>/<id> on disk
  artifacts,  \* table artifacts
  toolCalls,  \* table tool_calls
  returned,   \* history: the rows Record returned to its callers
  used,       \* uuids drawn so far
  pc, input, saved, cur  \* per caller: control, argument, ids saved, id at hand

store == <<files, artifacts, toolCalls, returned, used>>
vars  == <<files, artifacts, toolCalls, returned, used, pc, input, saved, cur>>

ArtifactRow == [run : Runs, sha : Bodies]
ToolCallRow == [run : Runs, tool : Tools, key : Keys \cup {NoKey},
                status : {"ok", "fail"}, request : Ids, response : Ids,
                evidence : Bodies \X Bodies]
Control == {"idle", "create", "write", "insert", "remove", "record"}

TypeOK ==
  /\ files \in [Ids -> Bodies \cup {NoFile, Partial}]
  /\ artifacts \in [Ids -> ArtifactRow \cup {NoRow}]
  /\ toolCalls \subseteq ToolCallRow
  /\ returned \subseteq ToolCallRow
  /\ used \subseteq Ids
  /\ pc \in [Callers -> Control]
  /\ input \in [Callers -> Inputs \cup {NoInput}]
  /\ saved \in [Callers -> Seq(Ids)]
  /\ cur \in [Callers -> Ids \cup {NoId}]

Init ==
  /\ files = [i \in Ids |-> NoFile]
  /\ artifacts = [i \in Ids |-> NoRow]
  /\ toolCalls = {} /\ returned = {} /\ used = {}
  /\ pc = [c \in Callers |-> "idle"]
  /\ input = [c \in Callers |-> NoInput]
  /\ saved = [c \in Callers |-> <<>>]
  /\ cur = [c \in Callers |-> NoId]

------------------------------------------------------------------------------
(* What an auditor reads back. *)

\* ArtifactStore.Read and ReadContentByRunAndID: the row, then the file.
Read(id) == IF artifacts[id] = NoRow THEN NoFile ELSE files[id]

\* A tool call as its reader sees it.
Entry(t) ==
  [id |-> t.request, run |-> t.run, tool |-> t.tool, key |-> t.key,
   status |-> t.status, request |-> Read(t.request), response |-> Read(t.response)]

Ledger == INSTANCE AuditLedger WITH
            CallIds <- Ids,
            ledger <- {Entry(t) : t \in toolCalls},
            returned <- {Entry(t) : t \in returned}

------------------------------------------------------------------------------
Goto(c, label) == pc' = [pc EXCEPT ![c] = label]

\* Record returns to its handler and its locals are gone.
Return(c) ==
  /\ Goto(c, "idle")
  /\ input' = [input EXCEPT ![c] = NoInput]
  /\ saved' = [saved EXCEPT ![c] = <<>>]
  /\ cur' = [cur EXCEPT ![c] = NoId]

\* The body the Save at hand writes.
Body(c) == input[c].bodies[Len(saved[c]) + 1]

\* Record is called and the tool is on the allowlist; a refused tool leaves
\* nothing behind.
BeginRecord(c, in) ==
  /\ pc[c] = "idle"
  /\ in.tool \in AllowedTools
  /\ Goto(c, "create")
  /\ input' = [input EXCEPT ![c] = in]
  /\ UNCHANGED <<store, saved, cur>>

\* Mutant of CreateFile: artifact names that may have been given before.
CreateFileAnyName(c, id) ==
  /\ pc[c] = "create"
  /\ used' = used \cup {id}
  /\ files' = [files EXCEPT ![id] = Partial]
  /\ cur' = [cur EXCEPT ![c] = id]
  /\ Goto(c, "write")
  /\ UNCHANGED <<artifacts, toolCalls, returned, input, saved>>

\* Save: a new uuid, MkdirAll and os.Create, which leave an empty file.
CreateFile(c, id) ==
  /\ pc[c] = "create"
  /\ id \notin used
  /\ used' = used \cup {id}
  /\ files' = [files EXCEPT ![id] = Partial]
  /\ cur' = [cur EXCEPT ![c] = id]
  /\ Goto(c, "write")
  /\ UNCHANGED <<artifacts, toolCalls, returned, input, saved>>

\* MkdirAll or os.Create fails (or a body cannot be marshalled): Record returns
\* the error and the artifacts saved before stay.
CreateFileFails(c) ==
  /\ pc[c] = "create"
  /\ Return(c)
  /\ UNCHANGED store

\* io.Copy and Close succeed.
WriteFile(c) ==
  /\ pc[c] = "write"
  /\ files' = [files EXCEPT ![cur[c]] = Body(c)]
  /\ Goto(c, "insert")
  /\ UNCHANGED <<artifacts, toolCalls, returned, used, input, saved, cur>>

\* Mutant of WriteFileFails: a short write is not noticed.
WriteFileFailsUnnoticed(c) ==
  /\ pc[c] = "write"
  /\ Goto(c, "insert")
  /\ UNCHANGED <<store, input, saved, cur>>

WriteFileFails(c) ==
  /\ pc[c] = "write"
  /\ Goto(c, "remove")
  /\ UNCHANGED <<store, input, saved, cur>>

\* Mutant of WithRow: the hash is taken of a reader already read to its end.
WithRowUnhashed(c) ==
  [artifacts EXCEPT ![cur[c]] = [run |-> input[c].run, sha |-> NoFile]]

WithRow(c) ==
  [artifacts EXCEPT ![cur[c]] = [run |-> input[c].run, sha |-> Body(c)]]

\* InsertArtifact succeeds; Record goes on to its next artifact or to the row.
InsertArtifact(c) ==
  /\ pc[c] = "insert"
  /\ artifacts' = WithRow(c)
  /\ saved' = [saved EXCEPT ![c] = Append(@, cur[c])]
  /\ cur' = [cur EXCEPT ![c] = NoId]
  /\ Goto(c, IF Len(saved[c]) + 1 = Len(input[c].bodies) THEN "record" ELSE "create")
  /\ UNCHANGED <<files, toolCalls, returned, used, input>>

\* InsertArtifact reports an error, whether or not the row was committed.
InsertArtifactFails(c) ==
  /\ pc[c] = "insert"
  /\ artifacts' \in {artifacts, WithRow(c)}
  /\ Goto(c, "remove")
  /\ UNCHANGED <<files, toolCalls, returned, used, input, saved, cur>>

\* os.Remove after a failed write or insert; its own error is ignored.
RemoveFile(c) ==
  /\ pc[c] = "remove"
  /\ files' \in {files, [files EXCEPT ![cur[c]] = NoFile]}
  /\ Return(c)
  /\ UNCHANGED <<artifacts, toolCalls, returned, used>>

NewRow(c) ==
  LET in == input[c] IN
  [run |-> in.run, tool |-> in.tool, key |-> in.key,
   status |-> IF in.ok THEN "ok" ELSE "fail",
   request |-> saved[c][1], response |-> saved[c][2],
   evidence |-> <<in.bodies[1], in.bodies[2]>>]

\* Mutant of Insertable: no unique index.
InsertableAlways(t) == TRUE

\* What the database checks on INSERT INTO tool_calls: the foreign keys to the
\* artifacts and the unique index.
Insertable(t) ==
  /\ artifacts[t.request] # NoRow /\ artifacts[t.response] # NoRow
  /\ \A u \in toolCalls : ~ Ledger!Clash(t, u)

InsertToolCall(c) ==
  /\ pc[c] = "record"
  /\ Insertable(NewRow(c))
  /\ toolCalls' = toolCalls \cup {NewRow(c)}
  /\ returned' = returned \cup {NewRow(c)}
  /\ Return(c)
  /\ UNCHANGED <<files, artifacts, used>>

\* Mutant of InsertToolCallFails: the row is returned with the error.
InsertToolCallFailsReturns(c) ==
  /\ pc[c] = "record"
  /\ returned' = returned \cup {NewRow(c)}
  /\ Return(c)
  /\ UNCHANGED <<files, artifacts, toolCalls, used>>

\* The INSERT reports an error: refused by the index, lost on the way to the
\* database, or lost on the way back, after the commit.
InsertToolCallFails(c) ==
  /\ pc[c] = "record"
  /\ \/ UNCHANGED toolCalls
     \/ Insertable(NewRow(c)) /\ toolCalls' = toolCalls \cup {NewRow(c)}
  /\ Return(c)
  /\ UNCHANGED <<files, artifacts, returned, used>>

\* The process stops; what is on disk and in the database stays.
Crash ==
  /\ \E c \in Callers : pc[c] # "idle"
  /\ pc' = [c \in Callers |-> "idle"]
  /\ input' = [c \in Callers |-> NoInput]
  /\ saved' = [c \in Callers |-> <<>>]
  /\ cur' = [c \in Callers |-> NoId]
  /\ UNCHANGED store

Step(c) ==
  \/ \E in \in Inputs : BeginRecord(c, in)
  \/ \E id \in Ids : CreateFile(c, id)
  \/ CreateFileFails(c)
  \/ WriteFile(c)
  \/ WriteFileFails(c)
  \/ InsertArtifact(c)
  \/ InsertArtifactFails(c)
  \/ RemoveFile(c)
  \/ InsertToolCall(c)
  \/ InsertToolCallFails(c)

Next == (\E c \in Callers : Step(c)) \/ Crash

Spec == Init /\ [][Next]_vars

------------------------------------------------------------------------------
(* Reading the trail back. *)

OkRows(run, tool, key) ==
  {t \in toolCalls : t.run = run /\ t.tool = tool /\ t.key = key /\ t.status = "ok"}

\* ReplayResponse: the response of the ok row, Partial when it cannot be read
\* back, NoFile when there is no row.  With two rows either may be the latest.
ReplayResponse(run, tool, key) ==
  IF OkRows(run, tool, key) = {} THEN {NoFile}
  ELSE {IF Read(t.response) \in Bodies THEN Read(t.response) ELSE Partial :
          t \in OkRows(run, tool, key)}

\* ReplayResponseWithRequestCheck answers "conflict" when the stored request
\* differs from the one at hand.
RequestMatches(t, req) == Read(t.request) = req

------------------------------------------------------------------------------
(* Properties. *)

\* Artifact id of run holds body: row present, its sha256 right, file whole.
Intact(id, run, body) ==
  /\ artifacts[id] = [run |-> run, sha |-> body]
  /\ files[id] = body

\* Every tool call row can be audited: both artifacts it names have a row of
\* the same run and a whole file, and evidence_hash recomputed from the two
\* files is the one stored (audit.go:104-116), whatever failed elsewhere.
EvidenceIntact ==
  \A t \in toolCalls :
    /\ Intact(t.request, t.run, t.evidence[1])
    /\ Intact(t.response, t.run, t.evidence[2])

\* A replay of a recorded success is unambiguous and readable: it answers the
\* response that call recorded and recognises its own request (audit.go:124-192).
ReplayFaithful ==
  \A t \in toolCalls :
    t.status = "ok" /\ t.key # NoKey =>
      /\ ReplayResponse(t.run, t.tool, t.key) = {t.evidence[2]}
      /\ \A req \in Bodies : RequestMatches(t, req) <=> req = t.evidence[1]

\* An artifact is named by one call only: no two rows share a file, no call in
\* progress holds an id a row names, so its cleanup (os.Remove) cannot reach it.
Holds(c) == {saved[c][i] : i \in 1..Len(saved[c])} \cup ({cur[c]} \ {NoId})
Names(t) == {t.request, t.response}
NoSharedArtifacts ==
  /\ \A c, d \in Callers : c # d => Holds(c) \cap Holds(d) = {}
  /\ \A t \in toolCalls, c \in Callers : Names(t) \cap Holds(c) = {}
  /\ \A t, u \in toolCalls : t # u => Names(t) \cap Names(u) = {}

------------------------------------------------------------------------------
(* The inductive invariant behind the properties above. *)

\* Ids in use were drawn, and the one at hand is not yet among those saved.
Drawn ==
  /\ \A c \in Callers :
       /\ Holds(c) \subseteq used
       /\ \A i \in 1..Len(saved[c]) : saved[c][i] # cur[c]
  /\ \A t \in toolCalls : Names(t) \subseteq used

\* Where a caller stands: what it holds is intact and in the order of its input.
CallerProgress(c) ==
  /\ pc[c] = "idle" => saved[c] = <<>> /\ cur[c] = NoId
  /\ pc[c] # "idle" => input[c] \in Inputs
  /\ pc[c] \in {"create", "record"} => cur[c] = NoId
  /\ pc[c] \in {"write", "insert", "remove"} => cur[c] \in Ids
  /\ pc[c] \in {"create", "write", "insert", "remove"} =>
       Len(saved[c]) < Len(input[c].bodies)
  /\ pc[c] = "record" => Len(saved[c]) = Len(input[c].bodies)
  /\ pc[c] = "insert" => files[cur[c]] = Body(c)
  /\ \A i \in 1..Len(saved[c]) :
       Intact(saved[c][i], input[c].run, input[c].bodies[i])

Progress == \A c \in Callers : CallerProgress(c)

\* The unique index holds, and Record returns rows that are there.
RowsSound ==
  /\ \A t, u \in toolCalls : t # u => ~ Ledger!Clash(t, u)
  /\ returned \subseteq toolCalls

\* Holding in every reachable state, and preserved by every step on its own:
\* EvidenceIntact alone is not, since a step of a caller could reach a file it
\* does not own (audit.go:49-122, artifact.go:42-82).
IInv ==
  /\ TypeOK /\ NoSharedArtifacts /\ Drawn /\ Progress
  /\ EvidenceIntact /\ RowsSound

------------------------------------------------------------------------------
\* The trail read back only ever grows by whole entries, one ok entry per key,
\* and Record returns only entries that are there (AuditLedger!Spec).
ImplementsLedger == Ledger!Spec
==============================================================================
