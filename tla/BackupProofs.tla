----------------------------- MODULE BackupProofs -----------------------------
(***************************************************************************)
(* Proofs about Backup, for any callers, ids and inputs: a backup taken    *)
(* while the server works is whole, and what a restore of it leaves in the *)
(* target can be audited there.                                            *)
(***************************************************************************)
EXTENDS Backup, AuditTrailProofs

\* The shapes of what the scripts write.
Shapes ==
  /\ dump \in [artifacts : [Ids -> ArtifactRow \cup {NoRow}], toolCalls : SUBSET ToolCallRow]
  /\ archive \in [Ids -> Bodies \cup {NoFile, Partial}]
  /\ target \in [runs : SUBSET Runs, artifacts : [Ids -> ArtifactRow \cup {NoRow}],
                 toolCalls : SUBSET ToolCallRow]
  /\ disk \in [Ids -> Bodies \cup {NoFile, Partial}]

\* The inductive invariant of backup.sh beside Record: before the dump nothing is
\* packed; after it, BackupConsistent; at the end, BackupWhole.
BackupIInv ==
  /\ IInv
  /\ Shapes
  /\ script = "idle" => packed = {}
  /\ BackupConsistent
  /\ BackupWhole

\* The inductive invariant of restore.sh: the target holds rows of the dump, a
\* tool call only beside its artifacts; a file this unpacking is done with, and after
\* "Restore complete." every file of the archive, is there unless a tar was stopped at
\* it, and a run that has completed leaves none of those.
RestoreIInv ==
  /\ \A i \in Rows(target.artifacts) : target.artifacts[i] = dump.artifacts[i]
  /\ target.toolCalls \subseteq dump.toolCalls
  /\ \A t \in target.toolCalls : Names(t) \subseteq Rows(target.artifacts)
  /\ restore \in {"runs", "tool_calls"} /\ ~ keyed => target.artifacts = dump.artifacts
  /\ half \subseteq Archived
  /\ restore = "unpack" => \A i \in unpacked \ half : i \in Ids => disk[i] = archive[i]
  /\ completed > 0 => \A i \in Archived \ half : disk[i] = archive[i]
  /\ restore = "complete" => half = {}
  /\ script # "lost" =>
       /\ restore = "idle" /\ completed = 0 /\ half = {}
       /\ target.toolCalls = {} /\ Rows(target.artifacts) = {}

------------------------------------------------------------------------------
\* A step of the handlers keeps every row, and the files and artifact rows a row
\* names (audit.go:49-122, artifact.go:42-82).
LEMMA NamedStay ==
  ASSUME IInv, [Next]_vars
  PROVE  \A t \in toolCalls :
           /\ t \in toolCalls'
           /\ \A x \in Names(t) : files'[x] = files[x] /\ artifacts'[x] = artifacts[x]
  <1> SUFFICES ASSUME NEW t \in toolCalls, NEW x \in Names(t)
               PROVE  t \in toolCalls' /\ files'[x] = files[x] /\ artifacts'[x] = artifacts[x]
    BY DEF Names
  <1>0. TypeOK /\ x \in Ids
    BY DEF IInv, TypeOK, ToolCallRow, Names
  <1>1. ASSUME NEW c \in Callers, NEW in \in Inputs, BeginRecord(c, in)
        PROVE  UNCHANGED <<toolCalls, files, artifacts>>
    BY <1>1 DEF BeginRecord, store
  <1>2. ASSUME NEW c \in Callers, NEW id \in Ids, CreateFile(c, id)
        PROVE  t \in toolCalls' /\ files'[x] = files[x] /\ artifacts'[x] = artifacts[x]
    <2>1. x # id
      BY <1>2, FreshIsUnowned DEF CreateFile
    <2> QED
      BY <1>0, <1>2, <2>1 DEF CreateFile, TypeOK
  <1>3. ASSUME NEW c \in Callers, WriteFile(c) \/ InsertArtifact(c) \/ InsertArtifactFails(c)
                                  \/ RemoveFile(c)
        PROVE  t \in toolCalls' /\ files'[x] = files[x] /\ artifacts'[x] = artifacts[x]
    <2>1. pc[c] \in {"write", "insert", "remove"}
      BY <1>3 DEF WriteFile, InsertArtifact, InsertArtifactFails, RemoveFile
    <2>2. x # cur[c]
      BY <2>1, CurIsOwned
    <2> QED
      BY <1>0, <1>3, <2>2
      DEF WriteFile, InsertArtifact, InsertArtifactFails, RemoveFile, WithRow, TypeOK
  <1>4. ASSUME NEW c \in Callers, CreateFileFails(c) \/ WriteFileFails(c)
        PROVE  UNCHANGED <<toolCalls, files, artifacts>>
    BY <1>4 DEF CreateFileFails, WriteFileFails, store
  <1>5. ASSUME NEW c \in Callers, InsertToolCall(c) \/ InsertToolCallFails(c)
        PROVE  t \in toolCalls' /\ UNCHANGED <<files, artifacts>>
    BY <1>5 DEF InsertToolCall, InsertToolCallFails
  <1>6. Crash \/ UNCHANGED vars => UNCHANGED <<toolCalls, files, artifacts>>
    BY DEF Crash, store, vars
  <1> QED
    BY <1>1, <1>2, <1>3, <1>4, <1>5, <1>6 DEF Next, Step

\* The names of a dumped row are ids.
LEMMA DumpedNames ==
  ASSUME Shapes, NEW t \in dump.toolCalls
  PROVE  /\ t \in ToolCallRow /\ Names(t) \subseteq Ids
         /\ t.request \in Names(t) /\ t.response \in Names(t)
  BY DEF Shapes, ToolCallRow, Names

\* A whole backup holds the artifact rows its tool calls name.
LEMMA DumpedRows ==
  ASSUME Shapes, BackupWhole, script = "lost", NEW t \in dump.toolCalls
  PROVE  Names(t) \subseteq Rows(dump.artifacts)
  <1>1. t \in ToolCallRow
    BY DumpedNames
  <1>2. /\ [run |-> t.run, sha |-> t.evidence[1]] # NoRow
        /\ [run |-> t.run, sha |-> t.evidence[2]] # NoRow
    BY <1>1, DistinctAssumption DEF ToolCallRow
  <1> QED
    BY <1>2, DumpedNames DEF BackupWhole, Names, Rows

\* Nothing is written before the dump.
LEMMA InitBackup == BackupInit => BackupIInv /\ RestoreIInv
  <1> SUFFICES ASSUME BackupInit PROVE BackupIInv /\ RestoreIInv
    OBVIOUS
  <1>1. IInv
    BY InitIInv DEF BackupInit
  <1> QED
    BY <1>1
    DEF BackupInit, NoRows, BackupIInv, RestoreIInv, Shapes, BackupConsistent, BackupWhole, Rows

\* A complete pass of tar over a consistent dump makes a whole backup.
LEMMA DoneIsWhole ==
  ASSUME BackupIInv, PackDone, UNCHANGED vars
  PROVE  BackupWhole'
  <1> SUFFICES ASSUME NEW t \in dump.toolCalls
               PROVE  /\ dump.artifacts[t.request] = [run |-> t.run, sha |-> t.evidence[1]]
                      /\ archive[t.request] = t.evidence[1]
                      /\ dump.artifacts[t.response] = [run |-> t.run, sha |-> t.evidence[2]]
                      /\ archive[t.response] = t.evidence[2]
    BY DEF BackupWhole, PackDone
  <1>1. t \in toolCalls
    BY DEF BackupIInv, BackupConsistent, PackDone
  <1>2. Intact(t.request, t.run, t.evidence[1]) /\ Intact(t.response, t.run, t.evidence[2])
    BY <1>1 DEF BackupIInv, IInv, EvidenceIntact
  <1>3. \A x \in Names(t) : dump.artifacts[x] = artifacts[x] /\ archive[x] = files[x]
    BY DumpedNames DEF BackupIInv, BackupConsistent, PackDone
  <1> QED
    BY <1>2, <1>3, DumpedNames DEF Intact, BackupIInv

\* Steps of backup.sh.
LEMMA ScriptStep ==
  ASSUME BackupIInv, RestoreIInv, BackupStep, UNCHANGED <<vars, restored>>
  PROVE  BackupIInv' /\ RestoreIInv'
  <1>0. IInv'
    BY StepIInv DEF BackupIInv
  <1>1. CASE PgDump
    <2>1. Shapes'
      BY <1>1 DEF PgDump, Shapes, BackupIInv, IInv, TypeOK, restored
    <2> QED
      BY <1>0, <1>1, <2>1
      DEF PgDump, BackupIInv, RestoreIInv, BackupConsistent, BackupWhole, restored, vars, Rows,
      Archived
  <1>2. ASSUME NEW id \in Ids, PackFile(id) PROVE BackupIInv' /\ RestoreIInv'
    <2>1. Shapes'
      BY <1>2 DEF PackFile, Shapes, BackupIInv, IInv, TypeOK, restored
    <2>2. BackupConsistent'
      <3> SUFFICES ASSUME NEW t \in dump.toolCalls, NEW x \in Names(t)
                   PROVE  /\ dump.artifacts[x] = artifacts[x]
                          /\ x \in packed' => archive'[x] = files[x]
        BY <1>2 DEF BackupConsistent, BackupIInv, PackFile, vars
      <3>1. x \in Ids
        BY DumpedNames DEF BackupIInv
      <3> QED
        BY <1>2, <3>1 DEF PackFile, BackupConsistent, BackupIInv, Shapes
    <2> QED
      BY <1>0, <1>2, <2>1, <2>2
      DEF PackFile, BackupIInv, RestoreIInv, BackupWhole, restored, Rows, Archived
  <1>3. CASE PackDone
    <2>1. BackupWhole'
      BY <1>3, DoneIsWhole
    <2> QED
      BY <1>0, <1>3, <2>1
      DEF PackDone, Shapes, BackupIInv, RestoreIInv, BackupConsistent, restored, vars, Rows,
      Archived
  <1>4. CASE BackupFails
    BY <1>0, <1>4
    DEF BackupFails, Shapes, BackupIInv, RestoreIInv, BackupConsistent, BackupWhole, restored,
        Rows, Archived
  <1> QED
    BY <1>1, <1>2, <1>3, <1>4 DEF BackupStep

\* Steps of the handlers leave what was dumped and packed as it is.
LEMMA HandlerStep ==
  ASSUME BackupIInv, RestoreIInv, [Next]_vars, UNCHANGED <<backup, restored>>
  PROVE  BackupIInv' /\ RestoreIInv'
  <1>1. IInv'
    BY StepIInv DEF BackupIInv
  <1>2. BackupConsistent'
    BY NamedStay DEF BackupIInv, BackupConsistent, backup
  <1>3. Shapes' /\ BackupWhole' /\ (script = "idle" => packed = {})'
    BY DEF Shapes, BackupWhole, BackupIInv, backup, restored
  <1>4. RestoreIInv'
    BY DEF RestoreIInv, Rows, Archived, backup, restored
  <1> QED
    BY <1>1, <1>2, <1>3, <1>4 DEF BackupIInv

\* The loss of the host leaves the backup.
LEMMA LossStep ==
  ASSUME BackupIInv, RestoreIInv, LoseHost, UNCHANGED restored
  PROVE  BackupIInv' /\ RestoreIInv'
  <1>1. IInv'
    BY DistinctAssumption
    DEF LoseHost, IInv, TypeOK, NoSharedArtifacts, Drawn, Progress, CallerProgress,
        EvidenceIntact, RowsSound, Holds, Control
  <1>2. Shapes' /\ BackupWhole' /\ BackupConsistent' /\ (script = "idle" => packed = {})'
    BY DEF Shapes, BackupWhole, BackupIInv, BackupConsistent, LoseHost, restored
  <1>3. RestoreIInv'
    BY DEF RestoreIInv, Rows, Archived, LoseHost, restored
  <1> QED
    BY <1>1, <1>2, <1>3 DEF BackupIInv

------------------------------------------------------------------------------
\* Steps of restore.sh leave the backup alone and keep the target consistent.
LEMMA RestoreKeeps ==
  ASSUME BackupIInv, RestoreIInv, RestoreStep, UNCHANGED <<vars, backup>>
  PROVE  BackupIInv' /\ RestoreIInv'
  <1>0. IInv' /\ BackupConsistent' /\ BackupWhole' /\ (script = "idle" => packed = {})'
    BY StepIInv DEF vars, backup, BackupIInv, BackupConsistent, BackupWhole
  <1>1. ASSUME Shapes', RestoreIInv' PROVE BackupIInv' /\ RestoreIInv'
    BY <1>0, <1>1 DEF BackupIInv
  <1>2. CASE BeginRestore \/ CopyRuns \/ AddKeys \/ RestoreStops
    BY <1>1, <1>2
    DEF BeginRestore, CopyRuns, AddKeys, RestoreStops, Shapes, RestoreIInv, BackupIInv,
        Rows, Archived, backup
  <1>3. CASE CopyArtifacts
    BY <1>1, <1>3
    DEF CopyArtifacts, Shapes, RestoreIInv, BackupIInv, Rows, Archived, backup
  <1>4. CASE CopyToolCalls
    <2>1. script = "lost" /\ restore = "tool_calls"
      BY <1>4 DEF CopyToolCalls, RestoreIInv
    <2>2. \A t \in dump.toolCalls : Names(t) \subseteq Rows(dump.artifacts)
      BY <2>1, DumpedRows DEF BackupIInv
    <2>3. target' = target \/ target' = [target EXCEPT !.toolCalls = dump.toolCalls]
      BY <1>4 DEF CopyToolCalls
    <2>4. target' # target =>
            \A t \in dump.toolCalls : Names(t) \subseteq Rows(target.artifacts)
      BY <1>4, <2>1, <2>2 DEF CopyToolCalls, RestoreIInv
    <2>5. /\ target'.artifacts = target.artifacts
          /\ target'.toolCalls \in {target.toolCalls, dump.toolCalls}
          /\ target'.toolCalls # target.toolCalls => target' # target
          /\ target' \in [runs : SUBSET Runs, artifacts : [Ids -> ArtifactRow \cup {NoRow}],
                           toolCalls : SUBSET ToolCallRow]
      BY <2>3 DEF Shapes, BackupIInv
    <2>6. restore' = "keys" /\ UNCHANGED <<keyed, disk, unpacked, half, started, completed,
                                          dump, archive, script>>
      BY <1>4 DEF CopyToolCalls, backup
    <2>7. Shapes'
      BY <2>5, <2>6 DEF Shapes, BackupIInv
    <2>8. RestoreIInv'
      BY <2>1, <2>4, <2>5, <2>6 DEF RestoreIInv, Rows, Archived
    <2> QED
      BY <1>1, <2>7, <2>8
  <1>5. ASSUME NEW id \in Ids, OpenFile(id) PROVE BackupIInv' /\ RestoreIInv'
    <2>1. script = "lost" /\ restore = "unpack" /\ id \in Archived
      BY <1>5 DEF OpenFile, RestoreIInv
    <2>2. PICK begun \in {NoFile, Partial} : disk' = [disk EXCEPT ![id] = begun]
      BY <1>5 DEF OpenFile
    <2>3. /\ unpacked' = unpacked \cup {id} /\ half' = half \cup {id}
          /\ Archived' = Archived
          /\ UNCHANGED <<target, keyed, restore, completed, dump, archive, script>>
      BY <1>5 DEF OpenFile, backup, Archived
    <2>4. Shapes'
      BY <2>2, <2>3 DEF Shapes, BackupIInv
    <2>5. \A i \in Ids : i # id => disk'[i] = disk[i]
      BY <2>2 DEF Shapes, BackupIInv
    <2>6. RestoreIInv'
      BY <2>1, <2>3, <2>5 DEF RestoreIInv, Rows, Archived
    <2> QED
      BY <1>1, <2>4, <2>6
  <1>6. ASSUME NEW id \in Ids, WriteOut(id) PROVE BackupIInv' /\ RestoreIInv'
    <2>1. script = "lost" /\ restore = "unpack"
      BY <1>6 DEF WriteOut, RestoreIInv
    <2>2. /\ half' = half \ {id} /\ disk' = [disk EXCEPT ![id] = archive[id]]
          /\ Archived' = Archived
          /\ UNCHANGED <<target, keyed, unpacked, restore, completed, dump, archive, script>>
      BY <1>6 DEF WriteOut, backup, Archived
    <2>3. Shapes'
      BY <2>2 DEF Shapes, BackupIInv
    <2>4. \A i \in Ids : disk'[i] = IF i = id THEN archive[i] ELSE disk[i]
      BY <2>2 DEF Shapes, BackupIInv
    <2>5. RestoreIInv'
      BY <2>1, <2>2, <2>4 DEF RestoreIInv, Rows, Archived
    <2> QED
      BY <1>1, <2>3, <2>5
  <1>7. CASE UnpackDone
    <2>1. /\ restore = "unpack" /\ unpacked = Archived /\ half \cap unpacked = {}
          /\ restore' = "complete"
          /\ UNCHANGED <<target, keyed, disk, unpacked, half, dump, archive, script>>
      BY <1>7 DEF UnpackDone, backup
    <2>2. half = {}
      BY <2>1 DEF RestoreIInv
    <2>3. script = "lost" /\ \A i \in Archived : disk[i] = archive[i]
      BY <2>1, <2>2 DEF RestoreIInv, Archived
    <2>4. Shapes'
      BY <2>1 DEF Shapes, BackupIInv
    <2>5. RestoreIInv'
      BY <2>1, <2>2, <2>3 DEF RestoreIInv, Rows, Archived
    <2> QED
      BY <1>1, <2>4, <2>5
  <1> QED
    BY <1>2, <1>3, <1>4, <1>5, <1>6, <1>7 DEF RestoreStep

\* Both invariants hold always.
LEMMA BackupInvariance == BackupSpec => [](BackupIInv /\ RestoreIInv)
  <1>1. BackupIInv /\ RestoreIInv /\ [BackupNext]_<<vars, backup, restored>>
          => (BackupIInv /\ RestoreIInv)'
    <2> SUFFICES ASSUME BackupIInv, RestoreIInv, [BackupNext]_<<vars, backup, restored>>
                 PROVE  BackupIInv' /\ RestoreIInv'
      OBVIOUS
    <2>1. CASE UNCHANGED <<vars, backup, restored>>
      BY <2>1, HandlerStep
    <2> QED
      BY <2>1, ScriptStep, HandlerStep, LossStep, RestoreKeeps DEF BackupNext
  <1> QED
    BY <1>1, InitBackup, PTL DEF BackupSpec

\* A complete backup is whole, whatever the handlers did while it was taken:
\* every dumped tool call has its rows and its files (backup.sh:13-14).
THEOREM BackupSafe == BackupSpec => []BackupWhole
  <1>1. BackupIInv => BackupWhole
    BY DEF BackupIInv
  <1> QED
    BY BackupInvariance, <1>1, PTL

\* Between the dump and the pass of tar no step of Record reaches what a dumped
\* row names (audit.go:49-122, backup.sh:13-14).
THEOREM BackupStaysConsistent == BackupSpec => []BackupConsistent
  <1>1. BackupIInv => BackupConsistent
    BY DEF BackupIInv
  <1> QED
    BY BackupInvariance, <1>1, PTL

\* Once a restore has completed, whatever was refused, interrupted or repeated before
\* and after, a tool call in the target has its artifact rows and its files there, all
\* but the file that a later tar is at or was stopped at; right after a restore that
\* completed, all of them (restore.sh:18-21).
THEOREM RestoreSafe == BackupSpec => []RestoredIsAuditable
  <1>1. BackupIInv /\ RestoreIInv => RestoredIsAuditable
    <2> SUFFICES ASSUME BackupIInv, RestoreIInv, completed > 0, NEW t \in target.toolCalls
                 PROVE  /\ target.artifacts[t.request] = [run |-> t.run, sha |-> t.evidence[1]]
                        /\ target.artifacts[t.response] = [run |-> t.run, sha |-> t.evidence[2]]
                        /\ \/ disk[t.request] = t.evidence[1]
                           \/ t.request \in half /\ restore # "complete"
                        /\ \/ disk[t.response] = t.evidence[2]
                           \/ t.response \in half /\ restore # "complete"
      BY DEF RestoredIsAuditable
    <2>1. script = "lost" /\ t \in dump.toolCalls
      BY DEF RestoreIInv
    <2>2. /\ dump.artifacts[t.request] = [run |-> t.run, sha |-> t.evidence[1]]
          /\ archive[t.request] = t.evidence[1]
          /\ dump.artifacts[t.response] = [run |-> t.run, sha |-> t.evidence[2]]
          /\ archive[t.response] = t.evidence[2]
      BY <2>1 DEF BackupIInv, BackupWhole
    <2>3. t \in ToolCallRow /\ t.request \in Ids /\ t.response \in Ids
      BY <2>1, DumpedNames DEF BackupIInv
    <2>4. target.artifacts[t.request] = dump.artifacts[t.request]
          /\ target.artifacts[t.response] = dump.artifacts[t.response]
      BY <2>1, <2>3, DumpedNames DEF RestoreIInv, BackupIInv
    <2>5. t.evidence[1] # NoFile /\ t.evidence[2] # NoFile
      BY <2>3, DistinctAssumption DEF ToolCallRow
    <2>6. t.request \in Archived /\ t.response \in Archived
      BY <2>2, <2>3, <2>5 DEF Archived
    <2> QED
      BY <2>2, <2>4, <2>6 DEF RestoreIInv
  <1> QED
    BY BackupInvariance, <1>1, PTL

------------------------------------------------------------------------------
(* The second restore. *)

\* What a table of the target holds is all of the dump's or nothing, since a COPY
\* loads all of its rows or none; once the runs are there the rest follows.
SecondIInv ==
  /\ completed \in Nat
  /\ target.toolCalls \in {{}, dump.toolCalls}
  /\ Rows(target.artifacts) \in {{}, Rows(dump.artifacts)}
  /\ completed > 0 \/ restore \in {"tool_calls", "keys", "unpack"} => target.runs = Runs
  /\ completed > 0 /\ restore \in {"runs", "tool_calls", "keys", "unpack"} =>
       Rows(target.artifacts) = Rows(dump.artifacts)
  /\ completed > 0 /\ restore \in {"keys", "unpack"} => target.toolCalls = dump.toolCalls
  /\ completed > 1 => target.toolCalls = dump.toolCalls

\* COPY artifacts, when it is not refused, leaves the rows of the dump; it is not
\* refused for want of a run once the runs are there.
LEMMA ArtifactsCopied ==
  ASSUME Shapes, SecondIInv, CopyArtifacts
  PROVE  /\ Rows(target'.artifacts) \in {Rows(target.artifacts), Rows(dump.artifacts)}
         /\ target.runs = Runs => Rows(target'.artifacts) = Rows(dump.artifacts)
         /\ target'.runs = target.runs /\ target'.toolCalls = target.toolCalls
  <1> DEFINE loaded == [target EXCEPT !.artifacts =
                          [i \in Ids |-> IF dump.artifacts[i] = NoRow
                                         THEN target.artifacts[i] ELSE dump.artifacts[i]]]
             refused ==
               /\ keyed
               /\ \/ Rows(dump.artifacts) \cap Rows(target.artifacts) # {}
                  \/ \E i \in Rows(dump.artifacts) : dump.artifacts[i].run \notin target.runs
  <1>1. target' = IF refused THEN target ELSE loaded
    BY DEF CopyArtifacts
  <1>2. /\ loaded.runs = target.runs /\ loaded.toolCalls = target.toolCalls
        /\ loaded.artifacts = [i \in Ids |-> IF dump.artifacts[i] = NoRow
                                             THEN target.artifacts[i] ELSE dump.artifacts[i]]
    BY DEF Shapes
  <1>3. Rows(loaded.artifacts) = Rows(dump.artifacts)
    BY <1>2 DEF Rows, SecondIInv
  <1>4. \A i \in Rows(dump.artifacts) : dump.artifacts[i].run \in Runs
    BY DEF Rows, Shapes, ArtifactRow
  <1>5. target.runs = Runs /\ refused => Rows(target.artifacts) = Rows(dump.artifacts)
    BY <1>4 DEF SecondIInv
  <1> HIDE DEF loaded, refused
  <1> QED BY <1>1, <1>2, <1>3, <1>5

\* COPY tool_calls likewise, once the artifacts are there.
LEMMA ToolCallsCopied ==
  ASSUME BackupIInv, RestoreIInv, SecondIInv, CopyToolCalls
  PROVE  /\ target'.toolCalls \in {target.toolCalls, dump.toolCalls}
         /\ Rows(target.artifacts) = Rows(dump.artifacts) => target'.toolCalls = dump.toolCalls
         /\ target'.runs = target.runs /\ target'.artifacts = target.artifacts
  <1> DEFINE refused ==
               /\ keyed
               /\ \/ dump.toolCalls \cap target.toolCalls # {}
                  \/ \E t \in dump.toolCalls : ~ Names(t) \subseteq Rows(target.artifacts)
  <1>1. target' = IF refused THEN target ELSE [target EXCEPT !.toolCalls = dump.toolCalls]
    BY DEF CopyToolCalls
  <1>2. /\ [target EXCEPT !.toolCalls = dump.toolCalls].toolCalls = dump.toolCalls
        /\ [target EXCEPT !.toolCalls = dump.toolCalls].runs = target.runs
        /\ [target EXCEPT !.toolCalls = dump.toolCalls].artifacts = target.artifacts
    BY DEF BackupIInv, Shapes
  <1>3. \A t \in dump.toolCalls : Names(t) \subseteq Rows(dump.artifacts)
    BY DumpedRows DEF BackupIInv, RestoreIInv, CopyToolCalls
  <1>4. Rows(target.artifacts) = Rows(dump.artifacts) /\ refused
          => target.toolCalls = dump.toolCalls
    BY <1>3 DEF SecondIInv
  <1> HIDE DEF refused
  <1> QED BY <1>1, <1>2, <1>4

LEMMA SecondKeeps ==
  ASSUME BackupIInv, RestoreIInv, SecondIInv, RestoreStep, UNCHANGED <<vars, backup>>
  PROVE  SecondIInv'
  <1>1. dump' = dump
    BY DEF backup
  <1>2. CASE BeginRestore
    BY <1>1, <1>2 DEF BeginRestore, SecondIInv, Rows
  <1>3. CASE CopyArtifacts
    <2>1. /\ restore = "artifacts" /\ restore' = "runs" /\ completed' = completed
      BY <1>3 DEF CopyArtifacts
    <2>2. /\ Rows(target'.artifacts) \in {Rows(target.artifacts), Rows(dump.artifacts)}
          /\ target.runs = Runs => Rows(target'.artifacts) = Rows(dump.artifacts)
          /\ target'.runs = target.runs /\ target'.toolCalls = target.toolCalls
      BY <1>3, ArtifactsCopied DEF BackupIInv
    <2>3. Rows(target.artifacts)' = Rows(target'.artifacts)
          /\ Rows(dump.artifacts)' = Rows(dump.artifacts)
      BY <1>1 DEF Rows
    <2> QED BY <1>1, <2>1, <2>2, <2>3 DEF SecondIInv
  <1>4. CASE CopyRuns
    <2>1. /\ target'.runs = Runs /\ target'.artifacts = target.artifacts
          /\ target'.toolCalls = target.toolCalls
      BY <1>4 DEF CopyRuns, BackupIInv, Shapes
    <2> QED BY <1>1, <1>4, <2>1 DEF CopyRuns, SecondIInv, Rows
  <1>5. CASE CopyToolCalls
    <2>1. /\ target'.toolCalls \in {target.toolCalls, dump.toolCalls}
          /\ Rows(target.artifacts) = Rows(dump.artifacts) => target'.toolCalls = dump.toolCalls
          /\ target'.runs = target.runs /\ target'.artifacts = target.artifacts
      BY <1>5, ToolCallsCopied
    <2>2. restore = "tool_calls" /\ restore' = "keys" /\ completed' = completed
      BY <1>5 DEF CopyToolCalls
    <2>3. /\ Rows(target.artifacts)' = Rows(target.artifacts)
          /\ Rows(dump.artifacts)' = Rows(dump.artifacts)
      BY <1>1, <2>1 DEF Rows
    <2> QED BY <1>1, <2>1, <2>2, <2>3 DEF SecondIInv
  <1>6. CASE AddKeys \/ RestoreStops \/ \E id \in Ids : OpenFile(id) \/ WriteOut(id)
    BY <1>1, <1>6 DEF AddKeys, RestoreStops, OpenFile, WriteOut, SecondIInv, Rows
  <1>7. CASE UnpackDone
    <2>1. /\ restore = "unpack" /\ restore' = "complete" /\ completed' = completed + 1
          /\ target' = target
      BY <1>7 DEF UnpackDone
    <2>2. completed + 1 > 1 => completed > 0
      BY DEF SecondIInv
    <2> QED BY <1>1, <2>1, <2>2 DEF SecondIInv, Rows
  <1> QED BY <1>2, <1>3, <1>4, <1>5, <1>6, <1>7 DEF RestoreStep

LEMMA SecondInvariance == BackupSpec => []SecondIInv
  <1>1. BackupInit => SecondIInv
    BY DEF BackupInit, NoRows, SecondIInv, Rows
  <1>2. BackupIInv /\ RestoreIInv /\ SecondIInv /\ [BackupNext]_<<vars, backup, restored>>
          => SecondIInv'
    <2> SUFFICES ASSUME BackupIInv, RestoreIInv, SecondIInv,
                        [BackupNext]_<<vars, backup, restored>>
                 PROVE  SecondIInv'
      OBVIOUS
    <2>1. CASE BackupStep /\ UNCHANGED restored
      <3>1. script # "lost"
        BY <2>1 DEF BackupStep, PgDump, PackFile, PackDone, BackupFails
      <3>2. target.toolCalls = {} /\ Rows(target.artifacts) = {} /\ completed = 0
            /\ restore = "idle"
        BY <3>1 DEF RestoreIInv
      <3> QED BY <2>1, <3>2 DEF SecondIInv, Rows, restored
    <2>2. CASE UNCHANGED <<backup, restored>> \/ (LoseHost /\ UNCHANGED restored)
      BY <2>2 DEF SecondIInv, Rows, backup, restored, LoseHost
    <2> QED BY <2>1, <2>2, SecondKeeps DEF BackupNext
  <1> QED BY <1>1, <1>2, BackupInvariance, PTL DEF BackupSpec

\* However often the restore was refused, interrupted or repeated before, and with
\* or without tables in the target: once it has completed twice, every tool call
\* of the dump is there (restore.sh:18-21).
THEOREM SecondRestoreSuffices == BackupSpec => []SecondRestoreIsWhole
  <1>1. SecondIInv => SecondRestoreIsWhole
    BY DEF SecondIInv, SecondRestoreIsWhole
  <1> QED BY SecondInvariance, <1>1, PTL

==============================================================================
