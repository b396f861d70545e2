-------------------------------- MODULE Backup --------------------------------
(***************************************************************************)
(* scripts/backup.sh and restore.sh.  The backup is taken while the server *)
(* works: pg_dump writes one snapshot of the database, then tar reads the  *)
(* artifact files one after another while Record goes on creating and      *)
(* removing them.  When the host is lost, the restore loads the dump into  *)
(* another database, table by table, and unpacks the files beside it, one  *)
(* after another; it may be interrupted at any point and begun again.      *)
(*                                                                         *)
(* A plain pg_dump loads its tables in the order of their names, artifacts *)
(* before runs.  psql goes on after a COPY that fails, and a COPY loads    *)
(* all of its rows or none.                                                *)
(***************************************************************************)
EXTENDS AuditTrail

CONSTANTS MaxRestores,   \* bound on the restores attempted
          Bootstraps     \* whether the target has its tables before (db/init)

ASSUME BackupAssumption ==
  MaxRestores \in Nat /\ Bootstraps \subseteq BOOLEAN /\ Bootstraps # {}

VARIABLES
  script,   \* where backup.sh stands
  dump,     \* pg_<ts>.sql: the rows of artifacts and tool_calls
  archive,  \* artifacts_<ts>.tar.gz: the files as tar found them
  packed,   \* the files tar is done with
  target,   \* the database restored into
  keyed,    \* its tables have their primary and foreign keys
  disk,     \* the files restored
  unpacked, \* the files tar has come to this time
  half,     \* the files a tar has begun to replace and not finished
  restore,  \* the next step of restore.sh, or how it ended
  started, completed        \* restores begun, and told "Restore complete."

backup  == <<script, dump, archive, packed>>
restored == <<target, keyed, disk, unpacked, half, restore, started, completed>>

NoRows == [artifacts |-> [i \in Ids |-> NoRow], toolCalls |-> {}]

BackupInit ==
  /\ Init
  /\ script = "idle" /\ dump = NoRows
  /\ archive = [i \in Ids |-> NoFile] /\ packed = {}
  /\ keyed \in Bootstraps
  /\ target = [runs |-> {}, artifacts |-> NoRows.artifacts, toolCalls |-> {}]
  /\ disk = [i \in Ids |-> NoFile] /\ unpacked = {} /\ half = {}
  /\ restore = "idle" /\ started = 0 /\ completed = 0

------------------------------------------------------------------------------
(* backup.sh, beside the steps of AuditTrail. *)

PgDump ==
  /\ script = "idle"
  /\ dump' = [artifacts |-> artifacts, toolCalls |-> toolCalls]
  /\ script' = "pack"
  /\ UNCHANGED <<archive, packed>>

\* Mutant of PackFile: the archive is begun before the dump.
PackFileEarly(id) ==
  /\ script \in {"idle", "pack"} /\ id \notin packed
  /\ archive' = [archive EXCEPT ![id] = files[id]]
  /\ packed' = packed \cup {id}
  /\ UNCHANGED <<script, dump>>

\* tar comes to the place of a file: it packs what is there, perhaps a file half
\* written, perhaps none.
PackFile(id) ==
  /\ script = "pack" /\ id \notin packed
  /\ archive' = [archive EXCEPT ![id] = files[id]]
  /\ packed' = packed \cup {id}
  /\ UNCHANGED <<script, dump>>

PackDone ==
  /\ script = "pack" /\ packed = Ids
  /\ script' = "complete"
  /\ UNCHANGED <<dump, archive, packed>>

\* set -e: pg_dump or tar fails (a file changed or vanished under it, the disk is
\* full) and the script ends without "Backup complete".
BackupFails ==
  /\ script \in {"idle", "pack"}
  /\ script' = "failed"
  /\ UNCHANGED <<dump, archive, packed>>

\* The host is gone, with its database and its disk.
LoseHost ==
  /\ script = "complete"
  /\ script' = "lost"
  /\ files' = [i \in Ids |-> NoFile] /\ artifacts' = [i \in Ids |-> NoRow]
  /\ toolCalls' = {} /\ returned' = {} /\ used' = {}
  /\ pc' = [c \in Callers |-> "idle"] /\ input' = [c \in Callers |-> NoInput]
  /\ saved' = [c \in Callers |-> <<>>] /\ cur' = [c \in Callers |-> NoId]
  /\ UNCHANGED <<dump, archive, packed>>

------------------------------------------------------------------------------
(* restore.sh, on a host where nothing else is at work. *)

Rows(artifactRows) == {i \in Ids : artifactRows[i] # NoRow}

BeginRestore ==
  /\ script = "lost" /\ restore \in {"idle", "complete"} /\ started < MaxRestores
  /\ started' = started + 1
  /\ restore' = "artifacts"
  /\ UNCHANGED <<target, keyed, disk, unpacked, half, completed>>

\* COPY artifacts: refused when a row is there already or its run is missing.
\* (Without keys a row loaded twice is there twice; the two are alike and count
\* as one here.)
CopyArtifacts ==
  /\ restore = "artifacts"
  /\ LET refused ==
           /\ keyed
           /\ \/ Rows(dump.artifacts) \cap Rows(target.artifacts) # {}
              \/ \E i \in Rows(dump.artifacts) : dump.artifacts[i].run \notin target.runs
     IN target' = IF refused THEN target
                  ELSE [target EXCEPT !.artifacts =
                          [i \in Ids |-> IF dump.artifacts[i] = NoRow
                                         THEN target.artifacts[i] ELSE dump.artifacts[i]]]
  /\ restore' = "runs"
  /\ UNCHANGED <<keyed, disk, unpacked, half, started, completed>>

\* Mutant of CopyRuns: one transaction, which a refusal before it has aborted.
CopyRunsOneTransaction ==
  /\ restore = "runs"
  /\ Rows(dump.artifacts) \subseteq Rows(target.artifacts)
       => target' = [target EXCEPT !.runs = Runs]
  /\ ~ Rows(dump.artifacts) \subseteq Rows(target.artifacts) => UNCHANGED target
  /\ restore' = "tool_calls"
  /\ UNCHANGED <<keyed, disk, unpacked, half, started, completed>>

\* COPY runs; loaded again it is refused and leaves the same rows.
CopyRuns ==
  /\ restore = "runs"
  /\ target' = [target EXCEPT !.runs = Runs]
  /\ restore' = "tool_calls"
  /\ UNCHANGED <<keyed, disk, unpacked, half, started, completed>>

\* Mutant of CopyToolCalls: the foreign keys to the artifacts are not looked at.
CopyToolCallsUnchecked ==
  /\ restore = "tool_calls"
  /\ target' = [target EXCEPT !.toolCalls = dump.toolCalls]
  /\ restore' = "keys"
  /\ UNCHANGED <<keyed, disk, unpacked, half, started, completed>>

\* COPY tool_calls: refused when a row is there already or an artifact is missing.
CopyToolCalls ==
  /\ restore = "tool_calls"
  /\ LET refused ==
           /\ keyed
           /\ \/ dump.toolCalls \cap target.toolCalls # {}
              \/ \E t \in dump.toolCalls : ~ Names(t) \subseteq Rows(target.artifacts)
     IN target' = IF refused THEN target ELSE [target EXCEPT !.toolCalls = dump.toolCalls]
  /\ restore' = "keys"
  /\ UNCHANGED <<keyed, disk, unpacked, half, started, completed>>

\* The dump adds its keys after all of the rows; not to a table an interrupted
\* restore had loaded before.
AddKeys ==
  /\ restore = "keys"
  /\ keyed' \in IF started = 1 THEN {TRUE} ELSE {keyed, TRUE}
  /\ restore' = "unpack"
  /\ unpacked' = {}
  /\ UNCHANGED <<target, disk, half, started, completed>>

Archived == {i \in Ids : archive[i] # NoFile}

\* tar -xzf comes to a file: it takes away the one that is there and creates it anew.
OpenFile(id) ==
  /\ restore = "unpack" /\ half \cap unpacked = {}
  /\ id \in Archived \ unpacked
  /\ \E begun \in {NoFile, Partial} : disk' = [disk EXCEPT ![id] = begun]
  /\ unpacked' = unpacked \cup {id}
  /\ half' = half \cup {id}
  /\ UNCHANGED <<target, keyed, restore, started, completed>>

WriteOut(id) ==
  /\ restore = "unpack" /\ id \in half \cap unpacked
  /\ disk' = [disk EXCEPT ![id] = archive[id]]
  /\ half' = half \ {id}
  /\ UNCHANGED <<target, keyed, unpacked, restore, started, completed>>

\* "Restore complete."
UnpackDone ==
  /\ restore = "unpack" /\ unpacked = Archived /\ half \cap unpacked = {}
  /\ restore' = "complete"
  /\ completed' = completed + 1
  /\ UNCHANGED <<target, keyed, disk, unpacked, half, started>>

\* restore.sh is interrupted, or loses the database between two tables, or tar fails;
\* a file that tar was at stays as it is.
RestoreStops ==
  /\ restore \notin {"idle", "complete"}
  /\ restore' = "idle"
  /\ UNCHANGED <<target, keyed, disk, unpacked, half, started, completed>>

------------------------------------------------------------------------------
BackupStep ==
  PgDump \/ (\E id \in Ids : PackFile(id)) \/ PackDone \/ BackupFails
RestoreStep ==
  \/ BeginRestore \/ CopyArtifacts \/ CopyRuns \/ CopyToolCalls
  \/ AddKeys \/ (\E id \in Ids : OpenFile(id) \/ WriteOut(id)) \/ UnpackDone
  \/ RestoreStops

BackupNext ==
  \/ script # "lost" /\ Next /\ UNCHANGED <<backup, restored>>
  \/ BackupStep /\ UNCHANGED <<vars, restored>>
  \/ LoseHost /\ UNCHANGED restored
  \/ RestoreStep /\ UNCHANGED <<vars, backup>>

BackupSpec == BackupInit /\ [][BackupNext]_<<vars, backup, restored>>

------------------------------------------------------------------------------
(* Properties. *)

\* A complete backup is consistent although the server worked on: every tool call
\* of the dump has both its artifact rows in the dump and both files whole in the
\* archive, hashing to its evidence (backup.sh:13-14).
BackupWhole ==
  script \in {"complete", "lost"} =>
    \A t \in dump.toolCalls :
      /\ dump.artifacts[t.request] = [run |-> t.run, sha |-> t.evidence[1]]
      /\ archive[t.request] = t.evidence[1]
      /\ dump.artifacts[t.response] = [run |-> t.run, sha |-> t.evidence[2]]
      /\ archive[t.response] = t.evidence[2]

\* What makes it so: the rows of the dump stay in the database, and no step of
\* Record touches a file they name between the dump and the moment tar reads it.
BackupConsistent ==
  script \in {"pack", "complete"} =>
    /\ dump.toolCalls \subseteq toolCalls
    /\ script = "complete" => packed = Ids
    /\ \A t \in dump.toolCalls : \A x \in Names(t) :
         /\ dump.artifacts[x] = artifacts[x]
         /\ x \in packed => archive[x] = files[x]

\* Whatever was refused, interrupted or repeated: once a restore has completed, a tool
\* call in the target has its artifact rows and its files there, all but a file that a
\* later restore was at when it was interrupted, or is at; and when the restore that
\* ran last has completed, all of them (restore.sh:18-21).
RestoredIsAuditable ==
  completed > 0 =>
    \A t \in target.toolCalls :
      /\ target.artifacts[t.request] = [run |-> t.run, sha |-> t.evidence[1]]
      /\ target.artifacts[t.response] = [run |-> t.run, sha |-> t.evidence[2]]
      /\ disk[t.request] = t.evidence[1] \/ (t.request \in half /\ restore # "complete")
      /\ disk[t.response] = t.evidence[2] \/ (t.response \in half /\ restore # "complete")

\* A second complete restore brings in what the first one had to refuse: the runs
\* are there by then, and nothing it loaded is in the way of the rest.
SecondRestoreIsWhole == completed >= 2 => target.toolCalls = dump.toolCalls

------------------------------------------------------------------------------
\* scripts/restore.sh:21 echo "Restore complete.": the tool calls of the dump are
\* in the database.
RestoreCompleteIsComplete == completed >= 1 => target.toolCalls = dump.toolCalls
==============================================================================
