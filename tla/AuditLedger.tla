----------------------------- MODULE AuditLedger -----------------------------
(***************************************************************************)
(* What the audit trail promises to the people who read it: an append-only *)
(* ledger of tool calls.  An entry carries the bodies an auditor reads     *)
(* back for it, so "the ledger never changes an entry" says that neither   *)
(* the row nor the two artifact files behind it ever change.  At most one  *)
(* successful entry exists per (run, tool, idempotency key), and a handler *)
(* is only told of entries the ledger holds.                               *)
(*                                                                         *)
(* AuditTrail implements this with files, artifact rows and tool_call      *)
(* rows written in separate steps; GitHubWrites records its calls by       *)
(* Commit.                                                                 *)
(***************************************************************************)
CONSTANTS CallIds,  \* identity of an entry (the uuid of its request artifact)
          Runs, Tools, Keys, NoKey,
          Bodies    \* request and response bodies

VARIABLES ledger,   \* the entries an auditor can read
          returned  \* the entries Record has handed to a handler

vars == <<ledger, returned>>

\* A row of table tool_calls together with the bodies its artifacts hold.
Entry == [id : CallIds, run : Runs, tool : Tools, key : Keys \cup {NoKey},
          status : {"ok", "fail"}, request : Bodies, response : Bodies]

\* Mutant of Clash: the unique index is lost.
ClashNever(e, f) == FALSE

\* The partial unique index idx_tool_calls_idem_ok refuses e beside f.
Clash(e, f) ==
  /\ e.status = "ok" /\ f.status = "ok"
  /\ e.key # NoKey
  /\ e.run = f.run /\ e.tool = f.tool /\ e.key = f.key

TypeOK == ledger \subseteq Entry /\ returned \subseteq Entry

Init == ledger = {} /\ returned = {}

\* One Record: the entry appears whole, and the handler may or may not learn.
Commit(e) ==
  /\ \A f \in ledger : f.id # e.id /\ ~ Clash(e, f)
  /\ ledger' = ledger \cup {e}
  /\ returned' \in {returned, returned \cup {e}}

Next == \E e \in Entry : Commit(e)

Spec == Init /\ [][Next]_vars
==============================================================================
