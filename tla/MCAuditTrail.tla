----------------------------- MODULE MCAuditTrail -----------------------------
(***************************************************************************)
(* Small instances of AuditTrail: two handlers, one run, one idempotency   *)
(* key that both may use with different responses, a failed call, a call   *)
(* without a key and one with an extra artifact.                           *)
(***************************************************************************)
EXTENDS AuditTrail, TLC

CONSTANTS r1, t1, t2, k1, reqA, reqB, respA, respB

Call(tool, key, ok, bodies) ==
  [run |-> r1, tool |-> tool, key |-> key, ok |-> ok, bodies |-> bodies]

MCInputs == {
  Call(t1, k1, TRUE, <<reqA, respA>>),          \* two racing successes
  Call(t1, k1, TRUE, <<reqB, respB>>),
  Call(t1, k1, FALSE, <<reqA, respB, respA>>),  \* a failure, with an extra
  Call(t1, NoKey, TRUE, <<reqA, respA>>),
  Call(t2, k1, TRUE, <<reqA, respA>>)}          \* a tool not on the allowlist

Symmetry == Permutations(Ids) \cup Permutations(Callers)
==============================================================================
