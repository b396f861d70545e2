------------------------------- MODULE MCBackup -------------------------------
(***************************************************************************)
(* A small instance of Backup: two handlers record a success and a failure *)
(* while the backup is taken, and the backup is restored up to twice into  *)
(* a database with and without its tables.                                 *)
(***************************************************************************)
EXTENDS Backup, TLC

CONSTANTS r1, t1, k1, reqA, respA, respB

Call(key, ok, bodies) ==
  [run |-> r1, tool |-> t1, key |-> key, ok |-> ok, bodies |-> bodies]

MCInputs == {Call(k1, TRUE, <<reqA, respA>>), Call(NoKey, FALSE, <<reqA, respB>>)}

Symmetry == Permutations(Ids) \cup Permutations(Callers)
==============================================================================
