----------------------------- MODULE MCCodeWrites -----------------------------
(***************************************************************************)
(* Small instances of CodeWrites: main and two head branches, approvals a1 *)
(* and a2 of scope code_write and a3 of scope path_change.                 *)
(***************************************************************************)
EXTENDS CodeWrites, TLC

CONSTANTS r1, r2, main, h1, h2, a1, a2, a3

Approval(run, scope) == [run |-> run, scope |-> scope]
MCApprovalOf == [i \in Ids |-> IF i = a3 THEN Approval(r1, "path_change")
                                        ELSE Approval(r1, "code_write")]

Ask(tool, run, approval, branch, dry, paths, n) ==
  [tool |-> tool, run |-> run, approval |-> approval, base |-> main, head |-> branch,
   dry |-> dry, files |-> 1, paths |-> paths, iterations |-> n]

\* Everything the gate looks at, on one branch, beside a repair loop that passes it and
\* goes to its last iteration, and a dry run.
GateRequests == {
  Ask(RepairLoop, r1, a1, h1, FALSE, "free", 0),
  Ask(BranchPR, r1, a1, h1, TRUE, "free", 0),
  Ask(BranchPR, r2, a1, h1, FALSE, "free", 0),
  Ask(BranchPR, r1, a1, h1, FALSE, "forbidden", 0),
  Ask(BranchPR, r1, a3, h1, FALSE, "free", 0),
  Ask(RepairLoop, r1, a1, h1, FALSE, "free", 3)}

\* Both tools at work in the tree, on the same branch, on different ones, and on one
\* that the other has for its base; with two files or one; and a dry run.
TreeRequests == {
  [Ask(BranchPR, r1, a1, h1, FALSE, "free", 0) EXCEPT !.files = 2],
  Ask(RepairLoop, r1, a1, h1, FALSE, "free", 1),
  Ask(RepairLoop, r1, a1, h2, FALSE, "free", 0),
  Ask(RepairLoop, r1, a1, h2, TRUE, "free", 0),
  [Ask(BranchPR, r1, a1, h2, FALSE, "free", 0) EXCEPT !.base = h1]}

\* Two branches under two approvals.
TwoApprovals == {
  Ask(BranchPR, r1, a1, h1, FALSE, "free", 0),
  Ask(BranchPR, r1, a2, h2, FALSE, "free", 0)}

Symmetry == Permutations(Calls)
==============================================================================
