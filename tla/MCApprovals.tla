----------------------------- MODULE MCApprovals -----------------------------
(***************************************************************************)
(* Small instances of Approvals: requests for approvals and opposite       *)
(* verdicts of two approvers on the same approval, one of them in the      *)
(* wrong run.                                                              *)
(***************************************************************************)
EXTENDS Approvals, TLC

CONSTANTS r1, r2, i1, i2, ann, bob

Ask(scope, paths) == [kind |-> "create", run |-> r1, scope |-> scope, paths |-> paths]
Say(run, id, verdict, approver) ==
  [kind |-> "resolve", run |-> run, id |-> id, verdict |-> verdict, approver |-> approver]

\* A name of every kind the policy tells apart.
Names == {"src", "db", "init", "x", ".git", ".github", "secrets", ".env", ".env.local",
          ".envrc", "..x", "-x"}
MCSegments == {"", ".", ".."} \cup Names
MCDotted == {<<".env.local", ".env">>}
MCLonger == {<<".env.local", ".env">>, <<".envrc", ".env">>, <<".github", ".git">>}
MCForbidden == {<<".", "init", "">>, <<"">>}
MCApproval == {<<"", "db", "init", "">>, <<"secrets">>}

MCJobs == {
  Ask("code_write", {<<".", "src">>}),
  Ask("code_write", {<<"src">>, <<"db", "init", "x">>}),
  Ask("path_change", {<<".", "db", "init", "x">>}),
  Ask("path_change", {<<"src", "..", ".git", "x">>}),
  Say(r1, i1, "approved", ann),
  Say(r1, i1, "rejected", bob),
  Say(r2, i1, "approved", bob)}

Symmetry == Permutations(Callers)
==============================================================================
