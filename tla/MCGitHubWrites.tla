---------------------------- MODULE MCGitHubWrites ----------------------------
(***************************************************************************)
(* Small instances of GitHubWrites.  Texts ab and ba are one issue with its *)
(* labels in two orders; z is another.                                     *)
(***************************************************************************)
EXTENDS GitHubWrites, TLC

CONSTANTS r1, ab, ba, z, p1, p2, h1

CanonOf == (ab :> ab) @@ (ba :> ab) @@ (z :> z)

OnIssue(text) == [text |-> text, pr |-> NoPR]
OnPR(text, pr) == [text |-> text, pr |-> pr]

Ask(tool, via, header, dry, items) ==
  [run |-> r1, tool |-> tool, via |-> via, header |-> header, dry |-> dry, items |-> items]

\* Single issues: both transports, reordered labels, a header key used with two
\* bodies, a tool that is not allowed.
SingleRequests == {
  Ask(Issue, "http", NoHeader, FALSE, <<OnIssue(ab)>>),
  Ask(Issue, "mcp",  NoHeader, FALSE, <<OnIssue(ba)>>),
  Ask(Issue, "http", h1, FALSE, <<OnIssue(ab)>>),
  Ask(Issue, "http", h1, FALSE, <<OnIssue(z)>>),
  Ask(Comment, "http", NoHeader, FALSE, <<OnPR(ab, p1)>>)}

\* Comments on two pull requests, by header key and by computed key.
CommentRequests == {
  Ask(Comment, "http", NoHeader, FALSE, <<OnPR(ab, p1)>>),
  Ask(Comment, "mcp",  NoHeader, FALSE, <<OnPR(ab, p2)>>),
  Ask(Comment, "mcp",  NoHeader, TRUE,  <<OnPR(ab, p1)>>),
  Ask(Comment, "http", h1, FALSE, <<OnPR(ab, p1)>>),
  Ask(Comment, "http", h1, FALSE, <<OnPR(ab, p2)>>)}

\* Batches that overlap in part: the same item twice, reordered items.
BatchRequests == {
  Ask(Batch, "http", NoHeader, FALSE, <<OnIssue(ab), OnIssue(z)>>),
  Ask(Batch, "mcp",  NoHeader, FALSE, <<OnIssue(ba), OnIssue(z)>>),
  Ask(Batch, "mcp",  NoHeader, FALSE, <<OnIssue(ab), OnIssue(ab)>>),
  Ask(Batch, "http", NoHeader, TRUE,  <<OnIssue(z), OnIssue(z)>>)}

\* Batches and comments side by side.
MixedRequests == BatchRequests \cup CommentRequests

Symmetry == Permutations(Calls)
==============================================================================
