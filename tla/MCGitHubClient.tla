---------------------------- MODULE MCGitHubClient ----------------------------
(***************************************************************************)
(* A small instance of GitHubClient: pages of two files, two pages at most; *)
(* lists that end within a page, at its end, and beyond the last page; one *)
(* caller lists while the other gets the pull request or lists as well.    *)
(***************************************************************************)
EXTENDS GitHubClient

CONSTANTS c1

MCLists == {<<1, 2>>, <<2, 3>>, <<1, 2, 3>>, <<1, 2, 3, 4, 5>>}

MCMixes == {[c \in Callers |-> IF c = c1 THEN "list" ELSE o] : o \in {"get", "list"}}
==============================================================================
