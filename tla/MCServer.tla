------------------------------- MODULE MCServer -------------------------------
(***************************************************************************)
(* Small instances of Server: callers compete for the one slot of a        *)
(* process; two processes start at once; a tool is off the allowlist.      *)
(***************************************************************************)
EXTENDS Server

CONSTANTS p1, p2, c1, c2

Http(tool, dry) == [door |-> "http", tool |-> tool, dry |-> dry]
Mcp(tool, dry)  == [door |-> "mcp",  tool |-> tool, dry |-> dry]

Calls(a, b) == [c \in Callers |-> IF c = c1 THEN a ELSE b]

MCScenarios ==
  {[calls |-> Calls(Http("qa", FALSE), Mcp("qa", FALSE)), processes |-> {p1}],
   [calls |-> Calls(Http("qa", FALSE), Http("qa", TRUE)), processes |-> {p1}],
   [calls |-> Calls(Mcp("files_list", FALSE), Http("files_list", FALSE)), processes |-> {p1}],
   [calls |-> Calls(Http("pr_get", FALSE), Mcp("patch", FALSE)), processes |-> {p1}],
   [calls |-> Calls(Http("qa", FALSE), NoRequest), processes |-> {p1, p2}]}
==============================================================================
