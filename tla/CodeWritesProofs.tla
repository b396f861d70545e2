--------------------------- MODULE CodeWritesProofs ---------------------------
(***************************************************************************)
(* Proofs about CodeWrites.  Besides what the properties say themselves,   *)
(* the invariant says where a call stands (CallFacts), that the changes of *)
(* a call are nowhere before the gate let it through (UseFacts), that a    *)
(* pull request comes last (PRFacts), and, step by step, what the tree and *)
(* the remote hold for a call that has had the tree to itself (AloneFacts).*)
(***************************************************************************)
EXTENDS CodeWrites, TLAPS

\* Past checkout -b; in the tree; after it; at work.
Past == {"write", "add", "commit", "push", "hash", "qa", "rbase", "rdelete", "rpush"}
Tree == Past \cup {"branch"}
Ending == {"record", "close", "answer"}
Working == Tree \cup Ending \cup {"base", "pr"}
RollingBack == {"rbase", "rdelete", "rpush"}
BeforeQA == {"new", "base", "branch", "write", "add", "commit", "push", "hash"}

\* The gate let c through, under an approval that had been given.
Cleared(c) ==
  /\ req[c] \in Requests /\ req[c].paths # "forbidden"
  /\ ApprovalOf[req[c].approval] = [run |-> req[c].run, scope |-> "code_write"]
  /\ req[c].approval \in approved

\* What an ok answer stands for.
Delivered(c) ==
  req[c].dry \/ \E p \in prs : p.call = c /\ p.head = req[c].head /\ p.base = req[c].base

CallFacts(c) ==
  /\ req[c] = NoRequest <=> pc[c] = "new"
  /\ pc[c] \in Working =>
       /\ Cleared(c)
       /\ req[c].tool = RepairLoop => Iterations(req[c]) <= RepairMaxIterations
  /\ pc[c] # "done" => answer[c] = "none"
  /\ pc[c] \notin {"answer", "done", "gone"} => step[c] \in {"none", "running"}
  /\ pc[c] \in Tree \cup {"pr"} => ~ req[c].dry
  /\ pc[c] \in BeforeQA \cup {"qa", "pr"} => ~ failed[c]
  /\ pc[c] \in RollingBack => failed[c]
  /\ pc[c] \in {"new", "base", "branch"} => file[c] = 0
  /\ pc[c] = "write" => file[c] < req[c].files
  /\ pc[c] = "add" => file[c] \in 1..req[c].files
  /\ pc[c] \in BeforeQA => iteration[c] = 0
  /\ pc[c] = "qa" => req[c].tool = RepairLoop /\ iteration[c] < Iterations(req[c])
  /\ pc[c] \in BeforeQA \cup {"qa", "pr", "rbase"} => rollback[c] = "none"
  /\ pc[c] = "qa" => commitHash[c] # NoBranch
  /\ pc[c] = "pr" => WentThrough(c)
  /\ pc[c] \in Ending /\ ~ failed[c] => Delivered(c)
  /\ pc[c] \in {"close", "answer"} => recorded[c] = IF failed[c] THEN "fail" ELSE "ok"
  /\ answer[c] = "ok" => recorded[c] = "ok" /\ Delivered(c)
  /\ step[c] = "completed" =>
       recorded[c] = "ok" /\ Delivered(c) /\ answer[c] \in {"none", "ok"}
  /\ step[c] = "failed" => recorded[c] = "fail" /\ answer[c] \in {"none", "error"}

UseFacts == \A x \in InUse : Cleared(x[1]) /\ ~ req[x[1]].dry

PRFacts ==
  \A p \in prs : pc[p.call] \in Ending \cup {"done", "gone"} /\ WentThrough(p.call)

GivenFacts == \A i \in Ids : status[i] = "approved" => i \in approved

HeadFacts == local[head] # NoBranch

\* c found X on its base and nothing else; nobody else has been in the tree since,
\* and once it has left, nobody can take its branch for a new one.
Files(c, n) == {c} \X (1..n)

AloneFacts(c) ==
  LET X == alone[c]
      b == req[c].head
      done == X \cup Own(c)
  IN
  /\ pc[c] \in {"new", "base"} => X = NoBranch
  /\ X # NoBranch =>
       /\ pc[c] \in Tree => InTree = {c}
       /\ pc[c] = "branch" => local[head] = X /\ staged = {}
       /\ pc[c] \in {"write", "add", "commit"} => head = b /\ local[b] = X
       /\ pc[c] \in {"branch", "write"} => unadded = {}
       /\ pc[c] = "write" => staged = Files(c, file[c])
       /\ pc[c] = "add" => staged = Files(c, file[c] - 1) /\ unadded = {<<c, file[c]>>}
       /\ pc[c] = "commit" => staged = Own(c)
       /\ pc[c] \in {"push", "hash", "qa"} => head = b /\ local[b] = done /\ staged = {}
       /\ pc[c] \in {"commit", "push", "hash", "qa"} => unadded = {}
       /\ pc[c] \in {"hash", "qa", "pr"} => remote[b] = done
       /\ pc[c] \in {"qa", "pr"} => commitHash[c] = done
       /\ pc[c] = "pr" =>
            /\ local[b] # NoBranch
            /\ \A d \in Calls \ {c} : pc[d] \in Past => req[d].head # b
            /\ req[c].tool = RepairLoop => tested[c] = done

Facts ==
  /\ \A c \in Calls : CallFacts(c)
  /\ UseFacts /\ PRFacts /\ GivenFacts /\ HeadFacts /\ RemoteHasOwner
  /\ \A c \in Calls : AloneFacts(c)
  /\ AloneIsExact

IInv == TypeOK /\ Facts


------------------------------------------------------------------------------
(* Requests and contents. *)

LEMMA RequestShape ==
  ASSUME NEW r \in Requests
  PROVE  /\ r # NoRequest /\ r.tool \in {BranchPR, RepairLoop} /\ r.dry \in BOOLEAN
         /\ r.approval \in Ids /\ r.base \in Branches /\ r.head \in Branches
         /\ r.files \in 1..MaxFiles /\ MaxFiles \in Nat
         /\ Iterations(r) \in Nat \ {0}
         /\ r.run \in Runs
  BY RequestsAssumption, ConfigAssumption DEF Request, Iterations

LEMMA ContentShape ==
  ASSUME NEW X \in Content
  PROVE  X # NoBranch
  BY ConfigAssumption DEF Content

------------------------------------------------------------------------------
(* What a step of one call may change. *)

Same(d) ==
  UNCHANGED <<pc[d], req[d], file[d], failed[d], iteration[d], rollback[d], commitHash[d],
              step[d], recorded[d], answer[d], tested[d]>>

GitStep(c) ==
  \/ UNCHANGED git
  \/ pc[c] = "rbase" /\ GitCheckout(req[c].base)
  \/ Command(c)
  \/ pc[c] = "rdelete" /\ GitDelete(req[c].head)
  \/ pc[c] = "rpush" /\ GitPushDelete(req[c].head)

Entering(c) ==
  /\ pc[c] = "base" /\ pc'[c] \in {"branch", "record"}
  /\ ~ req[c].dry /\ GitCheckout(req[c].base) /\ EnterTree(c)

\* The tree and the remote change by the command that c is at, and the history says so
\* when c enters the tree.
TreeStep(c) ==
  \/ UNCHANGED <<git, alone>> /\ (pc'[c] \in Tree => pc[c] \in Tree)
                             /\ (pc'[c] \in Past => pc[c] \in Past)
  \/ Entering(c)
  \/ /\ pc[c] \in Tree /\ GitStep(c) /\ UNCHANGED alone
     /\ pc'[c] \in Past => pc[c] \in Past \/ GitCheckoutNew(req[c].head)

Moves(c) ==
  /\ pc[c] \notin {"done", "gone"}
  /\ pc'[c] # "new" /\ \A d \in Calls \ {c} : Same(d)
  /\ status' = status /\ approved' = approved
  /\ pc[c] # "new" => req'[c] = req[c] /\ answer'[c] \notin {"refused", "unstarted"}
  /\ TreeStep(c)
  /\ prs' = prs \/ (pc[c] = "pr" /\ Opened(c))
  /\ pc[c] = "pr" => pc'[c] = "record"
  /\ pc[c] \in Ending => pc'[c] \in Ending \cup {"done"}
  /\ pc[c] \in Ending \cup {"pr"} =>
       UNCHANGED <<alone, commitHash[c], tested[c], iteration[c], rollback[c]>>
  /\ pc[c] = "push" => rollback'[c] = "none"
  /\ pc[c] # "new" /\ RolledBack(c)' => RolledBack(c) \/ remote'[req[c].head] = NoBranch

WorldTyped ==
  /\ status \in [Ids -> {"requested", "approved", "rejected"}]
  /\ head \in Branches /\ staged \in Content /\ unadded \in Content
  /\ local \in [Branches -> Content \cup {NoBranch}]
  /\ remote \in [Branches -> Content \cup {NoBranch}]
  /\ prs \subseteq PullRequest /\ approved \subseteq Ids
  /\ alone \in [Calls -> Content \cup {NoBranch}]

LEMMA WorkingRequest ==
  ASSUME IInv, NEW c \in Calls, pc[c] # "new"
  PROVE  req[c] \in Requests
  BY DEF IInv, Facts, CallFacts, TypeOK

LEMMA GitTypes ==
  ASSUME IInv, NEW c \in Calls, pc[c] # "new", GitStep(c) \/ GitCheckout(req[c].base)
  PROVE  /\ head' \in Branches /\ staged' \in Content /\ unadded' \in Content
         /\ local' \in [Branches -> Content \cup {NoBranch}]
         /\ remote' \in [Branches -> Content \cup {NoBranch}]
         /\ HeadFacts'
  <1>1. /\ req[c] \in Requests /\ req[c].base \in Branches /\ req[c].head \in Branches
    BY WorkingRequest, RequestShape
  <1>2. /\ head \in Branches /\ local[head] # NoBranch
        /\ staged \in Content /\ unadded \in Content
        /\ local \in [Branches -> Content \cup {NoBranch}]
        /\ remote \in [Branches -> Content \cup {NoBranch}]
    BY DEF IInv, Facts, TypeOK, HeadFacts
  <1>3. local[head] \in Content
    BY <1>2
  <1>4. CASE UNCHANGED git
    BY <1>2, <1>4 DEF git, HeadFacts
  <1>5. CASE GitCheckout(req[c].base)
    BY <1>1, <1>2, <1>5 DEF GitCheckout, HeadFacts
  <1>6. CASE GitCheckoutNew(req[c].head)
    BY <1>1, <1>2, <1>3, <1>6 DEF GitCheckoutNew, HeadFacts
  <1>7. CASE pc[c] = "write" /\ WriteFile(c)
    <2>1. <<c, file[c] + 1>> \in Changes
      <3>1. file[c] \in Nat /\ file[c] < req[c].files /\ req[c].files \in 1..MaxFiles
            /\ MaxFiles \in Nat
        BY <1>1, <1>7, RequestShape DEF IInv, Facts, CallFacts, TypeOK
      <3>2. file[c] + 1 \in 1..MaxFiles
        BY <3>1
      <3> QED BY <3>2 DEF Changes
    <2> QED BY <1>2, <1>7, <2>1 DEF WriteFile, HeadFacts, Content
  <1>12. CASE pc[c] = "add" /\ GitAdd(c)
    <2>1. <<c, file[c]>> \in Changes
      <3>1. file[c] \in 1..req[c].files /\ req[c].files \in 1..MaxFiles /\ MaxFiles \in Nat
        BY <1>1, <1>12, RequestShape DEF IInv, Facts, CallFacts
      <3>2. file[c] \in 1..MaxFiles
        BY <3>1
      <3> QED BY <3>2 DEF Changes
    <2> QED BY <1>2, <1>12, <2>1 DEF GitAdd, HeadFacts, Content
  <1>8. CASE GitCommit
    <2>1. local[head] \cup staged \in Content /\ {} \in Content
      BY <1>2, <1>3 DEF Content
    <2>2. local[head] \cup staged # NoBranch
      BY <2>1, ContentShape
    <2> QED BY <1>2, <1>8, <2>1, <2>2 DEF GitCommit, HeadFacts
  <1>9. CASE GitPush(req[c].head)
    BY <1>1, <1>2, <1>9 DEF GitPush, HeadFacts
  <1>10. CASE GitDelete(req[c].head)
    BY <1>1, <1>2, <1>10 DEF GitDelete, HeadFacts
  <1>11. CASE GitPushDelete(req[c].head)
    BY <1>1, <1>2, <1>11 DEF GitPushDelete, HeadFacts
  <1> QED BY <1>4, <1>5, <1>6, <1>7, <1>8, <1>9, <1>10, <1>11, <1>12 DEF GitStep, Command

LEMMA WorldFine ==
  ASSUME IInv, NEW c \in Calls, Moves(c)
  PROVE  WorldTyped' /\ HeadFacts'
  <1>1. WorldTyped /\ HeadFacts
    BY DEF IInv, TypeOK, WorldTyped, Facts
  <1>2. TreeStep(c) /\ status' = status /\ approved' = approved
        /\ (prs' = prs \/ (pc[c] = "pr" /\ Opened(c)))
    BY DEF Moves
  <1>3. /\ head' \in Branches /\ staged' \in Content /\ unadded' \in Content
        /\ local' \in [Branches -> Content \cup {NoBranch}]
        /\ remote' \in [Branches -> Content \cup {NoBranch}]
        /\ HeadFacts'
    <2>1. CASE UNCHANGED git
      BY <1>1, <2>1 DEF git, WorldTyped, HeadFacts
    <2>2. CASE Entering(c)
      BY <2>2, GitTypes DEF Entering
    <2>3. CASE pc[c] \in Tree /\ GitStep(c)
      BY <2>3, GitTypes DEF Tree, Past
    <2> QED BY <1>2, <2>1, <2>2, <2>3 DEF TreeStep
  <1>4. alone' \in [Calls -> Content \cup {NoBranch}]
    <2>1. CASE alone' = alone
      BY <1>1, <2>1 DEF WorldTyped
    <2>2. CASE Entering(c)
      <3>1. req[c].base \in Branches
        BY <2>2, WorkingRequest, RequestShape DEF Entering
      <3> QED BY <1>1, <2>2, <3>1 DEF Entering, EnterTree, WorldTyped
    <2> QED BY <1>2, <2>1, <2>2 DEF TreeStep
  <1>5. prs' \subseteq PullRequest
    <2>1. CASE pc[c] = "pr" /\ Opened(c)
      <3>1. req[c].base \in Branches /\ req[c].head \in Branches
        BY <2>1, WorkingRequest, RequestShape
      <3>2. remote[req[c].head] \in Content
        BY <1>1, <2>1, <3>1 DEF Opened, WorldTyped
      <3> QED BY <1>1, <2>1, <3>1, <3>2 DEF Opened, WorldTyped, PullRequest
    <2> QED BY <1>1, <1>2, <2>1 DEF WorldTyped
  <1> QED BY <1>1, <1>2, <1>3, <1>4, <1>5 DEF WorldTyped

------------------------------------------------------------------------------
(* What such a step leaves true, whatever it is. *)

\* The changes of a call appear one by one as it writes its files; commands and pull
\* requests only carry them on.
LEMMA NothingNew ==
  ASSUME IInv, NEW c \in Calls, Moves(c)
  PROVE  \A x \in InUse' : x \in InUse \/ (x[1] = c /\ pc[c] \in {"write", "add"})
  <1> DEFINE Seen(x) == x \in InUse \/ (x[1] = c /\ pc[c] \in {"write", "add"})
  <1>1. /\ \A x \in staged \cup unadded : x \in InUse
        /\ \A b \in Branches : \A x \in Of(local[b]) \cup Of(remote[b]) : x \in InUse
        /\ \A p \in prs : \A x \in p.content : x \in InUse
    <2>1. \A b \in Branches : \A x \in Of(local[b]) \cup Of(remote[b]) :
            x \in UNION {Of(local[a]) \cup Of(remote[a]) : a \in Branches}
      OBVIOUS
    <2>2. \A p \in prs : \A x \in p.content : x \in UNION {q.content : q \in prs}
      OBVIOUS
    <2> QED BY <2>1, <2>2 DEF InUse
  <1>2. /\ head \in Branches /\ local[head] # NoBranch
        /\ local \in [Branches -> Content \cup {NoBranch}]
        /\ remote \in [Branches -> Content \cup {NoBranch}]
    BY DEF IInv, Facts, TypeOK, HeadFacts
  <1>3. pc[c] # "new" => /\ req[c] \in Requests
                         /\ req[c].base \in Branches /\ req[c].head \in Branches
    BY WorkingRequest, RequestShape
  <1>4. /\ \A x \in staged' \cup unadded' : Seen(x)
        /\ \A b \in Branches : \A x \in Of(local'[b]) \cup Of(remote'[b]) : Seen(x)
    <2>1. CASE UNCHANGED git
      BY <1>1, <2>1 DEF git
    <2>2. CASE pc[c] # "new" /\ GitCheckout(req[c].base)
      BY <1>1, <1>2, <1>3, <2>2 DEF GitCheckout, Of
    <2>3. CASE pc[c] # "new" /\ GitCheckoutNew(req[c].head)
      BY <1>1, <1>2, <1>3, <2>3 DEF GitCheckoutNew, Of
    <2>4. CASE pc[c] = "write" /\ WriteFile(c)
      BY <1>1, <2>4 DEF WriteFile
    <2>11. CASE pc[c] = "add" /\ GitAdd(c)
      BY <1>1, <2>11 DEF GitAdd
    <2>5. CASE GitCommit
      BY <1>1, <1>2, <2>5 DEF GitCommit, Of
    <2>6. CASE pc[c] # "new" /\ GitPush(req[c].head)
      BY <1>1, <1>2, <1>3, <2>6 DEF GitPush, Of
    <2>7. CASE pc[c] # "new" /\ GitDelete(req[c].head)
      BY <1>1, <1>2, <1>3, <2>7 DEF GitDelete, Of
    <2>8. CASE pc[c] # "new" /\ GitPushDelete(req[c].head)
      BY <1>1, <1>2, <1>3, <2>8 DEF GitPushDelete, Of
    <2>9. TreeStep(c)
      BY DEF Moves
    <2>10. UNCHANGED git \/ Entering(c) \/ (pc[c] \in Tree /\ GitStep(c))
      BY <2>9 DEF TreeStep, git
    <2> QED BY <2>1, <2>2, <2>3, <2>4, <2>5, <2>6, <2>7, <2>8, <2>10, <2>11
            DEF Entering, GitStep, Command
  <1>5. \A p \in prs' : \A x \in p.content : Seen(x)
    <2>1. CASE pc[c] = "pr" /\ Opened(c)
      <3>1. \A x \in remote[req[c].head] : Seen(x)
        BY <1>1, <1>3, <2>1 DEF Opened, Of
      <3> QED BY <1>1, <2>1, <3>1 DEF Opened
    <2>2. CASE prs' = prs
      BY <1>1, <2>2
    <2> QED BY <2>1, <2>2 DEF Moves
  <1> HIDE DEF Seen
  <1>6. \A x \in InUse' : Seen(x)
    <2> SUFFICES ASSUME NEW x \in InUse' PROVE Seen(x)
      OBVIOUS
    <2>1. CASE x \in staged' \cup unadded'
      BY <1>4, <2>1
    <2>2. CASE \E b \in Branches : x \in Of(local'[b]) \cup Of(remote'[b])
      BY <1>4, <2>2
    <2>3. CASE \E p \in prs' : x \in p.content
      BY <1>5, <2>3
    <2>4. \/ x \in UNION {Of(local'[b]) \cup Of(remote'[b]) : b \in Branches}
          \/ x \in UNION {p.content : p \in prs'} \/ x \in staged' \cup unadded'
      BY DEF InUse, Of
    <2> QED BY <2>1, <2>2, <2>3, <2>4
  <1> QED BY <1>6 DEF Seen

LEMMA UseFine ==
  ASSUME IInv, NEW c \in Calls, Moves(c)
  PROVE  UseFacts'
  <1>1. CallFacts(c) /\ UseFacts /\ approved' = approved
    BY DEF IInv, Facts, Moves
  <1>2. \A d \in Calls : Cleared(d) /\ pc[d] # "new" => req'[d] = req[d]
    BY DEF Moves, Same
  <1>3. InUse \subseteq Changes
    <2>1. /\ staged \subseteq Changes /\ unadded \subseteq Changes
          /\ \A b \in Branches : Of(local[b]) \cup Of(remote[b]) \subseteq Changes
          /\ \A p \in prs : p.content \subseteq Changes
      BY DEF IInv, TypeOK, Of, Content, PullRequest
    <2>2. UNION {Of(local[b]) \cup Of(remote[b]) : b \in Branches} \subseteq Changes
      BY <2>1
    <2>3. UNION {p.content : p \in prs} \subseteq Changes
      BY <2>1
    <2> QED BY <2>1, <2>2, <2>3 DEF InUse
  <1>4. \A d \in Calls : Cleared(d) => pc[d] # "new"
    BY RequestShape DEF IInv, Facts, CallFacts, Cleared
  <1>5. pc[c] \in {"write", "add"} => Cleared(c) /\ ~ req[c].dry
    BY <1>1 DEF CallFacts, Working, Tree, Past
  <1>6. \A x \in InUse' : /\ x[1] \in Calls /\ Cleared(x[1]) /\ ~ req[x[1]].dry
                         /\ req'[x[1]] = req[x[1]]
    <2> TAKE x \in InUse'
    <2>1. x \in InUse \/ (x[1] = c /\ pc[c] \in {"write", "add"})
      BY NothingNew
    <2>2. x[1] \in Calls
      BY <1>3, <2>1 DEF Changes
    <2>3. Cleared(x[1]) /\ ~ req[x[1]].dry
      BY <1>1, <1>5, <2>1 DEF UseFacts
    <2> QED BY <1>2, <1>4, <2>2, <2>3
  <1> QED BY <1>1, <1>6 DEF UseFacts, Cleared

LEMMA OtherCall ==
  ASSUME IInv, NEW c \in Calls, Moves(c), NEW d \in Calls \ {c}
  PROVE  CallFacts(d)'
  <1>1. CallFacts(d) /\ Same(d) /\ approved' = approved /\ prs \subseteq prs'
    BY DEF IInv, Facts, Moves, Opened
  <1>2. /\ Cleared(d)' <=> Cleared(d)
    BY <1>1 DEF Cleared, Same
  <1>3. WentThrough(d)' <=> WentThrough(d)
    BY <1>1 DEF WentThrough, Same
  <1>4. Delivered(d) => Delivered(d)'
    BY <1>1 DEF Delivered, Same
  <1> QED BY <1>1, <1>2, <1>3, <1>4 DEF CallFacts, Same

LEMMA PRFine ==
  ASSUME IInv, NEW c \in Calls, Moves(c)
  PROVE  PRFacts'
  <1>1. \A p \in prs' : p \in prs \/ (p.call = c /\ pc[c] = "pr")
    BY DEF Moves, Opened
  <1>2. /\ \A p \in prs : /\ p.call \in Calls /\ WentThrough(p.call)
                         /\ pc[p.call] \in Ending \cup {"done", "gone"}
        /\ pc[c] = "pr" => WentThrough(c)
    BY DEF IInv, Facts, PRFacts, CallFacts, TypeOK, PullRequest
  <1>3. \A d \in Calls \ {c} : pc'[d] = pc[d] /\ (WentThrough(d)' <=> WentThrough(d))
    BY DEF Moves, Same, WentThrough
  <1>4. /\ pc[c] = "pr" => pc'[c] = "record"
        /\ pc[c] \in Ending => pc'[c] \in Ending \cup {"done"}
        /\ pc[c] \notin {"done", "gone"}
    BY DEF Moves
  <1>5. pc[c] \in Ending \cup {"pr"} => (WentThrough(c)' <=> WentThrough(c))
    BY DEF Moves, Ending, WentThrough
  <1> SUFFICES ASSUME NEW p \in prs'
               PROVE  pc'[p.call] \in Ending \cup {"done", "gone"} /\ WentThrough(p.call)'
    BY DEF PRFacts
  <1>6. CASE p.call = c
    <2>1. pc[c] \in Ending \cup {"pr"} /\ WentThrough(c)
      BY <1>1, <1>2, <1>4, <1>6
    <2> QED BY <1>4, <1>5, <1>6, <2>1 DEF Ending
  <1>7. CASE p.call # c
    BY <1>1, <1>2, <1>3, <1>7
  <1> QED BY <1>6, <1>7

LEMMA OwnerFine ==
  ASSUME IInv, NEW c \in Calls, Moves(c)
  PROVE  RemoteHasOwner'
  <1> SUFFICES ASSUME NEW b \in Branches \ {Trunk}, remote'[b] # NoBranch
               PROVE  \E d \in Calls : Admitted(d)' /\ req'[d].head = b /\ ~ RolledBack(d)'
    BY DEF RemoteHasOwner
  <1>1. \A d \in Calls \ {c} : Same(d)
    BY DEF Moves
  <1>2. CASE remote[b] # NoBranch
    <2>1. PICK d \in Calls : Admitted(d) /\ req[d].head = b /\ ~ RolledBack(d)
      BY <1>2 DEF IInv, Facts, RemoteHasOwner
    <2>2. CASE d # c
      BY <1>1, <2>1, <2>2 DEF Same, RolledBack, Admitted
    <2>3. CASE d = c
      <3>1. pc[c] # "new"
        BY <2>1, <2>3 DEF Admitted
      <3>2. req'[c] = req[c] /\ Admitted(c)'
        BY <2>1, <2>3, <3>1 DEF Moves, Admitted
      <3>3. ~ RolledBack(c)'
        BY <2>1, <2>3, <3>1 DEF Moves
      <3> QED BY <2>1, <2>3, <3>2, <3>3
    <2> QED BY <2>2, <2>3
  <1>3. CASE remote[b] = NoBranch
    <2>1. pc[c] = "push" /\ GitPush(req[c].head)
      <3>1. UNCHANGED git \/ Entering(c) \/ (pc[c] \in Tree /\ GitStep(c))
        BY DEF Moves, TreeStep, git
      <3>2. remote \in [Branches -> Content \cup {NoBranch}]
        BY DEF IInv, TypeOK
      <3>3. remote' # remote
        BY <1>3
      <3>4. remote' # [remote EXCEPT ![req[c].head] = NoBranch]
        BY <1>3, <3>2
      <3> QED BY <3>1, <3>3, <3>4 DEF git, Entering, GitCheckout, GitStep, Command,
                  GitCheckoutNew, WriteFile, GitAdd, GitCommit, GitDelete, GitPushDelete
    <2>2. req[c].head = b
      <3>1. req[c] \in Requests /\ remote \in [Branches -> Content \cup {NoBranch}]
        BY <2>1, WorkingRequest DEF IInv, TypeOK
      <3> QED BY <1>3, <2>1, <3>1, RequestShape DEF GitPush
    <2>3. req'[c] = req[c] /\ rollback'[c] = "none" /\ Admitted(c)'
      <3>1. ~ req[c].dry
        BY <2>1 DEF IInv, Facts, CallFacts, Tree, Past
      <3> QED BY <2>1, <3>1 DEF Moves, Admitted
    <2> QED BY <2>2, <2>3 DEF RolledBack
  <1> QED BY <1>2, <1>3

\* Whoever enters the tree takes it from the others.
LEMMA AloneIsLost ==
  ASSUME IInv, NEW c \in Calls, Moves(c), NEW d \in Calls \ {c}
  PROVE  /\ alone'[d] \in {alone[d], NoBranch}
         /\ alone'[d] # NoBranch /\ pc[d] \in Tree => pc[c] \notin Tree \cup {"base"} \/ UNCHANGED git
         /\ alone'[d] # NoBranch /\ pc[d] \in Tree => pc'[c] \notin Tree
  <1>1. alone' = alone \/ Entering(c)
    BY DEF Moves, TreeStep
  <1>2. pc[d] \in Tree <=> d \in InTree
    BY DEF InTree, Tree, Past
  <1>3. CASE Entering(c)
    <2>1. alone'[d] = IF d \in InTree THEN NoBranch ELSE alone[d]
      BY <1>3 DEF Entering, EnterTree
    <2> QED BY <1>2, <2>1
  <1>4. CASE alone' = alone /\ ~ Entering(c)
    <2>1. alone'[d] # NoBranch /\ pc[d] \in Tree => pc[c] \notin Tree
      <3>1. pc[c] \in Tree <=> c \in InTree
        BY DEF InTree, Tree, Past
      <3> QED BY <1>2, <1>4, <3>1 DEF IInv, Facts, AloneFacts
    <2>2. pc'[c] \in Tree => pc[c] \in Tree
      BY <1>4 DEF Moves, TreeStep
    <2>3. pc[c] \notin Tree => UNCHANGED git
      BY <1>4 DEF Moves, TreeStep, git
    <2> QED BY <1>4, <2>1, <2>2, <2>3
  <1> QED BY <1>1, <1>3, <1>4

\* While d waits at its pull request its branch is there, so nobody gets it by
\* checkout -b, and whoever is past checkout -b works on another one.
LEMMA BranchIsKept ==
  ASSUME IInv, NEW c \in Calls, Moves(c), NEW d \in Calls \ {c},
         alone[d] # NoBranch, pc[d] = "pr"
  PROVE  /\ local'[req[d].head] # NoBranch /\ remote'[req[d].head] = remote[req[d].head]
         /\ pc'[c] \in Past => req'[c].head # req[d].head
  <1> DEFINE b == req[d].head
  <1>1. /\ local[b] # NoBranch /\ (pc[c] \in Past => req[c].head # b)
        /\ b \in Branches
    BY WorkingRequest, RequestShape DEF IInv, Facts, AloneFacts
  <1>2. /\ local \in [Branches -> Content \cup {NoBranch}]
        /\ remote \in [Branches -> Content \cup {NoBranch}]
        /\ head \in Branches /\ staged \in Content
    BY DEF IInv, TypeOK
  <1>3. TreeStep(c) /\ (pc[c] # "new" => req'[c] = req[c])
    BY DEF Moves
  <1> HIDE DEF b
  <1>4. CASE UNCHANGED git /\ (pc'[c] \in Past => pc[c] \in Past)
    BY <1>1, <1>3, <1>4 DEF git, Past, b
  <1>5. CASE Entering(c)
    BY <1>1, <1>2, <1>5 DEF Entering, GitCheckout, Past, b
  <1>6. CASE /\ pc[c] \in Tree /\ GitStep(c)
             /\ pc'[c] \in Past => pc[c] \in Past \/ GitCheckoutNew(req[c].head)
    <2>1. pc[c] # "new" /\ req'[c] = req[c] /\ req[c].head \in Branches
      BY <1>3, <1>6, WorkingRequest, RequestShape DEF Tree, Past
    <2>2. GitCheckoutNew(req[c].head) => req[c].head # b
      BY <1>1 DEF GitCheckoutNew
    <2>3. pc'[c] \in Past => req'[c].head # b
      BY <1>1, <1>6, <2>1, <2>2
    <2>4. CASE UNCHANGED git \/ GitCheckout(req[c].base) \/ WriteFile(c) \/ GitAdd(c)
      BY <1>1, <1>2, <2>3, <2>4 DEF git, GitCheckout, WriteFile, GitAdd, b
    <2>5. CASE GitCheckoutNew(req[c].head)
      BY <1>1, <1>2, <2>2, <2>3, <2>5 DEF GitCheckoutNew, b
    <2>6. CASE GitCommit
      <3>1. local[head] \in Content => local[head] \cup staged # NoBranch
        BY <1>2, ContentShape DEF Content
      <3>2. local[head] # NoBranch
        BY DEF IInv, Facts, HeadFacts
      <3> QED BY <1>1, <1>2, <2>3, <2>6, <3>1, <3>2 DEF GitCommit, b
    <2>7. CASE pc[c] = "push" /\ GitPush(req[c].head)
      BY <1>1, <1>2, <2>3, <2>7 DEF GitPush, Past, b
    <2>8. CASE pc[c] = "rdelete" /\ GitDelete(req[c].head)
      BY <1>1, <1>2, <2>3, <2>8 DEF GitDelete, Past, b
    <2>9. CASE pc[c] = "rpush" /\ GitPushDelete(req[c].head)
      BY <1>1, <1>2, <2>3, <2>9 DEF GitPushDelete, Past, b
    <2> QED BY <1>6, <2>4, <2>5, <2>6, <2>7, <2>8, <2>9 DEF GitStep, Command
  <1> QED BY <1>3, <1>4, <1>5, <1>6 DEF TreeStep, git, b

LEMMA AloneOther ==
  ASSUME IInv, NEW c \in Calls, Moves(c), NEW d \in Calls \ {c}
  PROVE  AloneFacts(d)'
  <1>1. AloneFacts(d) /\ Same(d)
    BY DEF IInv, Facts, Moves
  <1>2. CASE alone'[d] = NoBranch
    BY <1>2 DEF AloneFacts, Files, Own
  <1>3. CASE alone'[d] # NoBranch
    <2>1. alone'[d] = alone[d]
      BY <1>3, AloneIsLost
    <2>2. CASE pc[d] \in Tree
      <3>1. /\ pc[c] \notin Tree /\ pc'[c] \notin Tree
        <4>1. InTree = {d}
          BY <1>1, <1>3, <2>1, <2>2 DEF AloneFacts, Files, Own
        <4> QED BY <1>3, <2>2, <4>1, AloneIsLost DEF InTree, Tree, Past
      <3>2. UNCHANGED git
        <4>1. TreeStep(c) /\ (pc[c] = "base" => UNCHANGED git)
          BY <1>3, <2>2, AloneIsLost DEF Moves
        <4> QED BY <3>1, <4>1 DEF TreeStep, git, Entering
      <3>3. InTree' = InTree
        BY <3>1 DEF InTree, Tree, Past, Moves, Same
      <3> QED BY <1>1, <2>1, <2>2, <3>2, <3>3 DEF AloneFacts, Files, Own, Same, git, Tree, Past
    <2>3. CASE pc[d] = "pr"
      <3>1. /\ local'[req[d].head] # NoBranch /\ remote'[req[d].head] = remote[req[d].head]
            /\ pc'[c] \in Past => req'[c].head # req[d].head
        BY <1>3, <2>1, <2>3, BranchIsKept
      <3>2. \A e \in Calls \ {d} : pc'[e] \in Past => req'[e].head # req[d].head
        BY <1>1, <1>3, <2>1, <2>3, <3>1 DEF AloneFacts, Files, Own, Moves, Same
      <3> QED BY <1>1, <2>1, <2>3, <3>1, <3>2 DEF AloneFacts, Files, Own, Same, Tree, Past
    <2>4. CASE pc[d] \notin Tree \cup {"pr"}
      BY <1>1, <2>1, <2>4 DEF AloneFacts, Files, Own, Same, Tree, Past
    <2> QED BY <2>2, <2>3, <2>4
  <1> QED BY <1>2, <1>3

LEMMA ExactFine ==
  ASSUME IInv, NEW c \in Calls, Moves(c)
  PROVE  AloneIsExact'
  <1> SUFFICES ASSUME NEW p \in prs', alone'[p.call] # NoBranch
               PROVE  /\ p.content = Own(p.call)' \cup alone'[p.call]
                      /\ commitHash'[p.call] = p.content
                      /\ req'[p.call].tool = RepairLoop => tested'[p.call] = p.content
    BY DEF AloneIsExact
  <1>1. CASE p \in prs
    <2>1. p.call \in Calls /\ pc[p.call] \in Ending \cup {"done", "gone"}
      BY <1>1 DEF IInv, Facts, PRFacts, TypeOK, PullRequest
    <2>2. /\ req'[p.call] = req[p.call] /\ commitHash'[p.call] = commitHash[p.call]
          /\ tested'[p.call] = tested[p.call] /\ alone'[p.call] = alone[p.call]
      <3>1. CASE p.call = c
        BY <2>1, <3>1 DEF Moves, Ending
      <3>2. CASE p.call # c
        BY <2>1, <3>2, AloneIsLost DEF Moves, Same
      <3> QED BY <3>1, <3>2
    <2> QED BY <1>1, <2>2 DEF IInv, Facts, AloneIsExact, Own
  <1>2. CASE p \notin prs
    <2>1. pc[c] = "pr" /\ p.call = c /\ p.content = remote[req[c].head]
      BY <1>2 DEF Moves, Opened
    <2>2. /\ req'[c] = req[c] /\ commitHash'[c] = commitHash[c]
          /\ tested'[c] = tested[c] /\ alone'[c] = alone[c]
      BY <2>1 DEF Moves
    <2>3. /\ remote[req[c].head] = alone[c] \cup Own(c) /\ commitHash[c] = alone[c] \cup Own(c)
          /\ req[c].tool = RepairLoop => tested[c] = alone[c] \cup Own(c)
      BY <2>1, <2>2 DEF IInv, Facts, AloneFacts
    <2>4. alone[c] \cup Own(c) = Own(c)' \cup alone[c]
      BY <2>2 DEF Own
    <2> QED BY <2>1, <2>2, <2>3, <2>4
  <1> QED BY <1>1, <1>2

\* All but the types of the calls and what concerns c itself.
LEMMA RestFine ==
  ASSUME IInv, NEW c \in Calls, Moves(c), CallFacts(c)', AloneFacts(c)'
  PROVE  Facts'
  <1>1. GivenFacts'
    BY DEF Moves, IInv, Facts, GivenFacts
  <1>2. \A d \in Calls : CallFacts(d)' /\ AloneFacts(d)'
    BY OtherCall, AloneOther
  <1> QED BY <1>1, <1>2, WorldFine, UseFine, PRFine, OwnerFine, ExactFine DEF Facts

------------------------------------------------------------------------------
(* The steps of a call, one by one. *)

CallsTyped ==
  /\ pc \in [Calls -> {"new", "base", "branch", "write", "add", "commit", "push", "hash",
                       "qa", "rbase", "rdelete", "rpush", "pr", "record", "close", "answer",
                       "done", "gone"}]
  /\ req \in [Calls -> Requests \cup {NoRequest}]
  /\ file \in [Calls -> 0..MaxFiles]
  /\ failed \in [Calls -> BOOLEAN]
  /\ iteration \in [Calls -> 0..RepairMaxIterations]
  /\ rollback \in [Calls -> {"none", "clean", "error"}]
  /\ commitHash \in [Calls -> Content \cup {NoBranch}]
  /\ step \in [Calls -> {"none", "running", "completed", "failed"}]
  /\ recorded \in [Calls -> {"none", "ok", "fail"}]
  /\ answer \in [Calls -> {"none", "ok", "error", "refused", "unstarted", "audit_error"}]
  /\ tested \in [Calls -> Content \cup {NoBranch}]

Fine(c) == CallsTyped' /\ Moves(c) /\ CallFacts(c)' /\ AloneFacts(c)'

LEMMA CallFine ==
  ASSUME IInv, NEW c \in Calls, Fine(c)
  PROVE  IInv'
  <1>1. WorldTyped' /\ CallsTyped'
    BY WorldFine DEF Fine
  <1>2. TypeOK'
    BY <1>1 DEF TypeOK, WorldTyped, CallsTyped
  <1> QED BY <1>2, RestFine DEF Fine, IInv

\* The labels, apart from each other.
LEMMA Here ==
  ASSUME IInv, NEW c \in Calls
  PROVE  /\ CallsTyped /\ CallFacts(c) /\ AloneFacts(c)
         /\ pc[c] # "new" => req[c] \in Requests
         /\ local[head] \in Content /\ staged \in Content /\ unadded \in Content
  BY WorkingRequest DEF IInv, Facts, HeadFacts, TypeOK, CallsTyped

LEMMA AdmitFine ==
  ASSUME IInv, NEW c \in Calls, NEW r \in Requests, Admit(c, r)
  PROVE  Fine(c)
  <1>1. /\ CallsTyped /\ CallFacts(c) /\ AloneFacts(c) /\ pc[c] = "new"
    BY Here DEF Admit
  <1>2. CallsTyped'
    BY <1>1 DEF Admit, CallsTyped, Goto, history
  <1>3. /\ pc'[c] = "base" /\ req'[c] = r /\ step'[c] \in {"none", "running"}
        /\ UNCHANGED <<status, git, prs, file, failed, iteration, rollback, commitHash,
                       recorded,
                       answer, history>>
        /\ \A d \in Calls \ {c} : Same(d)
    BY <1>1 DEF Admit, CallsTyped, Goto, Same, history
  <1>4. Moves(c)
    BY <1>1, <1>3 DEF Moves, TreeStep, history, Tree, Past, Ending, RolledBack
  <1>5. CallFacts(c)'
    <2>1. Cleared(c)'
      <3>1. /\ ApprovalOf[r.approval] \in [run : Runs, scope : {"code_write", "path_change"}]
            /\ status[r.approval] = "approved" /\ r.approval \in Ids
            /\ ApprovalOf[r.approval].run = r.run /\ ApprovalOf[r.approval].scope = "code_write"
            /\ r.paths # "forbidden"
        BY RequestShape, ConfigAssumption DEF Admit, Admissible
      <3>2. ApprovalOf[r.approval] = [run |-> r.run, scope |-> "code_write"]
        BY <3>1
      <3>3. r.approval \in approved'
        BY <1>3, <3>1 DEF IInv, Facts, GivenFacts, history
      <3> QED BY <1>3, <3>1, <3>2, <3>3 DEF Cleared
    <2>2. r.tool = RepairLoop => Iterations(r) <= RepairMaxIterations
      BY DEF Admit, Admissible
    <2> QED BY <1>1, <1>3, <2>1, <2>2, RequestShape
            DEF CallFacts, Working, Tree, Past, Ending, BeforeQA, RollingBack
  <1>6. AloneFacts(c)'
    BY <1>1, <1>3 DEF AloneFacts, Files, Own, history
  <1> QED BY <1>2, <1>4, <1>5, <1>6 DEF Fine

LEMMA RefuseFine ==
  ASSUME IInv, NEW c \in Calls, NEW r \in Requests, Refuse(c, r) \/ StartStepFails(c, r)
  PROVE  Fine(c)
  <1>1. /\ CallsTyped /\ CallFacts(c) /\ AloneFacts(c) /\ pc[c] = "new"
    BY Here DEF Refuse, StartStepFails
  <1>2. CallsTyped'
    <2>1. CASE Refuse(c, r)
      BY <1>1, <2>1 DEF Refuse, CallsTyped, Goto, End, history
    <2>2. CASE StartStepFails(c, r)
      BY <1>1, <2>2 DEF StartStepFails, CallsTyped, Goto, End, history
    <2> QED BY <2>1, <2>2
  <1>3. /\ pc'[c] = "done" /\ req'[c] = r /\ answer'[c] \in {"refused", "unstarted"}
        /\ step'[c] \in {"none", "running"}
        /\ UNCHANGED <<status, git, prs, file, failed, iteration, rollback, commitHash,
                       recorded,
                       history>>
        /\ \A d \in Calls \ {c} : Same(d)
    <2>1. CASE Refuse(c, r)
      BY <1>1, <2>1 DEF Refuse, CallsTyped, CallFacts, Goto, End, Same, history
    <2>2. CASE StartStepFails(c, r)
      BY <1>1, <2>2 DEF StartStepFails, CallsTyped, CallFacts, Goto, End, Same, history
    <2> QED BY <2>1, <2>2
  <1>4. Moves(c)
    BY <1>1, <1>3 DEF Moves, TreeStep, history, Tree, Past, Ending, RolledBack
  <1>5. CallFacts(c)'
    BY <1>1, <1>3, RequestShape DEF CallFacts, Working, Tree, Past, Ending, BeforeQA,
                                    RollingBack
  <1>6. AloneFacts(c)'
    BY <1>1, <1>3 DEF AloneFacts, Files, Own, history, Tree, Past
  <1> QED BY <1>2, <1>4, <1>5, <1>6 DEF Fine

LEMMA PlanFine ==
  ASSUME IInv, NEW c \in Calls, Plan(c)
  PROVE  Fine(c)
  <1>1. /\ CallsTyped /\ CallFacts(c) /\ AloneFacts(c) /\ pc[c] = "base" /\ req[c].dry
    BY Here DEF Plan
  <1>2. CallsTyped'
    BY <1>1 DEF Plan, CallsTyped, Goto, history
  <1>3. /\ pc'[c] = "record"
        /\ UNCHANGED <<status, git, prs, req, file, failed, iteration, rollback, commitHash,
                       step,
                       recorded, answer, history>>
        /\ \A d \in Calls \ {c} : Same(d)
    BY <1>1 DEF Plan, CallsTyped, Goto, Same, history
  <1>4. Moves(c)
    BY <1>1, <1>3 DEF Moves, TreeStep, history, Tree, Past, Ending, RolledBack, CallFacts,
                      BeforeQA
  <1>5. CallFacts(c)'
    BY <1>1, <1>3 DEF CallFacts, Working, Tree, Past, Ending, BeforeQA, RollingBack, Cleared,
                      Delivered, history
  <1>6. AloneFacts(c)'
    BY <1>1, <1>3 DEF AloneFacts, Files, Own, history, Tree, Past
  <1> QED BY <1>2, <1>4, <1>5, <1>6 DEF Fine

LEMMA CheckoutBaseFine ==
  ASSUME IInv, NEW c \in Calls, CheckoutBase(c)
  PROVE  Fine(c)
  <1>1. /\ CallsTyped /\ CallFacts(c) /\ AloneFacts(c) /\ pc[c] = "base" /\ ~ req[c].dry
        /\ req[c] \in Requests
    BY Here DEF CheckoutBase
  <1>2. CallsTyped'
    BY <1>1 DEF CheckoutBase, CallsTyped, Goto
  <1>3. /\ pc'[c] = "branch" /\ GitCheckout(req[c].base) /\ EnterTree(c)
        /\ UNCHANGED <<status, prs, req, file, failed, iteration, rollback, commitHash, step,
                       recorded, answer, approved, tested>>
        /\ \A d \in Calls \ {c} : Same(d)
    BY <1>1 DEF CheckoutBase, CallsTyped, Goto, Same
  <1>4. Moves(c)
    BY <1>1, <1>3 DEF CallFacts, Moves, TreeStep, Entering, Tree, Past, Ending, RolledBack
  <1>5. CallFacts(c)'
    BY <1>1, <1>3 DEF CallFacts, Working, Tree, Past, Ending, BeforeQA, RollingBack, Cleared
  <1>6. AloneFacts(c)'
    <2> SUFFICES ASSUME alone'[c] # NoBranch PROVE AloneFacts(c)'
      BY DEF AloneFacts, Files, Own
    <2>1. alone[c] = NoBranch
      BY <1>1 DEF AloneFacts, Files, Own
    <2>2. FoundClean(c) /\ alone'[c] = remote[req[c].base]
      BY <1>3, <2>1 DEF EnterTree
    <2>3. /\ local[req[c].base] = alone'[c] /\ local'[head'] = alone'[c]
          /\ staged' = {} /\ unadded' = {}
      <3>1. req[c].base \in Branches /\ local \in [Branches -> Content \cup {NoBranch}]
        BY <1>1, RequestShape DEF IInv, TypeOK
      <3> QED BY <1>3, <2>2, <3>1 DEF FoundClean, GitCheckout
    <2>4. InTree' = {c}
      BY <1>3, <2>2 DEF FoundClean, InTree, Same
    <2> QED BY <1>3, <2>3, <2>4 DEF AloneFacts, Files, Own
  <1> QED BY <1>2, <1>4, <1>5, <1>6 DEF Fine

LEMMA RunCommandFine ==
  ASSUME IInv, NEW c \in Calls, RunCommand(c)
  PROVE  Fine(c)
  <1> DEFINE b == req[c].head
             X == alone[c]
  <1>1. /\ CallsTyped /\ CallFacts(c) /\ AloneFacts(c)
        /\ pc[c] \in {"branch", "write", "add", "commit", "push"}
        /\ req[c] \in Requests /\ b \in Branches
        /\ req[c].files \in 1..MaxFiles /\ MaxFiles \in Nat
    <2>1. pc[c] \in {"branch", "write", "add", "commit", "push"}
      BY DEF RunCommand, Commands
    <2> QED BY <2>1, Here, RequestShape
  <1>2. /\ pc' = [pc EXCEPT ![c] = After(c)[pc[c]]] /\ Command(c)
        /\ file' = IF pc[c] = "write" THEN [file EXCEPT ![c] = @ + 1] ELSE file
        /\ UNCHANGED <<status, prs, req, failed, iteration, rollback, commitHash, step,
                       recorded, answer, history>>
    BY DEF RunCommand, Goto
  <1>3. /\ pc[c] = "branch" => pc'[c] = "write" /\ GitCheckoutNew(b)
        /\ pc[c] = "write" => pc'[c] = "add" /\ WriteFile(c)
        /\ pc[c] = "add" => /\ GitAdd(c)
                           /\ pc'[c] = IF file[c] < req[c].files THEN "write" ELSE "commit"
        /\ pc[c] = "commit" => pc'[c] = "push" /\ GitCommit
        /\ pc[c] = "push" => pc'[c] = "hash" /\ GitPush(b)
    BY <1>1, <1>2 DEF CallsTyped, After, Command
  <1>4. /\ file[c] \in 0..MaxFiles
        /\ file'[c] = IF pc[c] = "write" THEN file[c] + 1 ELSE file[c]
        /\ \A d \in Calls \ {c} : file'[d] = file[d]
    BY <1>1, <1>2 DEF CallsTyped
  <1>5. \A d \in Calls \ {c} : Same(d)
    BY <1>1, <1>2, <1>4 DEF CallsTyped, Same, history
  <1>6. pc'[c] \in {"write", "add", "commit", "push", "hash"}
    BY <1>1, <1>3
  <1>7. Moves(c)
    <2>1. TreeStep(c)
      BY <1>1, <1>2, <1>3, <1>6 DEF TreeStep, GitStep, Tree, Past, history
    <2>2. rollback'[c] = "none" /\ ~ RolledBack(c)' /\ answer'[c] = "none"
      BY <1>1, <1>2, <1>6 DEF CallFacts, BeforeQA, RolledBack
    <2> QED BY <1>1, <1>2, <1>5, <1>6, <2>1, <2>2 DEF Moves, Ending, history
  <1>8. /\ pc'[c] = "write" => file'[c] < req[c].files
        /\ pc'[c] = "add" => file'[c] \in 1..req[c].files
    <2>1. pc'[c] = "write" => file[c] = 0 \/ file[c] < req[c].files
      BY <1>1, <1>3 DEF CallFacts
    <2>2. pc'[c] = "add" => pc[c] = "write" /\ file[c] < req[c].files
      BY <1>1, <1>3 DEF CallFacts
    <2>3. pc'[c] = "write" => pc[c] # "write"
      BY <1>1, <1>3
    <2> QED BY <1>1, <1>4, <2>1, <2>2, <2>3
  <1>9. CallsTyped'
    <2>1. pc' \in [Calls -> {"new", "base", "branch", "write", "add", "commit", "push", "hash",
                            "qa", "rbase", "rdelete", "rpush", "pr", "record", "close",
                            "answer", "done", "gone"}]
      BY <1>1, <1>2, <1>6 DEF CallsTyped
    <2>2. file' \in [Calls -> 0..MaxFiles]
      <3>1. pc[c] = "write" => file[c] + 1 \in 0..MaxFiles
        BY <1>1, <1>4 DEF CallFacts
      <3> QED BY <1>1, <1>2, <3>1 DEF CallsTyped
    <2> QED BY <1>1, <1>2, <2>1, <2>2 DEF CallsTyped, history
  <1>10. CallFacts(c)'
    BY <1>1, <1>2, <1>6, <1>8
       DEF CallFacts, Working, Tree, Past, Ending, BeforeQA, RollingBack, Cleared, history
  <1>11. AloneFacts(c)'
    <2>1. CASE X = NoBranch
      BY <1>2, <1>6, <2>1 DEF AloneFacts, Files, Own, history
    <2>2. CASE X # NoBranch
      <3> DEFINE f == file[c]
                 n == req[c].files
      <3>1. /\ alone'[c] = X /\ req'[c] = req[c] /\ X \in Content /\ Own(c)' = Own(c)
        BY <1>2, <2>2 DEF history, Own, IInv, TypeOK
      <3>2. InTree' = {c}
        <4>1. InTree = {c}
          BY <1>1, <2>2 DEF AloneFacts, Files, Own, Tree, Past
        <4> QED BY <1>5, <1>6, <4>1 DEF InTree, Same
      <3>3. /\ local \in [Branches -> Content \cup {NoBranch}] /\ head \in Branches
            /\ remote \in [Branches -> Content \cup {NoBranch}]
        BY DEF IInv, TypeOK
      <3>4. CASE pc[c] = "branch"
        <4>1. local[head] = X /\ staged = {} /\ unadded = {} /\ file[c] = 0
          BY <1>1, <2>2, <3>4 DEF AloneFacts, CallFacts
        <4>2. head' = b /\ local'[b] = X /\ staged' = {} /\ unadded' = {}
          BY <1>1, <1>3, <3>3, <3>4, <4>1 DEF GitCheckoutNew
        <4>3. Files(c, file'[c]) = {}
          BY <1>4, <3>4, <4>1 DEF Files
        <4> QED BY <1>3, <3>1, <3>2, <3>4, <4>2, <4>3 DEF AloneFacts, Files, Own, Tree, Past
      <3>5. CASE pc[c] = "write"
        <4>1. head = b /\ local[b] = X /\ staged = Files(c, f) /\ unadded = {}
          BY <1>1, <2>2, <3>5 DEF AloneFacts, Files, Own
        <4>2. head' = b /\ local'[b] = X /\ staged' = Files(c, f) /\ unadded' = {<<c, f + 1>>}
          BY <1>3, <3>5, <4>1 DEF WriteFile
        <4>3. file'[c] = f + 1 /\ (f + 1) - 1 = f
          BY <1>4, <3>5
        <4> QED BY <1>3, <3>1, <3>2, <3>5, <4>2, <4>3 DEF AloneFacts, Files, Own, Tree, Past
      <3>6. CASE pc[c] = "add"
        <4>1. /\ head = b /\ local[b] = X
              /\ staged = Files(c, f - 1) /\ unadded = {<<c, f>>} /\ f \in 1..n
          BY <1>1, <2>2, <3>6 DEF AloneFacts, CallFacts
        <4>2. /\ head' = b /\ local'[b] = X
              /\ staged' = Files(c, f - 1) \cup {<<c, f>>} /\ unadded' = {}
          BY <1>3, <3>6, <4>1 DEF GitAdd
        <4>3. Files(c, f - 1) \cup {<<c, f>>} = Files(c, f)
          <5>1. 1..f = (1..(f - 1)) \cup {f}
            BY <1>1, <4>1
          <5> HIDE DEF f
          <5> QED BY <5>1 DEF Files
        <4>4. ~ (f < n) => Files(c, f) = Own(c)
          <5>1. ~ (f < n) => f = n
            BY <1>1, <4>1
          <5> QED BY <5>1 DEF Files, Own
        <4>5. file'[c] = f
          BY <1>4, <3>6
        <4>6. CASE f < n
          <5>1. pc'[c] = "write"
            BY <1>3, <3>6, <4>6
          <5> QED BY <3>1, <3>2, <4>2, <4>3, <4>5, <5>1 DEF AloneFacts, Files, Own, Tree, Past
        <4>7. CASE ~ (f < n)
          <5>1. pc'[c] = "commit"
            BY <1>3, <3>6, <4>7
          <5> QED BY <3>1, <3>2, <4>2, <4>3, <4>4, <4>7, <5>1 DEF AloneFacts, Files, Own,
                                                                  Tree, Past
        <4> QED BY <4>6, <4>7
      <3>7. CASE pc[c] = "commit"
        <4>1. head = b /\ local[b] = X /\ staged = Own(c) /\ unadded = {}
          BY <1>1, <2>2, <3>7 DEF AloneFacts, Files, Own
        <4>2. head' = b /\ local'[b] = X \cup Own(c) /\ staged' = {} /\ unadded' = {}
          BY <1>1, <1>3, <3>3, <3>7, <4>1 DEF GitCommit
        <4> QED BY <1>3, <3>1, <3>2, <3>7, <4>2 DEF AloneFacts, Files, Own, Tree, Past
      <3>8. CASE pc[c] = "push"
        <4>1. head = b /\ local[b] = X \cup Own(c) /\ staged = {} /\ unadded = {}
          BY <1>1, <2>2, <3>8 DEF AloneFacts, Files, Own
        <4>2. /\ head' = b /\ local'[b] = X \cup Own(c) /\ staged' = {} /\ unadded' = {}
              /\ remote'[b] = X \cup Own(c)
          BY <1>1, <1>3, <3>3, <3>8, <4>1 DEF GitPush
        <4> QED BY <1>3, <3>1, <3>2, <3>8, <4>2 DEF AloneFacts, Files, Own, Tree, Past
      <3> QED BY <1>1, <3>4, <3>5, <3>6, <3>7, <3>8
    <2> QED BY <2>1, <2>2
  <1> QED BY <1>7, <1>9, <1>10, <1>11 DEF Fine

LEMMA RevParseFine ==
  ASSUME IInv, NEW c \in Calls, RevParse(c)
  PROVE  Fine(c)
  <1>1. /\ CallsTyped /\ CallFacts(c) /\ AloneFacts(c) /\ pc[c] = "hash"
        /\ req[c] \in Requests /\ local[head] \in Content
    BY Here DEF RevParse
  <1>2. CallsTyped'
    BY <1>1 DEF RevParse, CallsTyped, Goto, history
  <1>3. /\ pc'[c] = IF req[c].tool = RepairLoop THEN "qa" ELSE "pr"
        /\ commitHash'[c] = local[head]
        /\ UNCHANGED <<status, git, prs, req, file, failed, iteration, rollback, step,
                       recorded,
                       answer, history>>
        /\ \A d \in Calls \ {c} : Same(d)
    BY <1>1 DEF RevParse, CallsTyped, Goto, Same, history
  <1>4. Moves(c)
    BY <1>1, <1>3 DEF CallFacts, Moves, TreeStep, history, Tree, Past, Ending, RolledBack
  <1>5. CallFacts(c)'
    <2>1. iteration[c] = 0 /\ 0 < Iterations(req[c])
      BY <1>1, RequestShape DEF CallFacts, BeforeQA
    <2>2. commitHash'[c] # NoBranch
      BY <1>1, <1>3, ContentShape
    <2>3. req[c].tool # RepairLoop => WentThrough(c)'
      BY <1>1, <1>3, <2>2 DEF CallFacts, WentThrough, Tree, Past
    <2> QED BY <1>1, <1>3, <2>1, <2>2, <2>3
            DEF CallFacts, Working, Tree, Past, Ending, BeforeQA, RollingBack, Cleared, history
  <1>6. AloneFacts(c)'
    <2>1. CASE alone[c] = NoBranch
      BY <1>3, <2>1 DEF AloneFacts, Files, Own, history
    <2>2. CASE alone[c] # NoBranch
      <3> DEFINE b == req[c].head
                 done == alone[c] \cup Own(c)
      <3>1. /\ InTree = {c} /\ head = b /\ local[b] = done /\ staged = {} /\ remote[b] = done
            /\ unadded = {}
        BY <1>1, <2>2 DEF AloneFacts, Files, Own, Tree, Past
      <3>2. \A d \in Calls \ {c} : pc'[d] \notin Tree
        BY <1>3, <3>1 DEF InTree, Tree, Past, Same
      <3>3. commitHash'[c] = done /\ done # NoBranch
        BY <1>1, <1>3, <3>1, ContentShape
      <3>4. CASE req[c].tool = RepairLoop
        <4>1. InTree' = {c}
          BY <1>3, <3>2, <3>4 DEF InTree, Tree, Past
        <4> QED BY <1>3, <3>1, <3>3, <3>4, <4>1 DEF AloneFacts, Files, Own, history, git,
                                                    Tree, Past
      <3>5. CASE req[c].tool # RepairLoop
        BY <1>3, <3>1, <3>2, <3>3, <3>5 DEF AloneFacts, Files, Own, history, git, Tree, Past
      <3> QED BY <3>4, <3>5
    <2> QED BY <2>1, <2>2
  <1> QED BY <1>2, <1>4, <1>5, <1>6 DEF Fine

LEMMA ExecuteFailsFine ==
  ASSUME IInv, NEW c \in Calls, ExecuteFails(c)
  PROVE  Fine(c)
  <1>1. /\ CallsTyped /\ CallFacts(c) /\ AloneFacts(c)
        /\ pc[c] \in {"base", "hash", "branch", "write", "add", "commit", "push"}
        /\ req[c] \in Requests
    <2>1. pc[c] \in {"base", "hash", "branch", "write", "add", "commit", "push"}
      BY DEF ExecuteFails, Commands
    <2> QED BY <2>1, Here
  <1>2. CallsTyped'
    BY <1>1 DEF ExecuteFails, CallsTyped, Goto, Fail
  <1>3. /\ pc'[c] = "record" /\ failed'[c] = TRUE
        /\ UNCHANGED <<status, prs, req, file, iteration, rollback, commitHash, step, recorded,
                       answer, approved, tested>>
        /\ \A d \in Calls \ {c} : Same(d)
    BY <1>1 DEF ExecuteFails, CallsTyped, Goto, Fail, Same
  <1>4. rollback'[c] = "none"
    BY <1>1, <1>3 DEF CallFacts, BeforeQA
  <1>5. Moves(c)
    <2>1. \/ UNCHANGED <<git, alone>> \/ Entering(c)
          \/ pc[c] \in Tree /\ Command(c) /\ UNCHANGED alone
      BY <1>1, <1>3 DEF ExecuteFails, Entering, Tree, Past, Commands
    <2>2. TreeStep(c)
      BY <1>3, <2>1 DEF TreeStep, GitStep, Tree, Past
    <2> QED BY <1>1, <1>3, <1>4, <2>2 DEF CallFacts, Moves, Ending, RolledBack
  <1>6. CallFacts(c)'
    BY <1>1, <1>3 DEF CallFacts, Working, Tree, Past, Ending, BeforeQA, RollingBack, Cleared
  <1>7. AloneFacts(c)'
    BY <1>3 DEF AloneFacts, Files, Own, Tree, Past
  <1> QED BY <1>2, <1>5, <1>6, <1>7 DEF Fine

LEMMA QAPassesFine ==
  ASSUME IInv, NEW c \in Calls, QAPasses(c)
  PROVE  Fine(c)
  <1>1. /\ CallsTyped /\ CallFacts(c) /\ AloneFacts(c) /\ pc[c] = "qa" /\ req[c] \in Requests
        /\ local[head] \in Content /\ staged \in Content /\ unadded \in Content
    BY Here DEF QAPasses
  <1>2. /\ iteration[c] \in Nat /\ iteration[c] < Iterations(req[c])
        /\ Iterations(req[c]) \in Nat /\ Iterations(req[c]) <= RepairMaxIterations
        /\ RepairMaxIterations \in Nat
    BY <1>1, RequestShape, ConfigAssumption DEF CallFacts, CallsTyped, Working, Tree, Past
  <1>3. /\ local[head] \cup staged \cup unadded \in Content
        /\ local[head] \cup staged \cup unadded # NoBranch
    <2>1. local[head] \cup staged \cup unadded \in Content
      BY <1>1 DEF Content
    <2> QED BY <2>1, ContentShape
  <1>4. CallsTyped'
    <2>1. iteration[c] + 1 \in 0..RepairMaxIterations
      BY <1>2
    <2> QED BY <1>1, <1>3, <2>1 DEF QAPasses, CallsTyped, Goto
  <1>5. /\ pc'[c] = "pr" /\ iteration'[c] = iteration[c] + 1
        /\ tested'[c] = local[head] \cup staged \cup unadded
        /\ UNCHANGED <<status, git, prs, req, file, failed, rollback, commitHash, step,
                       recorded,
                       answer, approved, alone>>
        /\ \A d \in Calls \ {c} : Same(d)
    BY <1>1 DEF QAPasses, CallsTyped, Goto, Same
  <1>6. Moves(c)
    BY <1>1, <1>5 DEF CallFacts, Moves, TreeStep, Tree, Past, Ending, RolledBack
  <1>7. CallFacts(c)'
    <2>1. WentThrough(c)'
      BY <1>1, <1>2, <1>3, <1>5
         DEF CallFacts, WentThrough, Iterations, Tree, Past, BeforeQA
    <2> QED BY <1>1, <1>5, <2>1
            DEF CallFacts, Working, Tree, Past, Ending, BeforeQA, RollingBack, Cleared
  <1>8. AloneFacts(c)'
    <2>1. CASE alone[c] = NoBranch
      BY <1>5, <2>1 DEF AloneFacts, Files, Own
    <2>2. CASE alone[c] # NoBranch
      <3> DEFINE b == req[c].head
                 done == alone[c] \cup Own(c)
      <3>1. /\ InTree = {c} /\ head = b /\ local[b] = done /\ staged = {} /\ remote[b] = done
            /\ unadded = {}
            /\ commitHash[c] = done
        BY <1>1, <2>2 DEF AloneFacts, Files, Own, Tree, Past
      <3>2. \A d \in Calls \ {c} : pc'[d] \notin Tree
        BY <1>5, <3>1 DEF InTree, Tree, Past, Same
      <3>3. tested'[c] = done /\ done # NoBranch
        BY <1>1, <1>5, <3>1, ContentShape
      <3> QED BY <1>5, <3>1, <3>2, <3>3 DEF AloneFacts, Files, Own, git, Tree, Past
    <2> QED BY <2>1, <2>2
  <1> QED BY <1>4, <1>6, <1>7, <1>8 DEF Fine

LEMMA QAFailsFine ==
  ASSUME IInv, NEW c \in Calls, QAFails(c)
  PROVE  Fine(c)
  <1>1. /\ CallsTyped /\ CallFacts(c) /\ AloneFacts(c) /\ pc[c] = "qa" /\ req[c] \in Requests
    BY Here DEF QAFails
  <1>2. /\ iteration[c] \in Nat /\ iteration[c] < Iterations(req[c])
        /\ Iterations(req[c]) \in Nat /\ Iterations(req[c]) <= RepairMaxIterations
        /\ RepairMaxIterations \in Nat
    BY <1>1, RequestShape, ConfigAssumption DEF CallFacts, CallsTyped, Working, Tree, Past
  <1>3. CallsTyped'
    <2>1. iteration[c] + 1 \in 0..RepairMaxIterations
      BY <1>2
    <2> QED BY <1>1, <2>1 DEF QAFails, CallsTyped, Goto, Fail, history
  <1>4. /\ iteration'[c] = iteration[c] + 1
        /\ \/ /\ iteration'[c] < Iterations(req[c])
              /\ pc'[c] = "qa" /\ failed'[c] = failed[c]
           \/ pc'[c] = "rbase" /\ failed'[c] = TRUE
        /\ UNCHANGED <<status, git, prs, req, file, rollback, commitHash, step, recorded,
                       answer,
                       history>>
        /\ \A d \in Calls \ {c} : Same(d)
    BY <1>1 DEF QAFails, CallsTyped, Goto, Fail, Same, history
  <1>5. Moves(c)
    BY <1>1, <1>4 DEF CallFacts, Moves, TreeStep, Tree, Past, Ending, RolledBack, history
  <1>6. CallFacts(c)'
    BY <1>1, <1>4 DEF CallFacts, Working, Tree, Past, Ending, BeforeQA, RollingBack, Cleared,
                      history
  <1>7. AloneFacts(c)'
    <2>1. InTree' = InTree
      BY <1>1, <1>4 DEF InTree, Same
    <2> QED BY <1>1, <1>4, <2>1 DEF AloneFacts, Files, Own, history, git, Tree, Past
  <1> QED BY <1>3, <1>5, <1>6, <1>7 DEF Fine

LEMMA RollbackCheckoutFine ==
  ASSUME IInv, NEW c \in Calls, RollbackCheckout(c)
  PROVE  Fine(c)
  <1>1. /\ CallsTyped /\ CallFacts(c) /\ AloneFacts(c) /\ pc[c] = "rbase"
        /\ req[c] \in Requests
    BY Here DEF RollbackCheckout
  <1>2. CallsTyped'
    BY <1>1 DEF RollbackCheckout, CallsTyped, Goto, history
  <1>3. /\ \/ pc'[c] = "rdelete" /\ rollback'[c] = "clean"
           \/ pc'[c] = "record" /\ rollback'[c] = "error"
        /\ UNCHANGED git \/ GitCheckout(req[c].base)
        /\ UNCHANGED <<status, prs, req, file, failed, iteration, commitHash, step, recorded,
                       answer, history>>
        /\ \A d \in Calls \ {c} : Same(d)
    BY <1>1 DEF RollbackCheckout, CallsTyped, Goto, Same, history
  <1>4. Moves(c)
    <2>1. TreeStep(c)
      BY <1>1, <1>3 DEF TreeStep, GitStep, Tree, Past, history
    <2> QED BY <1>1, <1>3, <2>1 DEF CallFacts, Moves, Ending, RolledBack, history
  <1>5. CallFacts(c)'
    BY <1>1, <1>3 DEF CallFacts, Working, Tree, Past, Ending, BeforeQA, RollingBack, Cleared,
                      history
  <1>6. AloneFacts(c)'
    <2>1. pc'[c] \in Tree => InTree' = InTree
      BY <1>1, <1>3 DEF InTree, Same, Tree, Past
    <2> QED BY <1>1, <1>3, <2>1 DEF AloneFacts, Files, Own, history, Tree, Past
  <1> QED BY <1>2, <1>4, <1>5, <1>6 DEF Fine

LEMMA RollbackDeleteFine ==
  ASSUME IInv, NEW c \in Calls, RollbackDelete(c)
  PROVE  Fine(c)
  <1>1. /\ CallsTyped /\ CallFacts(c) /\ AloneFacts(c) /\ pc[c] \in {"rdelete", "rpush"}
        /\ req[c] \in Requests /\ req[c].head \in Branches
    <2>1. pc[c] \in {"rdelete", "rpush"}
      BY DEF RollbackDelete
    <2> QED BY <2>1, Here, RequestShape
  <1>2. CallsTyped'
    BY <1>1 DEF RollbackDelete, CallsTyped, Goto, history
  <1>3. /\ pc'[c] = IF pc[c] = "rdelete" THEN "rpush" ELSE "record"
        /\ \/ UNCHANGED git
           \/ pc[c] = "rdelete" /\ GitDelete(req[c].head)
           \/ pc[c] = "rpush" /\ GitPushDelete(req[c].head)
        /\ UNCHANGED <<status, prs, req, file, failed, iteration, commitHash, step, recorded,
                       answer, history>>
        /\ \A d \in Calls \ {c} : Same(d)
    BY <1>1 DEF RollbackDelete, CallsTyped, Goto, Same, history
  <1>4. pc[c] = "rpush" /\ rollback'[c] = "clean" => remote'[req[c].head] = NoBranch
    <2>1. remote \in [Branches -> Content \cup {NoBranch}]
      BY DEF IInv, TypeOK
    <2> QED BY <1>1, <2>1 DEF RollbackDelete, CallsTyped, GitPushDelete
  <1>5. Moves(c)
    <2>1. TreeStep(c)
      BY <1>1, <1>3 DEF TreeStep, GitStep, Tree, Past, history
    <2> QED BY <1>1, <1>3, <1>4, <2>1 DEF CallFacts, Moves, Ending, RolledBack, history
  <1>6. CallFacts(c)'
    BY <1>1, <1>3 DEF CallFacts, Working, Tree, Past, Ending, BeforeQA, RollingBack, Cleared,
                      history
  <1>7. AloneFacts(c)'
    <2>1. pc'[c] \in Tree => InTree' = InTree
      BY <1>1, <1>3 DEF InTree, Same, Tree, Past
    <2> QED BY <1>1, <1>3, <2>1 DEF AloneFacts, Files, Own, history, Tree, Past
  <1> QED BY <1>2, <1>5, <1>6, <1>7 DEF Fine

LEMMA OpenPRFine ==
  ASSUME IInv, NEW c \in Calls, OpenPR(c) \/ OpenPRFails(c)
  PROVE  Fine(c)
  <1>1. /\ CallsTyped /\ CallFacts(c) /\ AloneFacts(c) /\ pc[c] = "pr"
        /\ req[c] \in Requests
    BY Here DEF OpenPR, OpenPRFails
  <1>2. CallsTyped'
    <2>1. CASE OpenPR(c)
      BY <1>1, <2>1 DEF OpenPR, CallsTyped, Goto, history
    <2>2. CASE OpenPRFails(c)
      BY <1>1, <2>2 DEF OpenPRFails, CallsTyped, Goto, Fail, history
    <2> QED BY <2>1, <2>2
  <1>3. /\ pc'[c] = "record" /\ (prs' = prs \/ Opened(c))
        /\ failed'[c] \/ (failed'[c] = failed[c] /\ Opened(c))
        /\ UNCHANGED <<status, git, req, file, iteration, rollback, commitHash, step, recorded,
                       answer, history>>
        /\ \A d \in Calls \ {c} : Same(d)
    <2>1. CASE OpenPR(c)
      BY <1>1, <2>1 DEF OpenPR, CallsTyped, Goto, Same, history
    <2>2. CASE OpenPRFails(c)
      BY <1>1, <2>2 DEF OpenPRFails, CallsTyped, Goto, Fail, Same, history
    <2> QED BY <2>1, <2>2
  <1>4. Moves(c)
    <2>1. TreeStep(c)
      BY <1>1, <1>3 DEF TreeStep, Tree, Past, history
    <2>2. rollback'[c] = "none"
      BY <1>1, <1>3 DEF CallFacts
    <2> QED BY <1>1, <1>3, <2>1, <2>2 DEF CallFacts, Moves, Ending, RolledBack, history
  <1>5. CallFacts(c)'
    <2>1. ~ failed'[c] => Delivered(c)'
      <3> DEFINE pr == [call |-> c, head |-> req[c].head, base |-> req[c].base,
                        content |-> remote[req[c].head]]
      <3>1. Opened(c) => pr \in prs'
        BY DEF Opened
      <3>2. Opened(c) => \E p \in prs' : /\ p.call = c /\ p.head = req[c].head
                                        /\ p.base = req[c].base
        BY <3>1
      <3> QED BY <1>3, <3>2 DEF Delivered
    <2> QED BY <1>1, <1>3, <2>1
            DEF CallFacts, Working, Tree, Past, Ending, BeforeQA, RollingBack, Cleared, history
  <1>6. AloneFacts(c)'
    BY <1>3 DEF AloneFacts, Files, Own, Tree, Past
  <1> QED BY <1>2, <1>4, <1>5, <1>6 DEF Fine

\* Record, RecordFails, FinishStep and Answer only set what is recorded and answered.
LEMMA Closing ==
  ASSUME IInv, NEW c \in Calls, pc[c] \in Ending, pc'[c] \in Ending \cup {"done"},
         answer'[c] \notin {"refused", "unstarted"},
         UNCHANGED <<status, git, prs, req, file, failed, iteration, rollback, commitHash,
                     history>>,
         \A d \in Calls \ {c} : Same(d)
  PROVE  /\ Moves(c) /\ AloneFacts(c)' /\ (Cleared(c)' <=> Cleared(c))
         /\ (Delivered(c)' <=> Delivered(c))
  <1>1. Moves(c)
    BY DEF Moves, TreeStep, Tree, Past, Ending, RolledBack, history
  <1>2. AloneFacts(c)'
    BY DEF AloneFacts, Files, Own, Tree, Past, Ending
  <1> QED BY <1>1, <1>2 DEF Cleared, Delivered, history

LEMMA RecordFine ==
  ASSUME IInv, NEW c \in Calls, Record(c) \/ RecordFails(c)
  PROVE  Fine(c)
  <1>1. /\ CallsTyped /\ CallFacts(c) /\ pc[c] = "record" /\ req[c] \in Requests
    BY Here DEF Record, RecordFails
  <1>2. CallsTyped'
    <2>1. Outcome(c) \in [Calls -> {"none", "ok", "fail"}]
      BY <1>1 DEF CallsTyped, Outcome
    <2>2. recorded' \in {recorded, Outcome(c)}
      BY DEF Record, RecordFails
    <2>3. CASE Record(c)
      BY <1>1, <2>1, <2>2, <2>3 DEF Record, CallsTyped, Goto, history
    <2>4. CASE RecordFails(c)
      BY <1>1, <2>1, <2>2, <2>4 DEF RecordFails, CallsTyped, Goto, End, history
    <2> QED BY <2>3, <2>4
  <1>3. /\ UNCHANGED <<status, git, prs, req, file, failed, iteration, rollback, commitHash,
                       step, history>>
        /\ \A d \in Calls \ {c} : Same(d)
        /\ \/ /\ pc'[c] \in {"close", "answer"} /\ answer'[c] = answer[c]
              /\ recorded'[c] = IF failed[c] THEN "fail" ELSE "ok"
           \/ pc'[c] = "done" /\ answer'[c] = "audit_error"
    <2>1. CASE Record(c)
      BY <1>1, <2>1 DEF Record, CallsTyped, Goto, Outcome, Same, history
    <2>2. CASE RecordFails(c)
      BY <1>1, <2>2 DEF RecordFails, CallsTyped, Goto, End, Outcome, Same, history
    <2> QED BY <2>1, <2>2
  <1>4. /\ pc'[c] \in Ending \cup {"done"} /\ answer'[c] \notin {"refused", "unstarted"}
        /\ pc[c] \in Ending /\ answer[c] = "none" /\ step[c] \in {"none", "running"}
    BY <1>1, <1>3 DEF Ending, CallFacts
  <1>5. /\ Moves(c) /\ AloneFacts(c)' /\ (Cleared(c)' <=> Cleared(c))
        /\ (Delivered(c)' <=> Delivered(c))
    BY <1>3, <1>4, Closing
  <1>6. CallFacts(c)'
    BY <1>1, <1>3, <1>4, <1>5
       DEF CallFacts, Working, Tree, Past, Ending, BeforeQA, RollingBack
  <1> QED BY <1>2, <1>5, <1>6 DEF Fine

LEMMA FinishStepFine ==
  ASSUME IInv, NEW c \in Calls, FinishStep(c)
  PROVE  Fine(c)
  <1>1. /\ CallsTyped /\ CallFacts(c) /\ pc[c] = "close" /\ req[c] \in Requests
    BY Here DEF FinishStep
  <1>2. CallsTyped'
    BY <1>1 DEF FinishStep, CallsTyped, Goto, history
  <1>3. /\ UNCHANGED <<status, git, prs, req, file, failed, iteration, rollback, commitHash,
                       recorded, answer, history>>
        /\ \A d \in Calls \ {c} : Same(d)
        /\ pc'[c] = "answer"
        /\ step'[c] \in {step[c], IF failed[c] THEN "failed" ELSE "completed"}
    BY <1>1 DEF FinishStep, CallsTyped, Goto, Same, history
  <1>4. /\ pc'[c] \in Ending \cup {"done"} /\ answer'[c] = "none" /\ pc[c] \in Ending
    BY <1>1, <1>3 DEF Ending, CallFacts
  <1>5. /\ Moves(c) /\ AloneFacts(c)' /\ (Cleared(c)' <=> Cleared(c))
        /\ (Delivered(c)' <=> Delivered(c))
    BY <1>3, <1>4, Closing
  <1>6. CallFacts(c)'
    BY <1>1, <1>3, <1>4, <1>5
       DEF CallFacts, Working, Tree, Past, Ending, BeforeQA, RollingBack
  <1> QED BY <1>2, <1>5, <1>6 DEF Fine

LEMMA AnswerFine ==
  ASSUME IInv, NEW c \in Calls, Answer(c)
  PROVE  Fine(c)
  <1>1. /\ CallsTyped /\ CallFacts(c) /\ pc[c] = "answer" /\ req[c] \in Requests
    BY Here DEF Answer
  <1>2. CallsTyped'
    BY <1>1 DEF Answer, CallsTyped, Goto, End, history
  <1>3. /\ UNCHANGED <<status, git, prs, req, file, failed, iteration, rollback, commitHash,
                       step, recorded, history>>
        /\ \A d \in Calls \ {c} : Same(d)
        /\ pc'[c] = "done" /\ answer'[c] = IF failed[c] THEN "error" ELSE "ok"
    BY <1>1 DEF Answer, CallsTyped, Goto, End, Same, history
  <1>4. /\ pc'[c] \in Ending \cup {"done"} /\ answer'[c] \notin {"refused", "unstarted"}
        /\ pc[c] \in Ending
    BY <1>1, <1>3 DEF Ending
  <1>5. /\ Moves(c) /\ AloneFacts(c)' /\ (Cleared(c)' <=> Cleared(c))
        /\ (Delivered(c)' <=> Delivered(c))
    BY <1>3, <1>4, Closing
  <1>6. CallFacts(c)'
    BY <1>1, <1>3, <1>4, <1>5
       DEF CallFacts, Working, Tree, Past, Ending, BeforeQA, RollingBack
  <1> QED BY <1>2, <1>5, <1>6 DEF Fine

------------------------------------------------------------------------------
(* The other steps, and the induction. *)

LEMMA ResolveFine ==
  ASSUME IInv, NEW id \in Ids, NEW verdict \in {"approved", "rejected"}, Resolve(id, verdict)
  PROVE  IInv'
  <1>1. /\ status' = [status EXCEPT ![id] = verdict]
        /\ approved' = IF verdict = "approved" THEN approved \cup {id} ELSE approved
        /\ UNCHANGED <<git, prs, call, alone, tested>>
    BY DEF Resolve
  <1>2. approved \subseteq approved'
    BY <1>1
  <1>3. TypeOK'
    BY <1>1 DEF IInv, TypeOK, git, call
  <1>4. \A c \in Calls : Cleared(c) => Cleared(c)'
    BY <1>1, <1>2 DEF Cleared, call
  <1>5. \A c \in Calls : CallFacts(c)'
    <2> TAKE c \in Calls
    <2>1. CallFacts(c)
      BY DEF IInv, Facts
    <2>2. (Delivered(c)' <=> Delivered(c)) /\ (WentThrough(c)' <=> WentThrough(c))
      BY <1>1 DEF Delivered, WentThrough, call, history
    <2>3. Same(c)
      BY <1>1 DEF Same, call
    <2>4. Cleared(c) => Cleared(c)'
      BY <1>4
    <2> QED BY <2>1, <2>2, <2>3, <2>4 DEF CallFacts, Same
  <1>6. UseFacts'
    <2>1. InUse' = InUse
      BY <1>1 DEF InUse, Of, git
    <2> QED BY <1>1, <1>2, <2>1 DEF UseFacts, Cleared, call, IInv, Facts
  <1>7. GivenFacts'
    BY <1>1 DEF GivenFacts, IInv, Facts, TypeOK
  <1>8. PRFacts' /\ HeadFacts' /\ RemoteHasOwner' /\ AloneIsExact'
    BY <1>1 DEF IInv, Facts, PRFacts, WentThrough, HeadFacts, RemoteHasOwner, RolledBack,
                Admitted, AloneIsExact, Own,
                git, call
  <1>9. \A c \in Calls : AloneFacts(c)'
    <2> TAKE c \in Calls
    <2>1. AloneFacts(c)
      BY DEF IInv, Facts
    <2>2. InTree' = InTree
      BY <1>1 DEF InTree, call
    <2> QED BY <1>1, <2>1, <2>2 DEF AloneFacts, Files, Own, git, call
  <1> QED BY <1>3, <1>5, <1>6, <1>7, <1>8, <1>9 DEF IInv, Facts

LEMMA CrashFine ==
  ASSUME IInv, Crash
  PROVE  IInv'
  <1>1. /\ pc' = [c \in Calls |-> IF pc[c] \in {"new", "done"} THEN pc[c] ELSE "gone"]
        /\ UNCHANGED <<status, git, prs, req, file, failed, iteration, rollback, commitHash,
                       step,
                       recorded, answer, history>>
    BY DEF Crash
  <1>2. TypeOK'
    BY <1>1 DEF IInv, TypeOK, git, history
  <1>3. \A c \in Calls : pc'[c] \in {"new", "done", "gone"} /\
                         (pc'[c] = "gone" \/ pc'[c] = pc[c])
    BY <1>1
  <1>4. \A c \in Calls : CallFacts(c)'
    <2> TAKE c \in Calls
    <2>1. CallFacts(c)
      BY DEF IInv, Facts
    <2>2. (Delivered(c)' <=> Delivered(c)) /\ (Cleared(c)' <=> Cleared(c))
      BY <1>1 DEF Delivered, Cleared, history
    <2>3. pc'[c] = pc[c] \/ (pc'[c] = "gone" /\ pc[c] \notin {"new", "done"})
      BY <1>1
    <2>4. pc'[c] \in {"new", "done", "gone"}
      BY <1>3
    <2> QED BY <1>1, <2>1, <2>2, <2>3, <2>4
            DEF CallFacts, Working, Tree, Past, Ending, BeforeQA, RollingBack
  <1>5. UseFacts'
    <2>1. InUse' = InUse
      BY <1>1 DEF InUse, Of, git
    <2> QED BY <1>1, <2>1 DEF UseFacts, Cleared, history, IInv, Facts
  <1>6. PRFacts'
    BY <1>1 DEF PRFacts, WentThrough, IInv, Facts, TypeOK, PullRequest, history
  <1>7. GivenFacts' /\ HeadFacts' /\ AloneIsExact'
    BY <1>1 DEF IInv, Facts, GivenFacts, HeadFacts, AloneIsExact, Own, git, history
  <1>8. RemoteHasOwner'
    BY <1>1, <1>3 DEF IInv, Facts, RemoteHasOwner, RolledBack, Admitted, git
  <1>9. \A c \in Calls : AloneFacts(c)'
    <2> TAKE c \in Calls
    <2>1. AloneFacts(c)
      BY DEF IInv, Facts
    <2>2. pc'[c] \in {"done", "gone"} \/ (pc'[c] = "new" /\ pc[c] = "new")
      BY <1>1
    <2> QED BY <1>1, <2>1, <2>2 DEF AloneFacts, Files, Own, Tree, Past, history
  <1> QED BY <1>2, <1>4, <1>5, <1>6, <1>7, <1>8, <1>9 DEF IInv, Facts

LEMMA StutterFine ==
  ASSUME IInv, UNCHANGED vars
  PROVE  IInv'
  <1>1. UNCHANGED <<status, git, prs, call, history>>
    BY DEF vars
  <1>2. TypeOK'
    BY <1>1 DEF IInv, TypeOK, git, call, history
  <1>3. \A c \in Calls : CallFacts(c)'
    <2> TAKE c \in Calls
    <2>1. CallFacts(c)
      BY DEF IInv, Facts
    <2>2. /\ (Delivered(c)' <=> Delivered(c)) /\ (Cleared(c)' <=> Cleared(c))
          /\ WentThrough(c)' <=> WentThrough(c)
      BY <1>1 DEF Delivered, WentThrough, Cleared, call, history
    <2>3. Same(c)
      BY <1>1 DEF Same, call, history
    <2> QED BY <2>1, <2>2, <2>3 DEF CallFacts, Same
  <1>4. UseFacts'
    <2>1. InUse' = InUse
      BY <1>1 DEF InUse, Of, git
    <2> QED BY <1>1, <2>1 DEF UseFacts, Cleared, call, history, IInv, Facts
  <1>5. PRFacts' /\ GivenFacts' /\ HeadFacts' /\ AloneIsExact' /\ RemoteHasOwner'
    BY <1>1 DEF IInv, Facts, PRFacts, WentThrough, GivenFacts, HeadFacts, AloneIsExact, Own,
                RemoteHasOwner, RolledBack, Admitted, git, call, history
  <1>6. \A c \in Calls : AloneFacts(c)'
    <2> TAKE c \in Calls
    <2>1. AloneFacts(c)
      BY DEF IInv, Facts
    <2>2. InTree' = InTree
      BY <1>1 DEF InTree, call
    <2> QED BY <1>1, <2>1, <2>2 DEF AloneFacts, Files, Own, git, call, history
  <1> QED BY <1>2, <1>3, <1>4, <1>5, <1>6 DEF IInv, Facts

LEMMA IInit == Init => IInv
  <1> SUFFICES ASSUME Init PROVE IInv
    OBVIOUS
  <1>1. {} \in Content /\ {} # NoBranch /\ 0 \in 0..RepairMaxIterations
    BY ContentShape, ConfigAssumption DEF Content
  <1>2. TypeOK
    BY <1>1, ConfigAssumption DEF Init, TypeOK
  <1>3. \A c \in Calls : CallFacts(c)
    BY DEF Init, CallFacts, Working, Tree, Past, Ending, BeforeQA, RollingBack
  <1>4. InUse = {}
    <2>1. \A b \in Branches : Of(local[b]) \cup Of(remote[b]) = {}
      BY DEF Init, Of
    <2>2. UNION {Of(local[b]) \cup Of(remote[b]) : b \in Branches} = {}
      BY <2>1
    <2>3. UNION {p.content : p \in prs} = {}
      BY DEF Init
    <2> QED BY <2>2, <2>3 DEF Init, InUse
  <1>5. /\ UseFacts /\ PRFacts /\ GivenFacts /\ HeadFacts /\ AloneIsExact
        /\ \A c \in Calls : AloneFacts(c)
    BY <1>1, <1>4, ConfigAssumption DEF Init, UseFacts, PRFacts, GivenFacts, HeadFacts,
                                        AloneIsExact, AloneFacts
  <1>6. RemoteHasOwner
    BY DEF Init, RemoteHasOwner
  <1> QED BY <1>2, <1>3, <1>5, <1>6 DEF IInv, Facts

LEMMA INext == IInv /\ [Next]_vars => IInv'
  <1> SUFFICES ASSUME IInv, [Next]_vars PROVE IInv'
    OBVIOUS
  <1>1. CASE \E id \in Ids, verdict \in {"approved", "rejected"} : Resolve(id, verdict)
    BY <1>1, ResolveFine
  <1>2. ASSUME NEW c \in Calls, NEW r \in Requests,
               Admit(c, r) \/ Refuse(c, r) \/ StartStepFails(c, r)
        PROVE  IInv'
    BY <1>2, AdmitFine, RefuseFine, CallFine
  <1>3. ASSUME NEW c \in Calls, Step(c)
        PROVE  IInv'
    <2>1. Fine(c)
      BY <1>3, PlanFine, CheckoutBaseFine, RunCommandFine, RevParseFine, ExecuteFailsFine,
         QAPassesFine, QAFailsFine, RollbackCheckoutFine, RollbackDeleteFine, OpenPRFine,
         RecordFine, FinishStepFine, AnswerFine DEF Step
    <2> QED BY <2>1, CallFine
  <1>4. CASE Crash
    BY <1>4, CrashFine
  <1>5. CASE UNCHANGED vars
    BY <1>5, StutterFine
  <1> QED BY <1>1, <1>2, <1>3, <1>4, <1>5 DEF Next

LEMMA Inductive == Spec => []IInv
  BY IInit, INext, PTL DEF Spec

\* Every variable of the code tools stays within its type.
THEOREM CodeTypes == Spec => []TypeOK
  <1>1. IInv => TypeOK
    BY DEF IInv
  <1> QED BY <1>1, Inductive, PTL

\* However many calls work in the one tree, and whichever commands fail, no changes
\* are staged, committed, pushed or offered but those of calls that the gate let
\* through under an approval that had been given (http/server.go:646-678).
THEOREM CodeIsApproved == Spec => []NoUnapprovedCode
  <1>1. IInv => NoUnapprovedCode
    BY DEF IInv, Facts, UseFacts, Cleared, NoUnapprovedCode
  <1> QED BY <1>1, Inductive, PTL

\* Only a call whose own commands went through and, of a repair loop, that had QA pass
\* within its iterations has a pull request, and an ok answer stands for a record and
\* such a pull request, whoever else is at work (http/server.go:868-996).
THEOREM OkIsWhole == Spec => []SuccessIsWhole
  <1>1. IInv => SuccessIsWhole
    BY DEF IInv, Facts, CallFacts, UseFacts, PRFacts, Delivered, SuccessIsWhole
  <1> QED BY <1>1, Inductive, PTL

\* A closed step says what was recorded, and no answer says otherwise
\* (http/server.go:961-995).
THEOREM StepsAreHonest == Spec => []StepIsHonest
  <1>1. IInv => StepIsHonest
    BY DEF IInv, Facts, CallFacts, Delivered, StepIsHonest
  <1> QED BY <1>1, Inductive, PTL

\* Every head branch on the remote belongs to a call that has not reported it rolled
\* back (codeops/runner.go:138-177).
THEOREM BranchesAreOwned == Spec => []RemoteHasOwner
  <1>1. IInv => RemoteHasOwner
    BY DEF IInv, Facts
  <1> QED BY <1>1, Inductive, PTL

\* A call that had the clean tree to itself offers, reports and has tested its own
\* change on the base it found (codeops/runner.go:99-135).
THEOREM OwnChangeOnly == Spec => []AloneIsExact
  <1>1. IInv => AloneIsExact
    BY DEF IInv, Facts
  <1> QED BY <1>1, Inductive, PTL

===============================================================================
