-------------------------- MODULE GitHubClientProofs --------------------------
(***************************************************************************)
(* Proofs about GitHubClient: how long a request may still be on its way   *)
(* and the token it carries good (TimeFacts), and how far a list has been  *)
(* read while it did not change (ListFacts).                               *)
(***************************************************************************)
EXTENDS GitHubClient, TLAPS, SequenceTheorems

Labels == {"new", "lock", "done", "failed"} \cup Asking

Typed ==
  /\ now \in Nat /\ token \in Nat /\ list \in Lists
  /\ op \in [Callers -> {"get", "list"}]
  /\ pc \in [Callers -> Labels]
  /\ since \in [Callers -> Nat] /\ held \in [Callers -> Nat] /\ page \in [Callers -> Nat]
  /\ DOMAIN files = Callers
  /\ changed \in [Callers -> BOOLEAN] /\ rejected \in [Callers -> BOOLEAN]

\* A request on its way reaches GitHub before its token ends; an issued token has
\* at least the rest of its life from the request that asked for it.
TimeFacts(c) ==
  /\ pc[c] \in Asking => since[c] <= now /\ now <= since[c] + CallTime
  /\ pc[c] = "issued" => since[c] + TokenLife <= held[c]
  /\ pc[c] = "send" => since[c] + CallTime < held[c]
  /\ rejected[c] => pc[c] = "failed" /\ held[c] \in revoked

\* The pages before this one were full, and are what c has.
ListFacts(c) ==
  op[c] = "list" /\ ~ changed[c] =>
    /\ pc[c] \notin {"done", "failed"} =>
         /\ page[c] \in 1..MaxPages /\ (page[c] - 1) * PageSize <= Len(list)
         /\ files[c] = SubSeq(list, 1, (page[c] - 1) * PageSize)
    /\ pc[c] = "done" =>
         files[c] = SubSeq(list, 1, Smaller(Len(list), PageSize * MaxPages))

IInv == Typed /\ \A c \in Callers : TimeFacts(c) /\ ListFacts(c)

------------------------------------------------------------------------------
(* Lists and their pages. *)

LEMMA ListShape ==
  ASSUME NEW l \in Lists
  PROVE  /\ Len(l) \in Nat /\ \E S : l \in Seq(S)
  <1> DEFINE Files == {l[i] : i \in DOMAIN l}
  <1>1. l \in Seq(Files)
    BY ClientAssumption
  <1> HIDE DEF Files
  <1> QED BY <1>1

\* n pages are no longer than MaxPages pages, and one page longer than n - 1.
LEMMA PageNumbers ==
  ASSUME NEW n \in 1..MaxPages
  PROVE  /\ (n - 1) * PageSize \in Nat /\ n * PageSize \in Nat
         /\ PageSize * MaxPages \in Nat
         /\ n * PageSize = (n - 1) * PageSize + PageSize
         /\ n * PageSize <= PageSize * MaxPages
         /\ n = MaxPages => n * PageSize = PageSize * MaxPages
  <1>1. n \in Nat /\ MaxPages \in Nat /\ PageSize \in Nat /\ n >= 1 /\ n <= MaxPages
    BY ClientAssumption
  <1>2. n * PageSize = (n - 1) * PageSize + PageSize
    BY <1>1
  <1>3. (MaxPages - n) * PageSize >= 0
    BY <1>1
  <1>4. (MaxPages - n) * PageSize = MaxPages * PageSize - n * PageSize
    BY <1>1
  <1>5. MaxPages * PageSize = PageSize * MaxPages
    BY <1>1
  <1>6. /\ (n - 1) * PageSize \in Nat /\ n * PageSize \in Nat /\ PageSize * MaxPages \in Nat
    BY <1>1
  <1> QED BY <1>1, <1>2, <1>3, <1>4, <1>5, <1>6

\* What GitHub answers for a page continues the pages before it; a short one ends
\* the list.
LEMMA NextPage ==
  ASSUME NEW l \in Lists, NEW n \in 1..MaxPages, (n - 1) * PageSize <= Len(l)
  PROVE  /\ SubSeq(l, 1, (n - 1) * PageSize) \o PageOf(l, n)
              = SubSeq(l, 1, Smaller(n * PageSize, Len(l)))
         /\ ~ LastPage(PageOf(l, n), n) =>
              /\ n # MaxPages /\ n * PageSize <= Len(l)
              /\ Smaller(n * PageSize, Len(l)) = n * PageSize
         /\ LastPage(PageOf(l, n), n) =>
              Smaller(n * PageSize, Len(l)) = Smaller(Len(l), PageSize * MaxPages)
  <1>1. PICK S : l \in Seq(S)
    BY ListShape
  <1>2. PICK k \in Nat : k = (n - 1) * PageSize
    BY PageNumbers
  <1>3. PICK m \in Nat : m = n * PageSize
    BY PageNumbers
  <1>4. PICK top \in Nat : top = PageSize * MaxPages
    BY PageNumbers
  <1>5. /\ m = k + PageSize /\ m <= top /\ (n = MaxPages => m = top)
        /\ PageSize \in Nat /\ PageSize > 0 /\ Len(l) \in Nat /\ k <= Len(l)
    BY <1>2, <1>3, <1>4, PageNumbers, ListShape, ClientAssumption
  <1>6. PICK e \in Nat : e = Smaller(m, Len(l))
    BY <1>5 DEF Smaller
  <1>7. PageOf(l, n) = SubSeq(l, k + 1, e)
    BY <1>2, <1>3, <1>6 DEF PageOf
  <1>8. /\ k <= e /\ e <= Len(l) /\ e <= m
        /\ m <= Len(l) => e = m
        /\ m > Len(l) => e = Len(l)
    BY <1>5, <1>6 DEF Smaller
  <1>9. SubSeq(l, 1, k) \o SubSeq(l, k + 1, e) = SubSeq(l, 1, e)
    <2>1. 1 \in 1..(Len(l) + 1) /\ k \in (1 - 1)..Len(l) /\ e \in k..Len(l)
      BY <1>5, <1>8
    <2> QED BY <1>1, <2>1, ConcatAdjacentSubSeq
  <1>10. Len(SubSeq(l, k + 1, e)) = e - k
    <2>1. \A i \in (k + 1)..e : l[i] \in S
      BY <1>1, <1>5, <1>8
    <2>2. k + 1 \in Int /\ e \in Int
      BY <1>5
    <2>3. Len(SubSeq(l, k + 1, e)) = IF k + 1 <= e THEN e - (k + 1) + 1 ELSE 0
      BY <2>1, <2>2, SubSeqProperties
    <2> QED BY <1>5, <1>8, <2>3
  <1>11. LastPage(PageOf(l, n), n) <=> (e - k < PageSize \/ n = MaxPages)
    BY <1>7, <1>10 DEF LastPage
  <1>12. ~ LastPage(PageOf(l, n), n) => n # MaxPages /\ m <= Len(l) /\ e = m
    BY <1>5, <1>8, <1>11
  <1>13. LastPage(PageOf(l, n), n) => e = Smaller(Len(l), top)
    BY <1>5, <1>8, <1>11 DEF Smaller
  <1> QED BY <1>2, <1>3, <1>4, <1>6, <1>7, <1>9, <1>12, <1>13

------------------------------------------------------------------------------
(* The steps of a caller. *)

Same(d) ==
  UNCHANGED <<op[d], pc[d], since[d], held[d], page[d], files[d], changed[d], rejected[d]>>

Own(c) ==
  /\ \A d \in Callers \ {c} : Same(d)
  /\ UNCHANGED <<now, revoked, list, op[c], changed[c]>>

LEMMA CallerFine ==
  ASSUME IInv, NEW c \in Callers, Own(c), Typed', TimeFacts(c)', ListFacts(c)'
  PROVE  IInv'
  <1>1. \A d \in Callers \ {c} : TimeFacts(d)' /\ ListFacts(d)'
    BY DEF IInv, Own, Same, TimeFacts, ListFacts
  <1> QED BY <1>1 DEF IInv

\* A step that reads no page.
LEMMA NoPage ==
  ASSUME IInv, NEW c \in Callers, Own(c), UNCHANGED <<page[c], files[c]>>,
         pc[c] \notin {"done", "failed"}, pc'[c] # "done"
  PROVE  ListFacts(c)'
  BY DEF IInv, Own, ListFacts

LEMMA BeginFine ==
  ASSUME IInv, NEW c \in Callers, Begin(c)
  PROVE  IInv'
  <1>1. Typed /\ TimeFacts(c) /\ pc[c] = "new"
    BY DEF IInv, Begin
  <1>2. Typed'
    BY <1>1 DEF Begin, Goto, Typed, Labels, Asking, client, github
  <1>3. /\ Own(c) /\ pc'[c] = "lock"
        /\ UNCHANGED <<page[c], files[c], rejected[c], held[c], now, revoked>>
    BY <1>1 DEF Begin, Goto, Typed, Own, Same, client, github
  <1>4. TimeFacts(c)'
    BY <1>1, <1>3 DEF TimeFacts, Asking
  <1>5. ListFacts(c)'
    BY <1>1, <1>3, NoPage
  <1> QED BY <1>2, <1>3, <1>4, <1>5, CallerFine

LEMMA TakeCachedFine ==
  ASSUME IInv, NEW c \in Callers, TakeCached(c)
  PROVE  IInv'
  <1>1. Typed /\ TimeFacts(c) /\ pc[c] = "lock" /\ token # NoToken
    BY DEF IInv, TakeCached, Usable
  <1>2. Typed'
    BY <1>1 DEF TakeCached, Goto, Typed, Labels, Asking, client, github
  <1>3. /\ Own(c) /\ pc'[c] = "send" /\ held'[c] = token /\ since'[c] = now
        /\ UNCHANGED <<page[c], files[c], rejected[c], now, revoked>>
    BY <1>1 DEF TakeCached, Goto, Typed, Own, Same, Asking, client, github
  <1>4. now + CallTime < token
    <2>1. PICK clock \in Clocks : clock < token - Margin
      BY DEF TakeCached, Usable
    <2>2. now - Skew <= clock /\ clock \in Int
      BY <1>1, <2>1, ClientAssumption DEF Clocks, Typed
    <2> QED BY <1>1, <2>1, <2>2, ClientAssumption DEF Typed
  <1>5. TimeFacts(c)'
    BY <1>1, <1>3, <1>4, ClientAssumption DEF TimeFacts, Asking, Typed
  <1>6. ListFacts(c)'
    BY <1>1, <1>3, NoPage
  <1> QED BY <1>2, <1>3, <1>5, <1>6, CallerFine

LEMMA LockAndAskFine ==
  ASSUME IInv, NEW c \in Callers, LockAndAsk(c) \/ Discover(c)
  PROVE  IInv'
  <1>1. Typed /\ TimeFacts(c) /\ pc[c] \in {"lock", "discover"}
    BY DEF IInv, LockAndAsk, Discover
  <1>2. Typed'
    <2>1. CASE LockAndAsk(c)
      BY <1>1, <2>1 DEF LockAndAsk, Goto, Typed, Labels, Asking, github
    <2>2. CASE Discover(c)
      BY <1>1, <2>2 DEF Discover, Goto, Typed, Labels, Asking, github
    <2> QED BY <2>1, <2>2
  <1>3. /\ Own(c) /\ pc'[c] \in {"discover", "fetch"} /\ since'[c] = now
        /\ UNCHANGED <<page[c], files[c], rejected[c], held[c], now, revoked>>
    <2>1. CASE LockAndAsk(c)
      BY <1>1, <2>1 DEF LockAndAsk, Goto, Typed, Own, Same, Asking, github
    <2>2. CASE Discover(c)
      BY <1>1, <2>2 DEF Discover, Goto, Typed, Own, Same, Asking, github
    <2> QED BY <2>1, <2>2
  <1>4. TimeFacts(c)'
    BY <1>1, <1>3, ClientAssumption DEF TimeFacts, Asking, Typed
  <1>5. ListFacts(c)'
    BY <1>1, <1>3, NoPage
  <1> QED BY <1>2, <1>3, <1>4, <1>5, CallerFine

LEMMA IssueFine ==
  ASSUME IInv, NEW c \in Callers, Issue(c)
  PROVE  IInv'
  <1>1. Typed /\ TimeFacts(c) /\ pc[c] = "fetch"
    BY DEF IInv, Issue
  <1>2. Typed'
    <2>1. now + TokenLife \in Nat
      BY <1>1, ClientAssumption DEF Typed
    <2> QED BY <1>1, <2>1 DEF Issue, Typed, Labels, Asking, client, github
  <1>3. /\ Own(c) /\ pc'[c] = "issued" /\ held'[c] = now + TokenLife
        /\ UNCHANGED <<since[c], page[c], files[c], rejected[c], now, revoked>>
    BY <1>1 DEF Issue, Typed, Own, Same, client, github
  <1>4. since[c] <= now /\ now <= since[c] + CallTime
    BY <1>1 DEF TimeFacts, Asking
  <1>5. TimeFacts(c)'
    BY <1>1, <1>3, <1>4, ClientAssumption DEF TimeFacts, Asking, Typed
  <1>6. ListFacts(c)'
    BY <1>1, <1>3, NoPage
  <1> QED BY <1>2, <1>3, <1>5, <1>6, CallerFine

LEMMA StoreFine ==
  ASSUME IInv, NEW c \in Callers, Store(c)
  PROVE  IInv'
  <1>1. Typed /\ TimeFacts(c) /\ pc[c] = "issued"
    BY DEF IInv, Store
  <1>2. Typed'
    BY <1>1 DEF Store, Goto, Typed, Labels, Asking, github
  <1>3. /\ Own(c) /\ pc'[c] = "send" /\ since'[c] = now
        /\ UNCHANGED <<held[c], page[c], files[c], rejected[c], now, revoked>>
    BY <1>1 DEF Store, Goto, Typed, Own, Same, Asking, github
  <1>4. since[c] <= now /\ now <= since[c] + CallTime /\ since[c] + TokenLife <= held[c]
    BY <1>1 DEF TimeFacts, Asking
  <1>5. now + CallTime < held[c]
    BY <1>1, <1>4, ClientAssumption DEF Typed
  <1>6. TimeFacts(c)'
    BY <1>1, <1>3, <1>5, ClientAssumption DEF TimeFacts, Asking, Typed
  <1>7. ListFacts(c)'
    BY <1>1, <1>3, NoPage
  <1> QED BY <1>2, <1>3, <1>6, <1>7, CallerFine

LEMMA FailsFine ==
  ASSUME IInv, NEW c \in Callers, AskFails(c) \/ SendFails(c)
  PROVE  IInv'
  <1>1. Typed /\ TimeFacts(c) /\ pc[c] \in Asking
    BY DEF IInv, AskFails, SendFails, Asking
  <1>2. Typed'
    <2>1. CASE AskFails(c)
      BY <1>1, <2>1 DEF AskFails, Goto, Typed, Labels, Asking, github
    <2>2. CASE SendFails(c)
      BY <1>1, <2>2 DEF SendFails, Goto, Typed, Labels, Asking, client, github
    <2> QED BY <2>1, <2>2
  <1>3. /\ Own(c) /\ pc'[c] = "failed"
        /\ UNCHANGED <<held[c], page[c], files[c], rejected[c], now, revoked>>
    <2>1. CASE AskFails(c)
      BY <1>1, <2>1 DEF AskFails, Goto, Typed, Own, Same, github
    <2>2. CASE SendFails(c)
      BY <1>1, <2>2 DEF SendFails, Goto, Typed, Own, Same, client, github
    <2> QED BY <2>1, <2>2
  <1>4. TimeFacts(c)'
    BY <1>1, <1>3 DEF TimeFacts, Asking
  <1>5. ListFacts(c)'
    BY <1>1, <1>3, NoPage DEF Asking
  <1> QED BY <1>2, <1>3, <1>4, <1>5, CallerFine

\* The token is still good when it arrives: only a revoked one is refused.
LEMMA RejectFine ==
  ASSUME IInv, NEW c \in Callers, Reject(c)
  PROVE  IInv'
  <1>1. Typed /\ TimeFacts(c) /\ pc[c] = "send" /\ (now >= held[c] \/ held[c] \in revoked)
    BY DEF IInv, Reject
  <1>2. Typed'
    BY <1>1 DEF Reject, Goto, Typed, Labels, Asking, client, github
  <1>3. /\ Own(c) /\ pc'[c] = "failed"
        /\ UNCHANGED <<held[c], page[c], files[c], now, revoked>>
    BY <1>1 DEF Reject, Goto, Typed, Own, Same, client, github
  <1>4. now <= since[c] + CallTime /\ since[c] + CallTime < held[c]
    BY <1>1 DEF TimeFacts, Asking
  <1>5. held[c] \in revoked
    BY <1>1, <1>4, ClientAssumption DEF Typed
  <1>6. TimeFacts(c)'
    BY <1>3, <1>5 DEF TimeFacts, Asking
  <1>7. ListFacts(c)'
    BY <1>1, <1>3, NoPage
  <1> QED BY <1>2, <1>3, <1>6, <1>7, CallerFine

LEMMA ArriveFine ==
  ASSUME IInv, NEW c \in Callers, Arrive(c)
  PROVE  IInv'
  <1> DEFINE n == page[c]
             got == PageOf(list, n)
  <1>1. Typed /\ TimeFacts(c) /\ ListFacts(c) /\ pc[c] = "send" /\ list \in Lists
    BY DEF IInv, Arrive, Typed
  <1>2. \/ /\ op[c] = "get" /\ Goto(c, "done") /\ UNCHANGED <<page, files>>
        \/ /\ op[c] # "get" /\ files' = [files EXCEPT ![c] = @ \o got]
           /\ LastPage(got, n) /\ Goto(c, "done") /\ UNCHANGED page
        \/ /\ op[c] # "get" /\ files' = [files EXCEPT ![c] = @ \o got]
           /\ ~ LastPage(got, n) /\ Goto(c, "lock") /\ page' = [page EXCEPT ![c] = @ + 1]
    BY DEF Arrive
  <1>3. UNCHANGED <<now, client, github, op, held, changed, rejected>>
    BY DEF Arrive
  <1> HIDE DEF got
  <1>4. Typed'
    <2>1. /\ pc' \in [Callers -> Labels] /\ since' \in [Callers -> Nat]
          /\ DOMAIN files' = Callers
      <3>1. Goto(c, "done") \/ Goto(c, "lock")
        BY <1>2
      <3>2. /\ pc' \in [Callers -> Labels] /\ since' \in [Callers -> Nat]
        BY <1>1, <3>1 DEF Goto, Typed, Labels, Asking
      <3>3. DOMAIN files' = DOMAIN files
        BY <1>2
      <3> QED BY <1>1, <3>2, <3>3 DEF Typed
    <2>2. page' \in [Callers -> Nat]
      <3>1. page[c] + 1 \in Nat
        BY <1>1 DEF Typed
      <3> QED BY <1>1, <1>2, <3>1 DEF Typed
    <2> QED BY <1>1, <1>3, <2>1, <2>2 DEF Typed, client, github
  <1>5. /\ Own(c) /\ pc'[c] \in {"done", "lock"}
        /\ UNCHANGED <<held[c], rejected[c], now, revoked>>
    BY <1>1, <1>2, <1>3 DEF Goto, Typed, Own, Same, client, github
  <1>6. TimeFacts(c)'
    BY <1>1, <1>5 DEF TimeFacts, Asking
  <1>7. ListFacts(c)'
    <2> SUFFICES ASSUME op[c] = "list", ~ changed[c]
                 PROVE  ListFacts(c)'
      BY <1>5 DEF Own, ListFacts
    <2>1. /\ n \in 1..MaxPages /\ (n - 1) * PageSize <= Len(list)
          /\ files[c] = SubSeq(list, 1, (n - 1) * PageSize)
      BY <1>1 DEF ListFacts
    <2>2. /\ files[c] \o got = SubSeq(list, 1, Smaller(n * PageSize, Len(list)))
          /\ ~ LastPage(got, n) =>
               /\ n # MaxPages /\ n * PageSize <= Len(list)
               /\ Smaller(n * PageSize, Len(list)) = n * PageSize
          /\ LastPage(got, n) =>
               Smaller(n * PageSize, Len(list)) = Smaller(Len(list), PageSize * MaxPages)
      BY <1>1, <2>1, NextPage DEF got
    <2>3. files'[c] = files[c] \o got /\ list' = list
      BY <1>1, <1>2, <1>3 DEF Typed, github
    <2>4. CASE LastPage(got, n)
      <3>1. pc'[c] = "done"
        BY <1>1, <1>2, <2>4 DEF Goto, Typed
      <3> QED BY <2>2, <2>3, <2>4, <3>1 DEF ListFacts
    <2>5. CASE ~ LastPage(got, n)
      <3>1. pc'[c] = "lock" /\ page'[c] = n + 1
        BY <1>1, <1>2, <2>5 DEF Goto, Typed
      <3>2. n + 1 \in 1..MaxPages /\ (n + 1) - 1 = n
        <4>1. n \in 1..MaxPages /\ n # MaxPages /\ MaxPages \in Nat
          BY <2>1, <2>2, <2>5, ClientAssumption
        <4> HIDE DEF n
        <4> QED BY <4>1
      <3> QED BY <2>2, <2>3, <2>5, <3>1, <3>2 DEF ListFacts
    <2> QED BY <2>4, <2>5
  <1> QED BY <1>4, <1>5, <1>6, <1>7, CallerFine

------------------------------------------------------------------------------
(* The world, and the induction. *)

LEMMA WorldFine ==
  ASSUME IInv, Tick \/ ChangeList \/ Revoke \/ UNCHANGED vars
  PROVE  IInv'
  <1>1. Typed /\ \A c \in Callers : TimeFacts(c) /\ ListFacts(c)
    BY DEF IInv
  <1>2. CASE Tick
    <2>1. Typed'
      BY <1>1, <1>2 DEF Tick, Typed, client, github
    <2>2. \A c \in Callers : pc[c] \in Asking => now + 1 <= since[c] + CallTime /\ since[c] <= now + 1
      BY <1>1, <1>2, ClientAssumption DEF Tick, Typed, TimeFacts
    <2>3. \A c \in Callers : TimeFacts(c)' /\ ListFacts(c)'
      BY <1>1, <1>2, <2>2 DEF Tick, TimeFacts, ListFacts, client, github
    <2> QED BY <2>1, <2>3 DEF IInv
  <1>3. CASE ChangeList
    <2>1. Typed' /\ \A c \in Callers : changed'[c]
      BY <1>1, <1>3 DEF ChangeList, Typed, client
    <2>2. \A c \in Callers : TimeFacts(c)'
      BY <1>1, <1>3 DEF ChangeList, TimeFacts, client
    <2>3. \A c \in Callers : ListFacts(c)'
      BY <2>1 DEF ListFacts
    <2> QED BY <2>1, <2>2, <2>3 DEF IInv
  <1>4. CASE Revoke
    <2>1. Typed' /\ revoked = {}
      BY <1>1, <1>4 DEF Revoke, Typed, client
    <2>2. \A c \in Callers : TimeFacts(c)' /\ ListFacts(c)'
      BY <1>1, <1>4, <2>1 DEF Revoke, TimeFacts, ListFacts, client
    <2> QED BY <2>1, <2>2 DEF IInv
  <1>5. CASE UNCHANGED vars
    <2>1. Typed'
      BY <1>1, <1>5 DEF vars, Typed, client, github
    <2>2. \A c \in Callers : TimeFacts(c)' /\ ListFacts(c)'
      BY <1>1, <1>5 DEF vars, TimeFacts, ListFacts, client, github
    <2> QED BY <2>1, <2>2 DEF IInv
  <1> QED BY <1>2, <1>3, <1>4, <1>5

LEMMA IInit == Init => IInv
  <1> SUFFICES ASSUME Init PROVE IInv
    OBVIOUS
  <1>1. Typed
    BY ClientAssumption DEF Init, Typed, Labels, NoToken
  <1>2. \A c \in Callers : TimeFacts(c)
    BY DEF Init, TimeFacts, Asking
  <1>3. (1 - 1) * PageSize = 0 /\ 1 \in 1..MaxPages
    BY ClientAssumption
  <1>4. SubSeq(list, 1, 0) = <<>>
    BY SubSeqEmpty
  <1>5. 0 <= Len(list)
    BY ListShape DEF Init
  <1>6. \A c \in Callers : ListFacts(c)
    BY <1>3, <1>4, <1>5 DEF Init, ListFacts
  <1> QED BY <1>1, <1>2, <1>6 DEF IInv

LEMMA INext == IInv /\ [Next]_vars => IInv'
  <1> SUFFICES ASSUME IInv, [Next]_vars PROVE IInv'
    OBVIOUS
  <1>1. ASSUME NEW c \in Callers, Begin(c) \/ Step(c)
        PROVE  IInv'
    BY <1>1, BeginFine, TakeCachedFine, LockAndAskFine, IssueFine, StoreFine, FailsFine,
       ArriveFine, RejectFine DEF Step
  <1> QED BY <1>1, WorldFine DEF Next

\* Whatever callers share the token, however late each of them sends it, whenever it
\* was fetched, and with the client's clock off by no more than the margin leaves,
\* GitHub refuses none but a revoked one (client.go:141-151, 187-211).
THEOREM NoTokenExpires == Spec => []RefusedWasRevoked
  <1>1. IInv => RefusedWasRevoked
    BY DEF IInv, TimeFacts, RefusedWasRevoked
  <1> QED BY <1>1, IInit, INext, PTL DEF Spec

\* Pages of any size, up to any limit, of any list that stays as it is: the caller
\* has it all, in order, up to that limit (client.go:397-429).
THEOREM ListsAreWhole == Spec => []QuietListIsWhole
  <1>1. IInv => QuietListIsWhole
    BY DEF IInv, ListFacts, QuietListIsWhole
  <1> QED BY <1>1, IInit, INext, PTL DEF Spec

===============================================================================
