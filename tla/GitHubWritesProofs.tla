-------------------------- MODULE GitHubWritesProofs --------------------------
(***************************************************************************)
(* Proofs about GitHubWrites.  The invariant says of every entry of the    *)
(* trail whose item it is and what it says (EntryFacts), of every effect   *)
(* on GitHub which call had come that far (EffectFacts), of every result   *)
(* which entry it rests on (Backed), of every call where it stands         *)
(* (CallFacts), and of every batch answer what was counted (AnswerFacts).  *)
(***************************************************************************)
EXTENDS GitHubWrites, TLAPS, FiniteSetTheorems

Busy == {"lookup", "call", "record"}

\* Where a call stands.  The item at hand is one of its request; it was not known
\* to be recorded when the call arrived, or GitHub is not asked for it.
CallFacts(c) ==
  /\ pc[c] # "new" => req[c] \in Requests /\ Len(results[c]) <= Len(req[c].items)
  /\ pc[c] = "new" => results[c] = <<>> /\ known[c] = {}
  /\ pc[c] \in Busy => ItemAt(c) \in 1..Len(req[c].items)
  /\ Replied(c) => pc[c] = "done" /\ results[c] # <<>>
  /\ \A k \in known[c] : Successes(req[c].run, req[c].tool, k) # {}
  /\ pc[c] = "call" => KeyAt(c) \notin known[c]
  /\ pc[c] \in {"new", "lookup", "call"} => outcome[c] = Nothing
  /\ pc[c] = "record" /\ outcome[c] \in Effects => outcome[c] = EffectAt(c) /\ EffectAt(c) \in github
  /\ pc[c] \in Busy /\ mode = "strict" => \A i \in ItemsOf(c) : ~ results[c][i].failed

\* How far c had come with item i when it left a trace of it.
Reached(c, i) ==
  /\ c \in Calls /\ pc[c] # "new" /\ i \in 1..Len(req[c].items)
  /\ i \in ItemsOf(c) \/ (i = ItemAt(c) /\ ~ Replied(c))

EffectFacts(x) == Reached(x[1], x[2]) /\ (x[2] \in ItemsOf(x[1]) \/ pc[x[1]] # "lookup")

\* An entry is of one item of one call, and of what GitHub made for it.
EntryFacts(e) ==
  LET c == e.id[1]
      i == e.id[2]
  IN /\ e.id = <<c, i>> /\ Reached(c, i)
     /\ i \in ItemsOf(c) => ~ results[c][i].replayed
     /\ i \notin ItemsOf(c) => pc[c] = "done"
     /\ e.run = req[c].run /\ e.tool = req[c].tool /\ e.key = Key(req[c], i)
     /\ e.request = Sent(req[c], i)
     /\ e.response = Stored(req[c], e.response.made)
     /\ e.response.made # Nothing =>
          /\ e.response.made \in github /\ e.status = "ok"
          /\ e.response.made[1] = c /\ e.response.made[2] = i

\* What the unique index and the identity of a row keep apart.
Apart(e, f) == e.id # f.id /\ ~ Ledger!Clash(e, f)

\* The result of item i rests on e.
Backs(e, c, i) ==
  LET res == results[c][i] IN
  IF res.replayed
    THEN /\ ~ res.failed /\ e \in Successes(req[c].run, req[c].tool, Key(req[c], i))
         /\ res.made = Decoded(e.tool, e.response)
         /\ req[c].header # NoHeader => e.request = Sent(req[c], i)
    ELSE /\ e.id = <<c, i>>
         /\ res.failed <=> e.status = "fail"
         /\ res.made = e.response.made

Backed(c) == \A i \in ItemsOf(c) : \E e \in ledger : Backs(e, c, i)

Failures(c) == {i \in ItemsOf(c) : results[c][i].failed}
Replays(c) == {i \in ItemsOf(c) : results[c][i].replayed}

\* The answer was counted over the results; a strict batch ends at a failure.
AnswerFacts(c) ==
  Replied(c) =>
    LET a == answer[c]
        n == Len(results[c])
    IN /\ a.results = results[c]
       /\ a.errors = Cardinality(Failures(c)) /\ a.created = n - Cardinality(Replays(c))
       /\ a.mode = "strict" => \A i \in Failures(c) : i = n
       /\ n < Len(req[c].items) => a.mode = "strict" /\ results[c][n].failed

Facts ==
  /\ \A c \in Calls : CallFacts(c) /\ Backed(c) /\ AnswerFacts(c)
  /\ \A x \in github : EffectFacts(x)
  /\ \A e \in ledger : EntryFacts(e)
  /\ \A e, f \in ledger : e = f \/ Apart(e, f)

IInv == TypeOK /\ Facts

------------------------------------------------------------------------------
(* Requests, keys and bodies. *)

LEMMA RequestShape ==
  ASSUME NEW r \in Requests
  PROVE  /\ r.run \in Runs /\ r.tool \in Tools /\ r.via \in {"http", "mcp"}
         /\ r.header \in Headers \cup {NoHeader} /\ r.dry \in BOOLEAN
         /\ r.items \in Seq(Item) /\ Len(r.items) \in Nat /\ Len(r.items) >= 1
         /\ \A i \in 1..Len(r.items) :
              r.items[i].text \in Texts /\ r.items[i].pr \in PRs \cup {NoPR}
  <1>1. /\ r \in Request /\ Len(r.items) >= 1
    BY RequestsAssumption
  <1>2. r.items \in Seq(Item)
    BY <1>1 DEF Request
  <1>3. \A i \in 1..Len(r.items) : r.items[i] \in Item
    BY <1>2
  <1> QED BY <1>1, <1>2, <1>3 DEF Request, Item

\* A computed key is a hash: no header and not the lack of one.
LEMMA KeyShape ==
  ASSUME NEW r \in Requests, NEW i \in 1..Len(r.items)
  PROVE  /\ Key(r, i) \in Keys /\ Key(r, i) # NoHeader
         /\ r.header # NoHeader <=> Key(r, i) \notin Hashes
  <1>1. CASE r.header # NoHeader
    BY <1>1, RequestShape, KeysAssumption DEF Key, Keys
  <1>2. CASE r.header = NoHeader
    <2>1. /\ r.items[i].text \in Texts /\ Canon[r.items[i].text] \in Texts
          /\ r.items[i].pr \in PRs \cup {NoPR} /\ i \in Nat
      BY RequestShape, ConfigAssumption
    <2>2. Key(r, i) \in Hashes
      BY <1>2, <2>1 DEF Key, Hashes
    <2> QED BY <1>2, <2>2, KeysAssumption DEF Keys
  <1> QED BY <1>1, <1>2

LEMMA SentShape ==
  ASSUME NEW r \in Requests, NEW i \in 1..Len(r.items)
  PROVE  Sent(r, i) \in Bodies /\ Sent(r, i).text = r.items[i].text
  BY RequestShape DEF Sent, Bodies

LEMMA StoredShape ==
  ASSUME NEW r \in Requests, NEW made \in Effects \cup {Nothing}
  PROVE  /\ Stored(r, made) \in Bodies /\ Stored(r, made).made = made
         /\ \A tool \in Tools :
              /\ Decoded(tool, Stored(r, made)) \in {made, Blank}
  BY RequestShape DEF Stored, Bodies, Decoded

\* The counts of an answer.
LEMMA Counts ==
  ASSUME NEW n \in Nat, NEW S \in SUBSET (1..n)
  PROVE  /\ IsFiniteSet(S) /\ Cardinality(S) \in Nat /\ Cardinality(S) <= n
         /\ n - Cardinality(S) = Cardinality((1..n) \ S)
  <1>1. IsFiniteSet(1..n) /\ Cardinality(1..n) = n
    BY FS_Interval
  <1>2. IsFiniteSet(S) /\ Cardinality(S) <= n
    BY <1>1, FS_Subset
  <1>3. Cardinality(S) \in Nat
    BY <1>2, FS_CardinalityType
  <1>4. (1..n) \cap S = S
    OBVIOUS
  <1>5. Cardinality((1..n) \ S) = Cardinality(1..n) - Cardinality((1..n) \cap S)
    BY <1>1, FS_Difference
  <1> QED BY <1>1, <1>2, <1>3, <1>4, <1>5

LEMMA AnswerShape ==
  ASSUME TypeOK, NEW r \in Requests, NEW rs \in Seq(Result)
  PROVE  /\ Answer(r, rs) \in Answers
         /\ Answer(r, rs).mode = mode /\ Answer(r, rs).results = rs
         /\ Answer(r, rs).errors = Cardinality({i \in 1..Len(rs) : rs[i].failed})
         /\ Answer(r, rs).created = Len(rs) - Cardinality({i \in 1..Len(rs) : rs[i].replayed})
  <1> DEFINE errors == Cardinality({i \in 1..Len(rs) : rs[i].failed})
             replayed == Cardinality({i \in 1..Len(rs) : rs[i].replayed})
  <1>1. /\ Len(rs) \in Nat
        /\ {i \in 1..Len(rs) : rs[i].failed} \in SUBSET (1..Len(rs))
        /\ {i \in 1..Len(rs) : rs[i].replayed} \in SUBSET (1..Len(rs))
    OBVIOUS
  <1>2. errors \in Nat /\ replayed \in Nat /\ replayed <= Len(rs)
    BY <1>1, Counts
  <1> HIDE DEF errors, replayed
  <1>3. Answer(r, rs) = [mode |-> mode, ok |-> errors = 0,
          status |-> DeriveBatchStatus(Len(rs), replayed, errors),
          dry |-> r.dry /\ (r.tool = Batch \/ replayed = 0),
          errors |-> errors, replayed |-> replayed, created |-> Len(rs) - replayed,
          results |-> rs]
    BY DEF Answer, errors, replayed
  <1>4. DeriveBatchStatus(Len(rs), replayed, errors) \in {"ok", "partial", "fail"}
    BY <1>1, <1>2 DEF DeriveBatchStatus
  <1>5. (errors = 0) \in BOOLEAN /\ (r.dry /\ (r.tool = Batch \/ replayed = 0)) \in BOOLEAN
    OBVIOUS
  <1>6. Len(rs) - replayed \in Nat /\ mode \in BatchModes
    BY <1>1, <1>2 DEF TypeOK
  <1>7. Answer(r, rs) \in Answers
    BY <1>2, <1>3, <1>4, <1>5, <1>6 DEF Answers
  <1> QED BY <1>3, <1>7 DEF errors, replayed

------------------------------------------------------------------------------
(* What one step may change. *)

Same(d) ==
  UNCHANGED <<pc[d], req[d], attempt[d], outcome[d], results[d], answer[d], known[d]>>

\* The trail and GitHub only grow, and nobody else is touched.
Keep(c) ==
  /\ \A d \in Calls \ {c} : Same(d)
  /\ mode' = mode /\ github \subseteq github' /\ ledger \subseteq ledger'

\* A call keeps its request and its results, and gets at most one result more.
Onward(c) ==
  /\ pc[c] \in Busy \cup {"new"} /\ pc'[c] \notin {"new", "gone"}
  /\ pc[c] # "new" => req'[c] = req[c]
  /\ \/ /\ results'[c] = results[c] /\ ~ Replied(c)'
        /\ pc'[c] = "lookup" => pc[c] = "new"
     \/ \E result \in Result : results'[c] = Append(results[c], result)

LEMMA OtherCall ==
  ASSUME NEW c \in Calls, Keep(c), NEW d \in Calls \ {c},
         CallFacts(d), Backed(d), AnswerFacts(d)
  PROVE  CallFacts(d)' /\ Backed(d)' /\ AnswerFacts(d)'
  <1>1. Same(d) /\ mode' = mode /\ github \subseteq github' /\ ledger \subseteq ledger'
    BY DEF Keep
  <1>2. CallFacts(d)'
    <2>1. ASSUME NEW k \in known'[d] PROVE (Successes(req[d].run, req[d].tool, k) # {})'
      <3>1. PICK e \in ledger :
              e.run = req[d].run /\ e.tool = req[d].tool /\ e.key = k /\ e.status = "ok"
        BY <1>1 DEF CallFacts, Same, Successes
      <3>2. e \in Successes(req[d].run, req[d].tool, k)'
        BY <1>1, <3>1 DEF Same, Successes
      <3> QED BY <3>2
    <2>2. KeyAt(d)' = KeyAt(d) /\ EffectAt(d)' = EffectAt(d) /\ ItemAt(d)' = ItemAt(d)
          /\ ItemsOf(d)' = ItemsOf(d) /\ Replied(d)' = Replied(d)
      BY <1>1 DEF Same, KeyAt, EffectAt, ItemAt, ItemsOf, Replied
    <2> QED BY <1>1, <2>1, <2>2 DEF CallFacts, Same
  <1>3. Backed(d)'
    <2>1. ASSUME NEW e \in ledger, NEW i \in ItemsOf(d), Backs(e, d, i) PROVE Backs(e, d, i)'
      BY <1>1, <2>1 DEF Backs, Same, Successes
    <2> QED BY <1>1, <2>1 DEF Backed, Same, ItemsOf
  <1>4. AnswerFacts(d)'
    BY <1>1 DEF AnswerFacts, Same, Replied, Failures, Replays, ItemsOf
  <1> QED BY <1>2, <1>3, <1>4

\* What was traced back to an item stays traced back to it.
LEMMA ItemsStay ==
  ASSUME TypeOK, NEW c \in Calls, Keep(c), Onward(c), NEW d \in Calls, NEW i, Reached(d, i)
  PROVE  /\ req'[d] = req[d] /\ pc'[d] # "new"
         /\ i \in ItemsOf(d) => i \in ItemsOf(d)' /\ results'[d][i] = results[d][i]
         /\ i \notin ItemsOf(d) =>
              \/ i \in ItemsOf(d)'
              \/ /\ i = ItemAt(d)' /\ ~ Replied(d)'
                 /\ pc'[d] = pc[d] \/ pc'[d] # "lookup"
         /\ i \notin ItemsOf(d) /\ pc[d] = "done" => i \notin ItemsOf(d)' /\ pc'[d] = "done"
         /\ Reached(d, i)'
  <1>1. results[d] \in Seq(Result) /\ pc[d] # "new" /\ i \in Nat
    BY DEF TypeOK, Reached
  <1>2. CASE d # c
    BY <1>2 DEF Keep, Same, Reached, ItemsOf, ItemAt, Replied
  <1>3. CASE d = c
    <2>1. pc[c] \in Busy /\ pc'[c] \notin {"new", "gone"} /\ req'[c] = req[c]
      BY <1>1, <1>3 DEF Onward
    <2>2. CASE results'[c] = results[c] /\ ~ Replied(c)' /\ pc'[c] # "lookup"
      BY <1>3, <2>1, <2>2 DEF Reached, ItemsOf, ItemAt, Busy
    <2>3. CASE \E result \in Result : results'[c] = Append(results[c], result)
      <3>1. /\ Len(results'[c]) = Len(results[c]) + 1
            /\ \A k \in 1..Len(results[c]) : results'[c][k] = results[c][k]
        BY <1>1, <1>3, <2>3
      <3>2. ItemsOf(c)' = 1..(Len(results[c]) + 1) /\ Len(results[c]) \in Nat
        BY <1>1, <1>3, <3>1 DEF ItemsOf
      <3>3. i \in ItemsOf(c) \/ i = Len(results[c]) + 1
        BY <1>3 DEF Reached, ItemAt
      <3> QED BY <1>1, <1>3, <2>1, <3>1, <3>2, <3>3 DEF Reached, ItemsOf, Busy
    <2> QED BY <1>1, <1>3, <2>1, <2>2, <2>3 DEF Onward
  <1> QED BY <1>2, <1>3

LEMMA OldTraces ==
  ASSUME TypeOK, Facts, NEW c \in Calls, Keep(c), Onward(c)
  PROVE  (\A x \in github : EffectFacts(x)') /\ (\A e \in ledger : EntryFacts(e)')
  <1>1. ASSUME NEW x \in github PROVE EffectFacts(x)'
    <2>1. Reached(x[1], x[2]) /\ x[1] \in Calls /\ EffectFacts(x)
      BY DEF Facts, EffectFacts, Reached
    <2> QED BY <2>1, ItemsStay DEF EffectFacts
  <1>2. ASSUME NEW e \in ledger PROVE EntryFacts(e)'
    <2>1. Reached(e.id[1], e.id[2]) /\ e.id[1] \in Calls /\ EntryFacts(e)
      BY DEF Facts, EntryFacts, Reached
    <2>2. github \subseteq github'
      BY DEF Keep
    <2> QED BY <2>1, <2>2, ItemsStay DEF EntryFacts
  <1> QED BY <1>1, <1>2

------------------------------------------------------------------------------
(* The steps of a handler, one by one. *)

\* What a step must be shown to do.
Fine(c) ==
  /\ TypeOK' /\ Keep(c) /\ Onward(c)
  /\ \A x \in github' \ github : EffectFacts(x)'
  /\ \A e \in ledger' \ ledger : EntryFacts(e)'
  /\ \A e, f \in ledger' : e = f \/ Apart(e, f)
  /\ CallFacts(c)' /\ Backed(c)' /\ AnswerFacts(c)'

\* A step that settles nothing leaves the results and what they rest on.
LEMMA Unsettled ==
  ASSUME TypeOK, Facts, NEW c \in Calls, Keep(c), pc[c] \in Busy,
         UNCHANGED <<req[c], results[c], known[c]>>, ~ Replied(c)',
         pc'[c] \in {"call", "record", "done"},
         pc'[c] = "call" => KeyAt(c) \notin known[c] /\ outcome'[c] = Nothing,
         pc'[c] = "record" /\ outcome'[c] \in Effects =>
           outcome'[c] = EffectAt(c)' /\ outcome'[c] \in github'
  PROVE  Onward(c) /\ CallFacts(c)' /\ Backed(c)' /\ AnswerFacts(c)'
  <1>1. CallFacts(c) /\ Backed(c) /\ ledger \subseteq ledger' /\ mode' = mode
    BY DEF Facts, Keep
  <1>2. ItemAt(c)' = ItemAt(c) /\ KeyAt(c)' = KeyAt(c) /\ ItemsOf(c)' = ItemsOf(c)
    BY DEF ItemAt, KeyAt, ItemsOf
  <1>3. CallFacts(c)'
    <2>1. ASSUME NEW k \in known'[c] PROVE (Successes(req[c].run, req[c].tool, k) # {})'
      <3>1. PICK e \in ledger :
              e.run = req[c].run /\ e.tool = req[c].tool /\ e.key = k /\ e.status = "ok"
        BY <1>1 DEF CallFacts, Successes
      <3>2. e \in Successes(req[c].run, req[c].tool, k)'
        BY <1>1, <3>1 DEF Successes
      <3> QED BY <3>2
    <2> QED BY <1>1, <1>2, <2>1 DEF CallFacts, Busy
  <1>4. Backed(c)'
    <2>1. ASSUME NEW e \in ledger, NEW i \in ItemsOf(c), Backs(e, c, i) PROVE Backs(e, c, i)'
      BY <1>1, <2>1 DEF Backs, Successes
    <2> QED BY <1>1, <1>2, <2>1 DEF Backed
  <1> QED BY <1>3, <1>4 DEF Onward, AnswerFacts, Busy

LEMMA EntriesStay ==
  ASSUME Facts, UNCHANGED ledger
  PROVE  /\ \A e \in ledger' \ ledger : EntryFacts(e)'
         /\ \A e, f \in ledger' : e = f \/ Apart(e, f)
  BY DEF Facts

LEMMA TakeFine ==
  ASSUME TypeOK, Facts, NEW c \in Calls, NEW r \in Requests,
         Refuse(c, r) \/ Arrive(c, r), UNCHANGED mode
  PROVE  Fine(c)
  <1>1. /\ pc[c] = "new" /\ pc'[c] \in {"lookup", "done"} /\ req'[c] = r
        /\ UNCHANGED <<mode, github, ledger, returned, results>>
        /\ \A d \in Calls \ {c} : Same(d)
    BY DEF TypeOK, Refuse, Arrive, Abort, Goto, trail, Same
  <1>2. CallFacts(c) /\ ~ Replied(c) /\ results[c] = <<>> /\ known[c] = {}
    BY <1>1 DEF Facts, CallFacts
  <1>3. TypeOK'
    <2>1. CASE Refuse(c, r)
      BY <2>1 DEF TypeOK, Refuse, Abort, Goto, trail, Ledger!TypeOK
    <2>2. CASE Arrive(c, r)
      BY <2>2 DEF TypeOK, Arrive, Goto, trail, Ledger!TypeOK
    <2> QED BY <2>1, <2>2
  <1>4. ~ Replied(c)' /\ outcome'[c] = Nothing
    BY <1>1, <1>2 DEF TypeOK, Refuse, Arrive, Abort, Goto, Replied, CallFacts
  <1>5. Keep(c) /\ Onward(c)
    BY <1>1, <1>4 DEF Keep, Onward
  <1>6. \A k \in known'[c] : (Successes(req[c].run, req[c].tool, k) # {})'
    <2>1. CASE Refuse(c, r)
      BY <1>2, <2>1 DEF Refuse
    <2>2. CASE Arrive(c, r)
      BY <1>1, <2>2 DEF Arrive, TypeOK, Successes
    <2> QED BY <2>1, <2>2
  <1>7. CallFacts(c)'
    <2>1. ItemAt(c)' = 1 /\ ItemsOf(c)' = {} /\ Len(results'[c]) = 0
      BY <1>1, <1>2 DEF ItemAt, ItemsOf
    <2>2. Len(r.items) \in Nat /\ Len(r.items) >= 1
      BY RequestShape
    <2> QED BY <1>1, <1>4, <1>6, <2>1, <2>2 DEF CallFacts, Busy
  <1>8. Backed(c)' /\ AnswerFacts(c)'
    BY <1>1, <1>2, <1>4 DEF Backed, AnswerFacts, ItemsOf
  <1> QED BY <1>1, <1>3, <1>5, <1>7, <1>8, EntriesStay DEF Fine

LEMMA AbortFine ==
  ASSUME TypeOK, Facts, NEW c \in Calls, LookupFails(c) \/ RefuseReuse(c), UNCHANGED mode
  PROVE  Fine(c)
  <1> USE DEF LookupFails, RefuseReuse, Abort, Goto, trail
  <1>1. /\ pc[c] = "lookup" /\ pc'[c] = "done" /\ ~ Replied(c)'
        /\ UNCHANGED <<mode, github, ledger, returned, req, attempt, outcome, results, known>>
        /\ \A d \in Calls \ {c} : Same(d)
    BY DEF TypeOK, Same, Replied
  <1>2. TypeOK'
    BY DEF TypeOK, Ledger!TypeOK
  <1>3. Keep(c)
    BY <1>1 DEF Keep
  <1>4. Onward(c) /\ CallFacts(c)' /\ Backed(c)' /\ AnswerFacts(c)'
    BY <1>1, <1>3, Unsettled DEF Busy
  <1> QED BY <1>1, <1>2, <1>3, <1>4, EntriesStay DEF Fine

\* A key that was recorded before the call arrived is found.
LEMMA MissFine ==
  ASSUME TypeOK, Facts, NEW c \in Calls, Miss(c), UNCHANGED mode
  PROVE  Fine(c)
  <1>1. /\ pc[c] = "lookup" /\ pc'[c] \in {"call", "record"} /\ CallFacts(c)
        /\ UNCHANGED <<mode, github, ledger, returned, req, attempt, outcome, results, answer, known>>
        /\ \A d \in Calls \ {c} : Same(d)
    BY DEF TypeOK, Facts, Miss, Goto, trail, Same
  <1>2. KeyAt(c) \notin known[c]
    BY <1>1 DEF Miss, Recorded, CallFacts
  <1>3. ~ Replied(c)' /\ outcome'[c] = Nothing /\ outcome'[c] \notin Effects
    BY <1>1, MarksAssumption DEF CallFacts, Replied
  <1>4. TypeOK'
    BY DEF TypeOK, Miss, Goto, trail, Ledger!TypeOK
  <1>5. Keep(c)
    BY <1>1 DEF Keep
  <1>6. Onward(c) /\ CallFacts(c)' /\ Backed(c)' /\ AnswerFacts(c)'
    BY <1>1, <1>2, <1>3, <1>5, Unsettled DEF Busy
  <1> QED BY <1>1, <1>4, <1>5, <1>6, EntriesStay DEF Fine

LEMMA PerformFine ==
  ASSUME TypeOK, Facts, NEW c \in Calls, Perform(c) \/ PerformFails(c), UNCHANGED mode
  PROVE  Fine(c)
  <1>1. /\ pc[c] = "call" /\ CallFacts(c) /\ req[c] \in Requests
        /\ ItemAt(c) \in 1..Len(req[c].items) /\ KeyAt(c) \notin known[c] /\ ~ Replied(c)
    BY DEF Facts, CallFacts, Perform, PerformFails, Busy
  <1>2. /\ EffectAt(c) \in Effects /\ EffectAt(c)[1] = c /\ EffectAt(c)[2] = ItemAt(c)
        /\ ItemAt(c) \in Nat \ {0}
    BY <1>1 DEF TypeOK, EffectAt, ItemAt, Effects
  <1>3. /\ UNCHANGED <<mode, ledger, returned, req, results, answer, known>>
        /\ github' \in {github, github \cup {EffectAt(c)}}
        /\ \A d \in Calls \ {c} : Same(d)
        /\ pc'[c] \in {"call", "record"}
        /\ \/ outcome'[c] = GitHubError /\ pc'[c] = "record"
           \/ pc'[c] = "call" /\ outcome'[c] = Nothing
           \/ /\ pc'[c] = "record" /\ outcome'[c] = EffectAt(c)
              /\ UNCHANGED attempt /\ EffectAt(c) \in github'
    BY <1>1 DEF CallFacts, TypeOK, Perform, PerformFails, Goto, trail, Same
  <1>4. TypeOK'
    <2>1. CASE Perform(c)
      BY <1>2, <2>1 DEF TypeOK, Perform, Goto, trail, Ledger!TypeOK
    <2>2. CASE PerformFails(c)
      <3>1. attempt[c] \in 1..MaxAttempts /\ Attempts(req[c].tool) <= MaxAttempts
        BY ConfigAssumption DEF TypeOK, Attempts
      <3>2. /\ github' \subseteq Effects /\ pc' \in [Calls -> {"new", "lookup", "call", "record", "done", "gone"}]
            /\ outcome' \in [Calls -> Effects \cup {Nothing, GitHubError}]
        BY <1>2, <2>2 DEF TypeOK, PerformFails, Goto
      <3>3. Attempts(req[c].tool) \in Nat /\ MaxAttempts \in Nat
        BY ConfigAssumption DEF Attempts
      <3>4. attempt' \in [Calls -> 1..MaxAttempts]
        BY <2>2, <3>1, <3>3 DEF TypeOK, PerformFails
      <3> QED BY <1>3, <3>2, <3>4 DEF TypeOK, Ledger!TypeOK
    <2> QED BY <2>1, <2>2
  <1>5. Keep(c)
    BY <1>3 DEF Keep
  <1>6. ~ Replied(c)' /\ ItemAt(c)' = ItemAt(c)
    BY <1>1, <1>3 DEF Replied, ItemAt
  <1>7. UNCHANGED attempt => EffectAt(c)' = EffectAt(c)
    BY <1>6 DEF EffectAt
  <1>8. Onward(c) /\ CallFacts(c)' /\ Backed(c)' /\ AnswerFacts(c)'
    <2>1. pc'[c] = "record" /\ outcome'[c] \in Effects =>
            outcome'[c] = EffectAt(c)' /\ outcome'[c] \in github'
      BY <1>3, <1>7, MarksAssumption
    <2> QED BY <1>1, <1>3, <1>5, <1>6, <2>1, Unsettled DEF Busy
  <1>9. \A x \in github' \ github : EffectFacts(x)'
    BY <1>1, <1>2, <1>3, <1>6 DEF EffectFacts, Reached
  <1> QED BY <1>3, <1>4, <1>5, <1>8, <1>9, EntriesStay DEF Fine

------------------------------------------------------------------------------
(* Recording and replaying. *)

\* The entry about to be recorded says what GitHub made for the item.
LEMMA NewEntryShape ==
  ASSUME TypeOK, Facts, NEW c \in Calls, pc[c] = "record"
  PROVE  LET e == NewEntry(c) IN
         /\ e \in Ledger!Entry /\ e.id = <<c, ItemAt(c)>> /\ e.id[1] = c /\ e.id[2] = ItemAt(c)
         /\ e.run = req[c].run /\ e.tool = req[c].tool /\ e.key = KeyAt(c)
         /\ e.request = Sent(req[c], ItemAt(c)) /\ e.response = Stored(req[c], Made(c))
         /\ e.status = "fail" <=> outcome[c] = GitHubError
         /\ e.status \in {"ok", "fail"}
         /\ e.response.made = Made(c) /\ Made(c) \in Effects \cup {Nothing}
         /\ Made(c) # Nothing =>
              /\ Made(c) \in github /\ e.status = "ok"
              /\ Made(c)[1] = c /\ Made(c)[2] = ItemAt(c)
  <1>1. /\ CallFacts(c) /\ req[c] \in Requests /\ ItemAt(c) \in 1..Len(req[c].items)
        /\ ItemAt(c) \in Nat
    BY DEF Facts, CallFacts, Busy, TypeOK, ItemAt
  <1>2. /\ req[c].run \in Runs /\ req[c].tool \in Tools /\ KeyAt(c) \in Keys
        /\ Sent(req[c], ItemAt(c)) \in Bodies
    BY <1>1, RequestShape, KeyShape, SentShape DEF KeyAt
  <1>3. /\ Made(c) \in Effects \cup {Nothing}
        /\ Made(c) # Nothing =>
             /\ Made(c) \in github /\ outcome[c] # GitHubError /\ Made(c) = EffectAt(c)
    BY <1>1 DEF TypeOK, Made, CallFacts
  <1>4. Stored(req[c], Made(c)) \in Bodies /\ Stored(req[c], Made(c)).made = Made(c)
    BY <1>1, <1>3, StoredShape
  <1>5. NewEntry(c) \in Ledger!Entry
    BY <1>1, <1>2, <1>4 DEF NewEntry, Ledger!Entry
  <1>6. EffectAt(c)[1] = c /\ EffectAt(c)[2] = ItemAt(c)
    BY DEF EffectAt
  <1> QED BY <1>3, <1>4, <1>5, <1>6 DEF NewEntry

\* Settle, unfolded: n is the item that is settled.
LEMMA SettleEffect ==
  ASSUME TypeOK, NEW c \in Calls, req[c] \in Requests, NEW result \in Result, Settle(c, result),
         NEW n, n = ItemAt(c)
  PROVE  /\ results'[c] = Append(results[c], result) /\ results'[c] \in Seq(Result)
         /\ n \in Nat \ {0} /\ n = Len(results[c]) + 1 /\ n = Len(results'[c]) /\ results'[c][n] = result
         /\ ItemsOf(c)' = ItemsOf(c) \cup {n}
         /\ \A i \in ItemsOf(c) : i < n /\ results'[c][i] = results[c][i]
         /\ outcome'[c] = Nothing
         /\ \/ /\ pc'[c] = "lookup" /\ answer'[c] = answer[c]
               /\ n # Len(req[c].items) /\ ~ (result.failed /\ mode = "strict")
            \/ /\ pc'[c] = "done" /\ answer'[c] = Answer(req[c], results'[c])
               /\ n = Len(req[c].items) \/ (result.failed /\ mode = "strict")
         /\ \A d \in Calls \ {c} :
              UNCHANGED <<pc[d], attempt[d], outcome[d], results[d], answer[d]>>
         /\ pc' \in [Calls -> {"new", "lookup", "call", "record", "done", "gone"}]
         /\ attempt' \in [Calls -> 1..MaxAttempts]
         /\ outcome' \in [Calls -> Effects \cup {Nothing, GitHubError}]
         /\ results' \in [Calls -> Seq(Result)]
         /\ answer' \in [Calls -> Answers \cup {Unanswered, Refused, Conflict, Failed}]
  <1> DEFINE rs == Append(results[c], result)
             last == Len(rs) = Len(req[c].items) \/ (result.failed /\ mode = "strict")
  <1>1. /\ results' = [results EXCEPT ![c] = rs]
        /\ attempt' = [attempt EXCEPT ![c] = 1]
        /\ outcome' = [outcome EXCEPT ![c] = Nothing]
        /\ Goto(c, IF last THEN "done" ELSE "lookup")
        /\ answer' = IF last THEN [answer EXCEPT ![c] = Answer(req[c], rs)] ELSE answer
    BY DEF Settle
  <1>2. /\ results[c] \in Seq(Result) /\ rs \in Seq(Result) /\ Len(rs) = Len(results[c]) + 1
        /\ rs[Len(rs)] = result /\ Len(results[c]) \in Nat
        /\ \A i \in 1..Len(results[c]) : rs[i] = results[c][i]
    BY DEF TypeOK
  <1>3. Answer(req[c], rs) \in Answers
    BY <1>2, AnswerShape
  <1>4. n = Len(rs) /\ n \in Nat \ {0} /\ n = Len(results[c]) + 1
    BY <1>2 DEF ItemAt
  <1>5. 1 \in 1..MaxAttempts
    BY ConfigAssumption
  <1>6. results'[c] = rs /\ outcome'[c] = Nothing
    BY <1>1 DEF TypeOK
  <1>7. \/ pc'[c] = "lookup" /\ answer'[c] = answer[c] /\ ~ last
        \/ pc'[c] = "done" /\ answer'[c] = Answer(req[c], rs) /\ last
    <2> HIDE DEF rs, last
    <2> QED BY <1>1 DEF TypeOK, Goto
  <1>8. /\ pc' \in [Calls -> {"new", "lookup", "call", "record", "done", "gone"}]
        /\ attempt' \in [Calls -> 1..MaxAttempts]
        /\ outcome' \in [Calls -> Effects \cup {Nothing, GitHubError}]
        /\ results' \in [Calls -> Seq(Result)]
        /\ answer' \in [Calls -> Answers \cup {Unanswered, Refused, Conflict, Failed}]
    <2> HIDE DEF rs, last
    <2> QED BY <1>1, <1>2, <1>3, <1>5 DEF TypeOK, Goto
  <1>9. \A d \in Calls \ {c} :
          UNCHANGED <<pc[d], attempt[d], outcome[d], results[d], answer[d]>>
    <2> HIDE DEF rs, last
    <2> QED BY <1>1 DEF TypeOK, Goto
  <1>10. ItemsOf(c)' = ItemsOf(c) \cup {n} /\ \A i \in ItemsOf(c) : i < n
    BY <1>2, <1>4, <1>6 DEF ItemsOf
  <1> QED BY <1>2, <1>4, <1>6, <1>7, <1>8, <1>9, <1>10 DEF ItemsOf

\* Settling keeps what is known of the call, if the result rests on an entry.
LEMMA Settled ==
  ASSUME TypeOK, Facts, NEW c \in Calls, pc[c] \in {"lookup", "record"},
         NEW result \in Result, Settle(c, result), NEW n, n = ItemAt(c),
         UNCHANGED <<mode, github, req, known>>, ledger \subseteq ledger', Ledger!TypeOK',
         \E e \in ledger' : Backs(e, c, n)'
  PROVE  TypeOK' /\ Keep(c) /\ Onward(c) /\ CallFacts(c)' /\ Backed(c)' /\ AnswerFacts(c)'
  <1>1. /\ CallFacts(c) /\ Backed(c) /\ req[c] \in Requests /\ ~ Replied(c)
        /\ n \in 1..Len(req[c].items)
    BY DEF Facts, CallFacts, Busy
  <1>2. TypeOK'
    BY <1>1, SettleEffect DEF TypeOK
  <1>3. Keep(c)
    BY <1>1, SettleEffect DEF Keep, Same
  <1>4. Onward(c)
    BY <1>1, SettleEffect DEF Onward, Busy
  <1>5. Backed(c)'
    <2>1. ASSUME NEW e \in ledger, NEW i \in ItemsOf(c), Backs(e, c, i) PROVE Backs(e, c, i)'
      <3>1. results'[c][i] = results[c][i]
        BY <1>1, SettleEffect
      <3> QED BY <2>1, <3>1 DEF Backs, Successes
    <2>2. \A i \in ItemsOf(c) : \E e \in ledger' : Backs(e, c, i)'
      BY <1>1, <2>1 DEF Backed
    <2>3. ItemsOf(c)' = ItemsOf(c) \cup {n}
      BY <1>1, SettleEffect
    <2> QED BY <2>2, <2>3 DEF Backed
  <1>6. CallFacts(c)'
    <2>1. ASSUME NEW k \in known'[c] PROVE (Successes(req[c].run, req[c].tool, k) # {})'
      <3>1. PICK e \in ledger :
              e.run = req[c].run /\ e.tool = req[c].tool /\ e.key = k /\ e.status = "ok"
        BY <1>1 DEF CallFacts, Successes
      <3>2. e \in Successes(req[c].run, req[c].tool, k)'
        BY <3>1 DEF Successes
      <3> QED BY <3>2
    <2>2. Replied(c)' => pc'[c] = "done" /\ results'[c] # <<>>
      BY <1>1, SettleEffect DEF Replied
    <2>3. pc'[c] = "lookup" => ItemAt(c)' \in 1..Len(req'[c].items)
      <3>1. n = Len(results'[c]) /\ n \in Nat \ {0} /\ (pc'[c] = "lookup" => n # Len(req[c].items))
        BY <1>1, SettleEffect
      <3>2. Len(req[c].items) \in Nat /\ n <= Len(req[c].items)
        BY <1>1, RequestShape
      <3> QED BY <3>1, <3>2 DEF ItemAt
    <2>4. pc'[c] = "lookup" /\ mode = "strict" =>
            \A i \in ItemsOf(c)' : ~ results'[c][i].failed
      <3> SUFFICES ASSUME pc'[c] = "lookup", mode = "strict", NEW i \in ItemsOf(c)'
                   PROVE  ~ results'[c][i].failed
        OBVIOUS
      <3>1. CASE i = n
        BY <1>1, <3>1, SettleEffect
      <3>2. CASE i \in ItemsOf(c)
        <4>1. results'[c][i] = results[c][i]
          BY <1>1, <3>2, SettleEffect
        <4>2. ~ results[c][i].failed
          BY <1>1, <3>2 DEF CallFacts, Busy
        <4> QED BY <4>1, <4>2
      <3>3. i \in ItemsOf(c) \cup {n}
        BY <1>1, SettleEffect
      <3> QED BY <3>1, <3>2, <3>3
    <2>5. pc'[c] \in {"lookup", "done"} /\ outcome'[c] = Nothing
      BY <1>1, SettleEffect
    <2>6. Len(results'[c]) <= Len(req'[c].items)
      BY <1>1, SettleEffect
    <2> QED BY <1>1, <2>1, <2>2, <2>3, <2>4, <2>5, <2>6 DEF CallFacts, Busy
  <1>7. AnswerFacts(c)'
    <2> SUFFICES ASSUME Replied(c)'
                 PROVE  LET a == answer'[c]
                            m == Len(results'[c])
                        IN /\ a.results = results'[c]
                           /\ a.errors = Cardinality(Failures(c)')
                           /\ a.created = m - Cardinality(Replays(c)')
                           /\ a.mode = "strict" => \A i \in Failures(c)' : i = m
                           /\ m < Len(req'[c].items) => a.mode = "strict" /\ results'[c][m].failed
      BY DEF AnswerFacts
    <2>1. /\ answer'[c] = Answer(req[c], results'[c]) /\ results'[c] \in Seq(Result)
          /\ n = Len(results'[c]) /\ n \in Nat /\ results'[c][n] = result
          /\ n = Len(req[c].items) \/ (result.failed /\ mode = "strict")
      BY <1>1, SettleEffect DEF Replied
    <2>2. /\ answer'[c].mode = mode /\ answer'[c].results = results'[c]
          /\ answer'[c].errors = Cardinality(Failures(c)')
          /\ answer'[c].created = Len(results'[c]) - Cardinality(Replays(c)')
      <3> PICK rs \in Seq(Result) : rs = results'[c]
        BY <2>1
      <3>1. /\ Answer(req[c], rs).mode = mode /\ Answer(req[c], rs).results = rs
            /\ Answer(req[c], rs).errors = Cardinality({i \in 1..Len(rs) : rs[i].failed})
            /\ Answer(req[c], rs).created
                 = Len(rs) - Cardinality({i \in 1..Len(rs) : rs[i].replayed})
        BY <1>1, AnswerShape
      <3>2. /\ Failures(c)' = {i \in 1..Len(rs) : rs[i].failed}
            /\ Replays(c)' = {i \in 1..Len(rs) : rs[i].replayed}
        BY DEF Failures, Replays, ItemsOf
      <3> QED BY <2>1, <3>1, <3>2
    <2>3. mode = "strict" => \A i \in Failures(c)' : i = n
      <3> SUFFICES ASSUME mode = "strict", NEW i \in ItemsOf(c)', results'[c][i].failed, i # n
                   PROVE  FALSE
        BY DEF Failures
      <3>1. i \in ItemsOf(c) /\ results'[c][i] = results[c][i]
        BY <1>1, SettleEffect
      <3> QED BY <1>1, <3>1 DEF CallFacts, Busy
    <2>4. n < Len(req[c].items) => mode = "strict" /\ results'[c][n].failed
      BY <2>1, <1>1, RequestShape
    <2> QED BY <2>1, <2>2, <2>3, <2>4
  <1> QED BY <1>2, <1>3, <1>4, <1>5, <1>6, <1>7

LEMMA ReplayFine ==
  ASSUME TypeOK, Facts, NEW c \in Calls, Replay(c), UNCHANGED mode
  PROVE  Fine(c)
  <1>1. /\ pc[c] = "lookup" /\ req[c] \in Requests
        /\ UNCHANGED <<mode, github, ledger, returned, req, known>>
    BY DEF Facts, CallFacts, Replay, trail
  <1>2. PICK e \in Recorded(c) :
          /\ req[c].header # NoHeader => e.request = Sent(req[c], ItemAt(c))
          /\ Settle(c, [replayed |-> TRUE, failed |-> FALSE, made |-> Decoded(e.tool, e.response)])
    BY DEF Replay
  <1> PICK result : result = [replayed |-> TRUE, failed |-> FALSE, made |-> Decoded(e.tool, e.response)]
    OBVIOUS
  <1> PICK n : n = ItemAt(c)
    OBVIOUS
  <1>3. result \in Result
    <2>1. e \in ledger /\ EntryFacts(e)
      BY DEF Recorded, Successes, Facts
    <2>2. req[e.id[1]] \in Requests /\ e.tool \in Tools
      BY <2>1, RequestShape DEF Facts, CallFacts, EntryFacts, Reached
    <2>3. /\ e.response = Stored(req[e.id[1]], e.response.made)
          /\ e.response.made \in Effects \cup {Nothing}
      BY <2>1 DEF EntryFacts, TypeOK
    <2>4. Decoded(e.tool, Stored(req[e.id[1]], e.response.made)) \in {e.response.made, Blank}
      BY <2>2, <2>3, StoredShape
    <2>5. Decoded(e.tool, e.response) \in Effects \cup {Nothing, Blank}
      BY <2>3, <2>4
    <2> QED BY <2>5 DEF Result
  <1>4. Settle(c, result)
    BY <1>2
  <1>5. Backs(e, c, n)' /\ e \in ledger'
    <2>1. results'[c][n] = result
      BY <1>1, <1>3, <1>4, SettleEffect
    <2> QED BY <1>1, <1>2, <2>1 DEF Backs, Recorded, Successes, KeyAt
  <1>6. Ledger!TypeOK'
    BY <1>1 DEF TypeOK, Ledger!TypeOK
  <1>7. TypeOK' /\ Keep(c) /\ Onward(c) /\ CallFacts(c)' /\ Backed(c)' /\ AnswerFacts(c)'
    BY <1>1, <1>3, <1>4, <1>5, <1>6, Settled
  <1> QED BY <1>1, <1>7, EntriesStay DEF Fine

\* Two entries are committed apart.
LEMMA CommitApart ==
  ASSUME Facts, NEW e, Ledger!Commit(e)
  PROVE  \A f, g \in ledger' : f = g \/ Apart(f, g)
  BY DEF Facts, Apart, Ledger!Commit, Ledger!Clash

LEMMA RecordFine ==
  ASSUME TypeOK, Facts, NEW c \in Calls, Record(c), UNCHANGED mode
  PROVE  Fine(c)
  <1> PICK e : e = NewEntry(c)
    OBVIOUS
  <1> PICK n : n = ItemAt(c)
    OBVIOUS
  <1> PICK result :
        result = [replayed |-> FALSE, failed |-> outcome[c] = GitHubError, made |-> Made(c)]
    OBVIOUS
  <1>1. /\ pc[c] = "record" /\ Settle(c, result) /\ UNCHANGED <<mode, github, req, known>>
        /\ Ledger!Commit(e) /\ returned' = returned \cup {e}
    BY DEF Record
  <1>2. /\ req[c] \in Requests /\ n \in 1..Len(req[c].items)
    BY <1>1 DEF Facts, CallFacts, Busy
  <1>3. /\ e \in Ledger!Entry /\ e.id = <<c, n>> /\ e.id[1] = c /\ e.id[2] = n
        /\ e.run = req[c].run /\ e.tool = req[c].tool /\ e.key = Key(req[c], n)
        /\ e.request = Sent(req[c], n) /\ e.response = Stored(req[c], e.response.made)
        /\ e.status = "fail" <=> outcome[c] = GitHubError
        /\ e.response.made = Made(c) /\ Made(c) \in Effects \cup {Nothing}
        /\ e.response.made # Nothing =>
             /\ e.response.made \in github /\ e.status = "ok"
             /\ e.response.made[1] = c /\ e.response.made[2] = n
    BY <1>1, NewEntryShape DEF KeyAt
  <1>4. ledger' = ledger \cup {e} /\ Ledger!TypeOK'
    BY <1>1, <1>3 DEF TypeOK, Ledger!TypeOK, Ledger!Commit
  <1>5. result \in Result
    BY <1>3 DEF Result
  <1>6. /\ results'[c][n] = result /\ n \in ItemsOf(c)' /\ pc'[c] # "new"
    BY <1>1, <1>2, <1>5, SettleEffect
  <1>7. Backs(e, c, n)'
    <2>1. ~ result.replayed /\ (result.failed <=> outcome[c] = GitHubError) /\ result.made = Made(c)
      OBVIOUS
    <2> QED BY <1>3, <1>6, <2>1 DEF Backs
  <1>8. TypeOK' /\ Keep(c) /\ Onward(c) /\ CallFacts(c)' /\ Backed(c)' /\ AnswerFacts(c)'
    BY <1>1, <1>4, <1>5, <1>7, Settled
  <1>9. EntryFacts(e)'
    BY <1>1, <1>2, <1>3, <1>6 DEF EntryFacts, Reached
  <1> QED BY <1>1, <1>4, <1>8, <1>9, CommitApart DEF Fine

LEMMA RecordFailsFine ==
  ASSUME TypeOK, Facts, NEW c \in Calls, RecordFails(c), UNCHANGED mode
  PROVE  Fine(c)
  <1> PICK e : e = NewEntry(c)
    OBVIOUS
  <1> PICK n : n = ItemAt(c)
    OBVIOUS
  <1>1. /\ pc[c] = "record" /\ pc'[c] = "done" /\ ~ Replied(c)'
        /\ UNCHANGED <<mode, github, req, attempt, outcome, results, known>>
        /\ \A d \in Calls \ {c} : Same(d)
        /\ UNCHANGED trail \/ (UNCHANGED returned /\ Ledger!Commit(e))
    BY DEF TypeOK, RecordFails, Abort, Goto, Same, Replied
  <1>2. /\ req[c] \in Requests /\ n \in 1..Len(req[c].items) /\ n = ItemAt(c)'
        /\ results[c] \in Seq(Result)
    BY <1>1 DEF Facts, CallFacts, Busy, ItemAt, TypeOK
  <1>3. /\ e \in Ledger!Entry /\ e.id = <<c, n>> /\ e.id[1] = c /\ e.id[2] = n
        /\ e.run = req[c].run /\ e.tool = req[c].tool /\ e.key = Key(req[c], n)
        /\ e.request = Sent(req[c], n) /\ e.response = Stored(req[c], e.response.made)
        /\ e.response.made # Nothing =>
             /\ e.response.made \in github /\ e.status = "ok"
             /\ e.response.made[1] = c /\ e.response.made[2] = n
    BY <1>1, NewEntryShape DEF KeyAt
  <1>4. ledger \subseteq ledger' /\ Ledger!TypeOK'
    BY <1>1, <1>3 DEF trail, TypeOK, Ledger!TypeOK, Ledger!Commit
  <1>5. TypeOK'
    BY <1>4 DEF TypeOK, RecordFails, Abort, Goto
  <1>6. Keep(c)
    BY <1>1, <1>4 DEF Keep
  <1>7. Onward(c) /\ CallFacts(c)' /\ Backed(c)' /\ AnswerFacts(c)'
    BY <1>1, <1>6, Unsettled DEF Busy
  <1>8. CASE UNCHANGED trail
    BY <1>1, <1>5, <1>6, <1>7, <1>8, EntriesStay DEF Fine, trail
  <1>9. CASE Ledger!Commit(e)
    <2>1. ledger' = ledger \cup {e} /\ \A f, g \in ledger' : f = g \/ Apart(f, g)
      BY <1>9, CommitApart DEF Ledger!Commit
    <2>2. n \notin ItemsOf(c)'
      BY <1>2 DEF ItemsOf, ItemAt
    <2>3. EntryFacts(e)'
      BY <1>1, <1>2, <1>3, <2>2 DEF EntryFacts, Reached
    <2> QED BY <1>1, <1>5, <1>6, <1>7, <2>1, <2>3 DEF Fine
  <1> QED BY <1>1, <1>8, <1>9

------------------------------------------------------------------------------
(* The invariant. *)

LEMMA StepFine ==
  ASSUME TypeOK, Facts, NEW c \in Calls,
         Step(c) \/ \E r \in Requests : Refuse(c, r) \/ Arrive(c, r), UNCHANGED mode
  PROVE  Fine(c)
  BY TakeFine, AbortFine, ReplayFine, MissFine, PerformFine, RecordFine, RecordFailsFine DEF Step

LEMMA IInit == Init => IInv
  <1> SUFFICES ASSUME Init PROVE IInv
    OBVIOUS
  <1>1. TypeOK
    BY ConfigAssumption DEF Init, TypeOK, Ledger!Init, Ledger!TypeOK
  <1>2. \A c \in Calls : CallFacts(c) /\ Backed(c) /\ AnswerFacts(c)
    BY MarksAssumption DEF Init, CallFacts, Backed, AnswerFacts, ItemsOf, Replied, Busy
  <1> QED BY <1>1, <1>2 DEF Init, Ledger!Init, IInv, Facts

LEMMA CrashKeeps == ASSUME IInv, Crash PROVE IInv'
  <1>1. /\ UNCHANGED <<ledger, returned, req, attempt, outcome, results, answer, known>>
        /\ \A c \in Calls : IF pc[c] \in Busy THEN pc'[c] = "gone" ELSE pc'[c] = pc[c]
        /\ github \subseteq github'
        /\ \A x \in github' \ github : \E c \in Calls : pc[c] = "call" /\ x = EffectAt(c)
    BY DEF Crash, trail, Busy
  <1>2. \A c \in Calls : ItemsOf(c)' = ItemsOf(c) /\ Replied(c)' = Replied(c) /\ ItemAt(c)' = ItemAt(c)
    BY <1>1 DEF ItemsOf, Replied, ItemAt
  <1>3. ASSUME NEW c \in Calls, pc[c] = "call"
        PROVE  /\ EffectAt(c) \in Effects /\ EffectAt(c)[1] = c /\ EffectAt(c)[2] = ItemAt(c)
               /\ ItemAt(c) \in 1..Len(req[c].items) /\ ~ Replied(c)
    <2>1. ItemAt(c) \in Nat \ {0} /\ attempt[c] \in 1..MaxAttempts
      BY DEF IInv, TypeOK, ItemAt
    <2>2. ItemAt(c) \in 1..Len(req[c].items) /\ ~ Replied(c)
      BY <1>3 DEF IInv, Facts, CallFacts, Busy
    <2> QED BY <2>1, <2>2 DEF EffectAt, Effects
  <1>4. TypeOK'
    <2>1. github' \subseteq Effects
      BY <1>1, <1>3 DEF IInv, TypeOK
    <2>2. /\ pc' \in [Calls -> {"new", "lookup", "call", "record", "done", "gone"}]
          /\ mode' \in BatchModes
      BY DEF IInv, TypeOK, Crash
    <2> QED BY <1>1, <2>1, <2>2 DEF IInv, TypeOK, Ledger!TypeOK
  <1>5. ASSUME NEW c \in Calls PROVE CallFacts(c)' /\ Backed(c)' /\ AnswerFacts(c)'
    <2>1. CallFacts(c) /\ Backed(c) /\ AnswerFacts(c)
      BY DEF IInv, Facts
    <2>2. pc'[c] \notin Busy /\ (pc'[c] # "new" => pc[c] # "new") /\ (pc'[c] = "new" => pc[c] = "new")
          /\ (pc[c] = "done" => pc'[c] = "done")
      BY <1>1 DEF Busy
    <2>3. CallFacts(c)'
      BY <1>1, <1>2, <2>1, <2>2 DEF CallFacts, Successes, Busy
    <2>4. Backed(c)'
      <3>1. ASSUME NEW e \in ledger, NEW i, Backs(e, c, i) PROVE Backs(e, c, i)'
        BY <1>1, <3>1 DEF Backs, Successes
      <3> QED BY <1>1, <1>2, <2>1, <3>1 DEF Backed
    <2>5. AnswerFacts(c)'
      BY <1>1, <1>2, <2>1 DEF AnswerFacts, Failures, Replays, ItemsOf
    <2> QED BY <2>3, <2>4, <2>5
  <1>6. ASSUME NEW x \in github' PROVE EffectFacts(x)'
    <2>1. CASE x \in github
      BY <1>1, <1>2, <2>1 DEF IInv, Facts, EffectFacts, Reached, Busy
    <2>2. CASE x \notin github
      <3> PICK c \in Calls : pc[c] = "call" /\ x = EffectAt(c)
        BY <1>1, <2>2
      <3> QED BY <1>1, <1>2, <1>3 DEF EffectFacts, Reached, Busy
    <2> QED BY <2>1, <2>2
  <1>7. ASSUME NEW e \in ledger' PROVE EntryFacts(e)'
    BY <1>1, <1>2 DEF IInv, Facts, EntryFacts, Reached, Busy
  <1> QED BY <1>1, <1>4, <1>5, <1>6, <1>7 DEF IInv, Facts

LEMMA INext == IInv /\ [Next]_vars => IInv'
  <1> SUFFICES ASSUME IInv, [Next]_vars PROVE IInv'
    OBVIOUS
  <1>1. CASE \E c \in Calls :
                /\ Step(c) \/ \E r \in Requests : Refuse(c, r) \/ Arrive(c, r)
                /\ UNCHANGED mode
    <2> PICK c \in Calls : /\ Step(c) \/ \E r \in Requests : Refuse(c, r) \/ Arrive(c, r)
                           /\ UNCHANGED mode
      BY <1>1
    <2>1. TypeOK /\ Facts /\ Fine(c)
      BY StepFine DEF IInv
    <2>2. \A d \in Calls : CallFacts(d)' /\ Backed(d)' /\ AnswerFacts(d)'
      BY <2>1, OtherCall DEF Facts, Fine
    <2>3. (\A x \in github' : EffectFacts(x)') /\ (\A e \in ledger' : EntryFacts(e)')
      BY <2>1, OldTraces DEF Fine
    <2> QED BY <2>1, <2>2, <2>3 DEF IInv, Facts, Fine
  <1>2. CASE Crash
    BY <1>2, CrashKeeps
  <1>3. CASE UNCHANGED vars
    <2>1. TypeOK'
      BY <1>3 DEF vars, IInv, TypeOK, Ledger!TypeOK
    <2>2. ASSUME NEW c \in Calls PROVE CallFacts(c)' /\ Backed(c)' /\ AnswerFacts(c)'
      <3>1. CallFacts(c)'
        <4>1. CallFacts(c) /\ ItemsOf(c)' = ItemsOf(c) /\ ItemAt(c)' = ItemAt(c)
              /\ KeyAt(c)' = KeyAt(c) /\ EffectAt(c)' = EffectAt(c) /\ Replied(c)' = Replied(c)
          BY <1>3 DEF vars, IInv, Facts, ItemsOf, ItemAt, KeyAt, EffectAt, Replied
        <4>2. ASSUME NEW k
              PROVE  Successes(req[c].run, req[c].tool, k)' = Successes(req[c].run, req[c].tool, k)
          BY <1>3 DEF vars, Successes
        <4> QED BY <1>3, <4>1, <4>2 DEF vars, CallFacts
      <3>2. AnswerFacts(c)'
        <4>1. AnswerFacts(c) /\ Failures(c)' = Failures(c) /\ Replays(c)' = Replays(c)
              /\ Replied(c)' = Replied(c)
          BY <1>3 DEF vars, IInv, Facts, Failures, Replays, ItemsOf, Replied
        <4> QED BY <1>3, <4>1 DEF vars, AnswerFacts
      <3>3. ASSUME NEW e \in ledger, NEW i, Backs(e, c, i) PROVE Backs(e, c, i)'
        BY <1>3, <3>3 DEF vars, Backs, Successes
      <3>4. Backed(c)'
        BY <1>3, <3>3 DEF vars, IInv, Facts, Backed, ItemsOf
      <3> QED BY <3>1, <3>2, <3>4
    <2>3. (\A x \in github' : EffectFacts(x)') /\ (\A e \in ledger' : EntryFacts(e)')
      BY <1>3 DEF vars, IInv, Facts, EffectFacts, EntryFacts, Reached, ItemsOf, ItemAt, Replied
    <2> QED BY <1>3, <2>1, <2>2, <2>3 DEF vars, IInv, Facts
  <1> QED BY <1>1, <1>2, <1>3 DEF Next

\* The variables hold what they are said to, the ledger rows of AuditLedger among them.
THEOREM GitHubTypes == Spec => []TypeOK
  <1>1. IInv => TypeOK
    BY DEF IInv
  <1> QED BY <1>1, IInit, INext, PTL DEF Spec

\* What a client is told of an item is what the trail holds under the item's key
\* (http/server.go:1348-1407).
THEOREM TellsWhatIsRecorded == Spec => []SuccessIsRecorded
  <1>1. IInv => SuccessIsRecorded
    <2> SUFFICES ASSUME IInv, NEW c \in Calls, NEW i \in ItemsOf(c)
                 PROVE  LET res == results[c][i]
                            own == {e \in ledger : e.id = <<c, i>>}
                        IN IF res.failed THEN \E e \in own : e.status = "fail"
                           ELSE IF res.replayed
                             THEN Successes(req[c].run, req[c].tool, Key(req[c], i)) # {}
                             ELSE \E e \in own : e.status = "ok" /\ e.response.made = res.made
      BY DEF SuccessIsRecorded
    <2>1. PICK e \in ledger : Backs(e, c, i)
      BY DEF IInv, Facts, Backed
    <2>2. e.status \in {"ok", "fail"}
      BY DEF IInv, TypeOK, Ledger!TypeOK, Ledger!Entry
    <2>3. CASE results[c][i].replayed
      BY <2>1, <2>3 DEF Backs
    <2>4. CASE ~ results[c][i].replayed
      BY <2>1, <2>2, <2>4 DEF Backs
    <2> QED BY <2>3, <2>4
  <1> QED BY <1>1, IInit, INext, PTL DEF Spec

\* A result that names an effect rests on a success recorded for that effect.
LEMMA ToldOfEffect ==
  ASSUME IInv, NEW c \in Calls, NEW i \in ItemsOf(c), results[c][i].made \in Effects
  PROVE  \E e \in ledger :
           /\ e.status = "ok" /\ e.response.made = results[c][i].made
           /\ e.run = req[c].run /\ e.tool = req[c].tool /\ e.key = Key(req[c], i)
           /\ req[c].header # NoHeader => e.request = Sent(req[c], i)
  <1>1. PICK e \in ledger : Backs(e, c, i)
    BY DEF IInv, Facts, Backed
  <1>2. EntryFacts(e)
    BY DEF IInv, Facts
  <1>3. CASE results[c][i].replayed
    <2>1. results[c][i].made = e.response.made
      BY <1>1, <1>3, MarksAssumption DEF Backs, Decoded
    <2> QED BY <1>1, <1>3, <2>1 DEF Backs, Successes
  <1>4. CASE ~ results[c][i].replayed
    <2>1. e.id = <<c, i>> /\ results[c][i].made = e.response.made /\ e.id[1] = c /\ e.id[2] = i
      BY <1>1, <1>4 DEF Backs
    <2> QED BY <1>2, <2>1, MarksAssumption DEF EntryFacts
  <1> QED BY <1>3, <1>4

\* An item that has a result is one of its call's request.
LEMMA ItemsAreAsked ==
  ASSUME IInv, NEW c \in Calls, NEW i \in ItemsOf(c)
  PROVE  req[c] \in Requests /\ i \in 1..Len(req[c].items)
  <1>1. /\ CallFacts(c) /\ results[c] \in Seq(Result)
    BY DEF IInv, Facts, TypeOK
  <1>2. pc[c] # "new"
    BY <1>1 DEF CallFacts, ItemsOf
  <1>3. req[c] \in Requests /\ Len(results[c]) <= Len(req[c].items)
    BY <1>1, <1>2 DEF CallFacts
  <1> QED BY <1>1, <1>3, RequestShape DEF ItemsOf

\* However many calls race under a key, no two clients are told of different
\* issues or comments (http/server.go:1312-1370, 001_init.sql:34).
THEOREM OneEffectPerKey == Spec => []OneAnswerPerKey
  <1>1. IInv => OneAnswerPerKey
    <2> SUFFICES ASSUME IInv, NEW c \in Calls, NEW d \in Calls,
                        NEW i \in ItemsOf(c), NEW j \in ItemsOf(d), SameKey(c, i, d, j),
                        results[c][i].made \in github, results[d][j].made \in github
                 PROVE  results[c][i].made = results[d][j].made
      BY DEF OneAnswerPerKey
    <2>1. results[c][i].made \in Effects /\ results[d][j].made \in Effects
      BY DEF IInv, TypeOK
    <2>2. PICK e \in ledger :
            /\ e.status = "ok" /\ e.response.made = results[c][i].made
            /\ e.run = req[c].run /\ e.tool = req[c].tool /\ e.key = Key(req[c], i)
      BY <2>1, ToldOfEffect
    <2>3. PICK f \in ledger :
            /\ f.status = "ok" /\ f.response.made = results[d][j].made
            /\ f.run = req[d].run /\ f.tool = req[d].tool /\ f.key = Key(req[d], j)
      BY <2>1, ToldOfEffect
    <2>4. Key(req[c], i) # NoHeader
      BY ItemsAreAsked, KeyShape
    <2>5. Ledger!Clash(e, f)
      BY <2>2, <2>3, <2>4 DEF SameKey, Ledger!Clash
    <2>6. e = f
      BY <2>5 DEF IInv, Facts, Apart
    <2> QED BY <2>2, <2>3, <2>6
  <1> QED BY <1>1, IInit, INext, PTL DEF Spec

\* What a client is told of exists and was made under the same key, for the same content
\* and pull request where the key was computed, for the same body where it is a header;
\* that body does not name the pull request of a comment, which may be another one
\* (issue.go:54-77, audit.go:146-192, http/server.go:1652).
THEOREM AnswersFit == Spec => []AnswerFitsRequest
  <1>1. IInv => AnswerFitsRequest
    <2> SUFFICES ASSUME IInv, NEW c \in Calls, NEW i \in ItemsOf(c),
                        NEW x, x = results[c][i].made, x \in Effects
                 PROVE  LET mine == req[c].items[i]
                            theirs == req[x[1]].items[x[2]]
                        IN /\ x \in github
                           /\ SameKey(c, i, x[1], x[2])
                           /\ req[c].header = NoHeader =>
                                /\ Canon[theirs.text] = Canon[mine.text]
                                /\ theirs.pr = mine.pr
                           /\ req[c].header # NoHeader =>
                                Sent(req[x[1]], x[2]) = Sent(req[c], i)
      BY DEF AnswerFitsRequest
    <2>1. PICK e \in ledger :
            /\ e.response.made = x /\ e.run = req[c].run
            /\ e.tool = req[c].tool /\ e.key = Key(req[c], i)
            /\ req[c].header # NoHeader => e.request = Sent(req[c], i)
      BY ToldOfEffect
    <2>2. EntryFacts(e) /\ x # Nothing
      BY MarksAssumption DEF IInv, Facts
    <2> PICK d, j : d = x[1] /\ j = x[2]
      OBVIOUS
    <2>3. /\ x \in github /\ Reached(d, j) /\ e.run = req[d].run /\ e.tool = req[d].tool
          /\ e.key = Key(req[d], j) /\ e.request = Sent(req[d], j)
      BY <2>1, <2>2 DEF EntryFacts
    <2>4. req[d] \in Requests /\ j \in 1..Len(req[d].items)
      BY <2>3 DEF IInv, Facts, CallFacts, Reached
    <2>5. req[c] \in Requests /\ i \in 1..Len(req[c].items)
      BY ItemsAreAsked
    <2> PICK r \in Requests : r = req[c]
      BY <2>5
    <2> PICK s \in Requests : s = req[d]
      BY <2>4
    <2>6. /\ i \in 1..Len(r.items) /\ j \in 1..Len(s.items)
          /\ r.tool = s.tool /\ Key(r, i) = Key(s, j)
          /\ r.header # NoHeader => Sent(r, i) = Sent(s, j)
      BY <2>1, <2>3, <2>4, <2>5
    <2>7. r.header = NoHeader =>
            Canon[s.items[j].text] = Canon[r.items[i].text] /\ s.items[j].pr = r.items[i].pr
      <3>1. r.header = NoHeader => s.header = NoHeader
        BY <2>6, KeyShape
      <3> QED BY <2>6, <3>1 DEF Key
    <2>8. SameKey(c, i, d, j)
      BY <2>1, <2>3 DEF SameKey
    <2> QED BY <2>3, <2>6, <2>7, <2>8
  <1> QED BY <1>1, IInit, INext, PTL DEF Spec

\* GitHub is not made to act on an item whose success was recorded before the call
\* arrived (http/server.go:1484-1522, mcp/server.go:608-637).
THEOREM NothingIsRepeated == Spec => NoRepeatAfterRecord
  <1>1. IInv /\ [Next]_vars => [\A x \in github' \ github :
                                  Key(req[x[1]], x[2]) \notin known[x[1]]]_vars
    <2> SUFFICES ASSUME IInv, Next, NEW x \in github' \ github
                 PROVE  Key(req[x[1]], x[2]) \notin known[x[1]]
      BY DEF vars
    <2>1. \E c \in Calls : pc[c] = "call" /\ x = EffectAt(c)
      <3>1. CASE Crash
        BY <3>1 DEF Crash
      <3>2. ASSUME NEW c \in Calls, Perform(c) \/ PerformFails(c)
            PROVE  pc[c] = "call" /\ x = EffectAt(c)
        BY <3>2 DEF Perform, PerformFails
      <3>3. ASSUME NEW c \in Calls, \/ \E r \in Requests : Refuse(c, r) \/ Arrive(c, r)
                                   \/ LookupFails(c) \/ Replay(c) \/ RefuseReuse(c) \/ Miss(c)
                                   \/ Record(c) \/ RecordFails(c)
            PROVE  FALSE
        <4>1. github' = github
          BY <3>3 DEF Refuse, Arrive, LookupFails, Replay, RefuseReuse, Miss, Record, RecordFails
        <4> QED BY <4>1
      <3> QED BY <3>1, <3>2, <3>3 DEF Next, Step
    <2>2. PICK c \in Calls : pc[c] = "call" /\ x = EffectAt(c)
      BY <2>1
    <2>3. x[1] = c /\ x[2] = ItemAt(c) /\ KeyAt(c) \notin known[c]
      BY <2>2 DEF EffectAt, IInv, Facts, CallFacts
    <2> QED BY <2>3 DEF KeyAt
  <1> QED BY <1>1, IInit, INext, PTL DEF Spec, NoRepeatAfterRecord

------------------------------------------------------------------------------
(* The counts of a batch. *)

\* One row for each item of I, and no other: so many rows.
LEMMA RowsCounted ==
  ASSUME IInv, NEW c \in Calls, NEW n \in Nat, NEW I \in SUBSET (1..n), NEW R \in SUBSET ledger,
         \A e \in R : e.id[1] = c /\ e.id[2] \in I,
         \A i \in I : \E e \in R : e.id = <<c, i>>
  PROVE  Cardinality(R) = Cardinality(I)
  <1>1. IsFiniteSet(I)
    BY Counts
  <1> DEFINE row == [i \in I |-> CHOOSE e \in R : e.id = <<c, i>>]
  <1>2. \A i \in I : row[i] \in R /\ row[i].id = <<c, i>>
    OBVIOUS
  <1>3. \A e \in R : e.id = <<c, e.id[2]>>
    BY DEF IInv, Facts, EntryFacts
  <1>4. \A e, f \in R : e.id = f.id => e = f
    BY DEF IInv, Facts, Apart
  <1> HIDE DEF row
  <1>5. row \in [I -> R]
    BY <1>2 DEF row
  <1>6. \A i, j \in I : row[i] = row[j] => i = j
    <2> SUFFICES ASSUME NEW i \in I, NEW j \in I, row[i] = row[j] PROVE i = j
      OBVIOUS
    <2>1. <<c, i>> = <<c, j>>
      BY <1>2
    <2> QED BY <2>1
  <1>7. ASSUME NEW e \in R PROVE \E i \in I : row[i] = e
    <2>1. e.id[2] \in I /\ row[e.id[2]] \in R /\ row[e.id[2]].id = e.id
      BY <1>2, <1>3
    <2> QED BY <1>4, <2>1
  <1>8. ExistsBijection(I, R)
    BY <1>5, <1>6, <1>7 DEF ExistsBijection, Bijection, Injection, IsInjective, Surjection
  <1> QED BY <1>1, <1>8, FS_Bijection

\* A batch answer agrees with what the batch did (http/server.go:1484-1597).
THEOREM BatchesAdd == Spec => []BatchAccounted
  <1>1. IInv => BatchAccounted
    <2> SUFFICES ASSUME IInv, NEW c \in Calls, Replied(c)
                 PROVE  LET a == answer[c]
                            rows == {e \in ledger : e.id[1] = c}
                        IN /\ a.created = Cardinality(rows)
                           /\ a.errors = Cardinality({e \in rows : e.status = "fail"})
                           /\ \A x \in github : x[1] = c => x[2] <= Len(a.results)
                           /\ a.mode = "strict" =>
                                \A i \in ItemsOf(c) : results[c][i].failed => i = Len(a.results)
                           /\ Len(a.results) < Len(req[c].items) =>
                                a.mode = "strict" /\ results[c][Len(a.results)].failed
      BY DEF BatchAccounted
    <2> PICK n \in Nat : n = Len(results[c])
      BY DEF IInv, TypeOK
    <2> DEFINE rows == {e \in ledger : e.id[1] = c}
               fresh == (1..n) \ Replays(c)
    <2>1. /\ answer[c].results = results[c] /\ answer[c].errors = Cardinality(Failures(c))
          /\ answer[c].created = n - Cardinality(Replays(c))
          /\ answer[c].mode = "strict" => \A i \in Failures(c) : i = n
          /\ n < Len(req[c].items) => answer[c].mode = "strict" /\ results[c][n].failed
      BY DEF IInv, Facts, AnswerFacts
    <2>2. /\ ItemsOf(c) = 1..n
          /\ Replays(c) \in SUBSET (1..n) /\ Failures(c) \in SUBSET (1..n)
      BY DEF ItemsOf, Replays, Failures
    <2>3. ASSUME NEW e \in rows
          PROVE  /\ e.id = <<c, e.id[2]>> /\ e.id[2] \in fresh
                 /\ e.status = "fail" <=> results[c][e.id[2]].failed
      <3>1. EntryFacts(e) /\ e.id[1] = c
        BY DEF IInv, Facts
      <3>2. e.id = <<c, e.id[2]>> /\ e.id[2] \in ItemsOf(c) /\ ~ results[c][e.id[2]].replayed
        BY <3>1 DEF EntryFacts, Reached
      <3>3. PICK f \in ledger : Backs(f, c, e.id[2])
        BY <3>2 DEF IInv, Facts, Backed
      <3>4. f.id = e.id /\ (results[c][e.id[2]].failed <=> f.status = "fail")
        BY <3>2, <3>3 DEF Backs
      <3>5. e = f
        BY <3>4 DEF IInv, Facts, Apart
      <3> QED BY <2>2, <3>2, <3>4, <3>5 DEF Replays
    <2>4. ASSUME NEW i \in fresh PROVE \E e \in rows : e.id = <<c, i>>
      <3>1. i \in ItemsOf(c) /\ ~ results[c][i].replayed
        BY <2>2 DEF Replays
      <3>2. PICK e \in ledger : Backs(e, c, i)
        BY <3>1 DEF IInv, Facts, Backed
      <3> QED BY <3>1, <3>2 DEF Backs
    <2>5. Cardinality(rows) = Cardinality(fresh)
      BY <2>3, <2>4, RowsCounted
    <2>6. answer[c].created = Cardinality(rows)
      BY <2>1, <2>2, <2>5, Counts
    <2>7. Cardinality({e \in rows : e.status = "fail"}) = Cardinality(Failures(c))
      <3>1. \A e \in {e \in rows : e.status = "fail"} : e.id[1] = c /\ e.id[2] \in Failures(c)
        BY <2>2, <2>3 DEF Failures
      <3>2. ASSUME NEW i \in Failures(c)
            PROVE  \E e \in {e \in rows : e.status = "fail"} : e.id = <<c, i>>
        <4>1. i \in ItemsOf(c) /\ results[c][i].failed
          BY DEF Failures
        <4>2. PICK e \in ledger : Backs(e, c, i)
          BY <4>1 DEF IInv, Facts, Backed
        <4> QED BY <4>1, <4>2 DEF Backs
      <3> HIDE DEF rows
      <3> QED BY <2>2, <3>1, <3>2, RowsCounted DEF rows
    <2>8. \A x \in github : x[1] = c => x[2] <= n
      BY <2>2 DEF IInv, Facts, EffectFacts, Reached
    <2>9. answer[c].mode = "strict" => \A i \in ItemsOf(c) : results[c][i].failed => i = n
      BY <2>1 DEF Failures
    <2> HIDE DEF rows, fresh
    <2> QED BY <2>1, <2>6, <2>7, <2>8, <2>9 DEF rows
  <1> QED BY <1>1, IInit, INext, PTL DEF Spec

\* Every step commits one entry to the ledger or leaves the trail alone.
LEMMA TrailStep == IInv /\ [Next]_vars => [Ledger!Next]_(Ledger!vars)
  <1> SUFFICES ASSUME IInv, [Next]_vars, ~ UNCHANGED trail
               PROVE  Ledger!Next
    BY DEF trail, Ledger!vars
  <1>1. PICK c \in Calls : Record(c) \/ RecordFails(c)
    BY DEF Next, Step, Crash, vars, trail, Refuse, Arrive, LookupFails, Replay, RefuseReuse,
       Miss, Perform, PerformFails
  <1>2. /\ pc[c] = "record" /\ Ledger!Commit(NewEntry(c))
        /\ returned' \in {returned, returned \cup {NewEntry(c)}}
    BY <1>1 DEF Record, RecordFails
  <1>3. NewEntry(c) \in Ledger!Entry
    BY <1>2, NewEntryShape DEF IInv
  <1> QED BY <1>2, <1>3 DEF Ledger!Next

\* The rows the GitHub write tools record are an append-only AuditLedger: each
\* call adds whole entries under identities of its own, and no two successes share
\* a key (audit.go:49-122, http/server.go:1348-1383).
THEOREM WritesKeepLedger == Spec => Ledger!Spec
  <1>1. Init => Ledger!Init
    BY DEF Init, Ledger!Init
  <1> QED BY <1>1, IInit, INext, TrailStep, PTL DEF Spec, Ledger!Spec

==============================================================================
