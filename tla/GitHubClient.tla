----------------------------- MODULE GitHubClient -----------------------------
(***************************************************************************)
(* The GitHub client (internal/github/client.go): the installation id and  *)
(* the installation token that all callers share under one mutex, the      *)
(* request that carries the token after the mutex is given back, and the   *)
(* two reads, of a pull request and of its files page by page.             *)
(*                                                                         *)
(* Time passes in ticks of some seconds.  A tick does not come while a     *)
(* request is older than the time its http.Client gives it (30 s).  A      *)
(* token stands for the tick it expires at.  Time is GitHub's; the clock   *)
(* the client reads is off by Skew at most, and the code has the rest of   *)
(* the margin, 30 s, for that: a client whose clock is further behind may  *)
(* send an expired token.                                                  *)
(***************************************************************************)
EXTENDS Integers, Sequences

CONSTANTS Callers, NoCaller,
          TokenLife,    \* what GitHub gives a token (1 h)
          Margin,       \* no token is handed out this close to its end (1 min)
          Skew,         \* how far the client's clock may be off from GitHub's
          CallTime,     \* from handing out a token to its arrival at GitHub; a
                        \* fetch takes no longer
          PageSize, MaxPages,   \* 100 and 10
          Lists,        \* the file lists the pull request may have
          Mixes,        \* what the callers may ask for, together
          MaxTime       \* bound on the ticks

ASSUME ClientAssumption ==
  /\ NoCaller \notin Callers
  /\ {TokenLife, Margin, Skew, CallTime, PageSize, MaxPages, MaxTime} \subseteq Nat
  /\ CallTime + Skew <= Margin /\ 2 * CallTime < TokenLife
  /\ PageSize > 0 /\ MaxPages > 0
  /\ Mixes \subseteq [Callers -> {"get", "list"}]
  /\ \A l \in Lists : l \in Seq({l[i] : i \in DOMAIN l})

NoToken == 0

VARIABLES
  now,
  mu,         \* who holds Client.mu
  installed,  \* installationID is known
  token,      \* Client.token and expAt
  revoked,    \* the tokens GitHub no longer takes
  list,       \* the files of the pull request, at GitHub
  op,         \* what each caller asks for
  pc,
  since,      \* when its request at hand began
  held,       \* the token it was issued or handed
  page, files,\* the page it asks for and the files it has
  changed,    \* history: the list changed since it began
  rejected    \* history: GitHub refused its token (401)

client == <<mu, installed, token>>
github == <<revoked, list>>
vars == <<now, client, github, op, pc, since, held, page, files, changed, rejected>>

Init ==
  /\ now = 0 /\ mu = NoCaller
  /\ installed \in BOOLEAN
  /\ token = NoToken /\ revoked = {}
  /\ list \in Lists
  /\ op \in Mixes
  /\ pc = [c \in Callers |-> "new"]
  /\ since = [c \in Callers |-> 0]
  /\ held = [c \in Callers |-> NoToken]
  /\ page = [c \in Callers |-> 1]
  /\ files = [c \in Callers |-> <<>>]
  /\ changed = [c \in Callers |-> FALSE]
  /\ rejected = [c \in Callers |-> FALSE]

------------------------------------------------------------------------------
(* The world. *)

Asking == {"discover", "fetch", "issued", "send"}

\* The timeout of http.Client: no request outlives it.
Tick ==
  /\ now < MaxTime
  /\ \A c \in Callers : pc[c] \in Asking => now - since[c] < CallTime
  /\ now' = now + 1
  /\ UNCHANGED <<client, github, op, pc, since, held, page, files, changed, rejected>>

\* A push to the pull request, between two pages of a caller perhaps.  (One
\* change and one revocation bound the model.)
ChangeList ==
  /\ \A c \in Callers : ~ changed[c]
  /\ \E l \in Lists \ {list} : list' = l
  /\ changed' = [c \in Callers |-> TRUE]
  /\ UNCHANGED <<now, client, revoked, op, pc, since, held, page, files, rejected>>

\* The installation is suspended or the key withdrawn: a token ends before its time.
Revoke ==
  /\ revoked = {} /\ token # NoToken
  /\ revoked' = {token}
  /\ UNCHANGED <<now, client, list, op, pc, since, held, page, files, changed, rejected>>

------------------------------------------------------------------------------
Goto(c, label) ==
  /\ pc' = [pc EXCEPT ![c] = label]
  /\ since' = [since EXCEPT ![c] = IF label \in Asking THEN now ELSE 0]

Begin(c) ==
  /\ pc[c] = "new"
  /\ Goto(c, "lock")
  /\ UNCHANGED <<now, client, github, op, held, page, files, changed, rejected>>

\* Mutant of Usable: a token is handed out until it expires.
UsableToTheEnd(clock) == token # NoToken /\ clock < token

\* The token is used up to a minute before it expires, by the client's own clock.
Usable(clock) == token # NoToken /\ clock < token - Margin

\* What time.Now may say.
Clocks == (now - Skew)..(now + Skew)

Free == mu = NoCaller

\* installationToken under the mutex: the cached token, at once ...
TakeCached(c) ==
  /\ pc[c] = "lock" /\ Free /\ installed
  /\ \E clock \in Clocks : Usable(clock)
  /\ held' = [held EXCEPT ![c] = token]
  /\ Goto(c, "send")
  /\ UNCHANGED <<now, client, github, op, page, files, changed, rejected>>

\* ... or a request to GitHub with the mutex held: for the installation id, if it
\* is not configured and not known yet, or for a token.
LockAndAsk(c) ==
  /\ pc[c] = "lock" /\ Free
  /\ installed => \E clock \in Clocks : ~ Usable(clock)
  /\ mu' = c
  /\ Goto(c, IF installed THEN "fetch" ELSE "discover")
  /\ UNCHANGED <<now, installed, token, github, op, held, page, files, changed, rejected>>

\* ensureInstallationID found the one installation.
Discover(c) ==
  /\ pc[c] = "discover"
  /\ installed' = TRUE
  /\ Goto(c, "fetch")
  /\ UNCHANGED <<now, mu, token, github, op, held, page, files, changed, rejected>>

\* GitHub issues a token ...
Issue(c) ==
  /\ pc[c] = "fetch"
  /\ held' = [held EXCEPT ![c] = now + TokenLife]
  /\ pc' = [pc EXCEPT ![c] = "issued"]
  /\ UNCHANGED <<now, client, github, op, since, page, files, changed, rejected>>

\* ... and the client stores it and gives the mutex back.
Store(c) ==
  /\ pc[c] = "issued"
  /\ token' = held[c]
  /\ mu' = NoCaller
  /\ Goto(c, "send")
  /\ UNCHANGED <<now, installed, github, op, held, page, files, changed, rejected>>

\* Mutant of AskFails: the mutex is not given back on an error.
AskFailsLocked(c) ==
  /\ pc[c] \in {"discover", "fetch", "issued"}
  /\ Goto(c, "failed")
  /\ UNCHANGED <<now, client, github, op, held, page, files, changed, rejected>>

\* An error status, no or several installations, a body that is not understood,
\* the timeout, or the caller's own context ended: only its own call fails.
AskFails(c) ==
  /\ pc[c] \in {"discover", "fetch", "issued"}
  /\ mu' = NoCaller
  /\ Goto(c, "failed")
  /\ UNCHANGED <<now, installed, token, github, op, held, page, files, changed, rejected>>

------------------------------------------------------------------------------
(* The request itself, sent without the mutex. *)

Smaller(m, n) == IF m < n THEN m ELSE n

\* What GitHub answers for a page.
PageOf(l, n) == SubSeq(l, (n - 1) * PageSize + 1, Smaller(n * PageSize, Len(l)))

\* Mutant of LastPage: a page that may be followed by another ends the list.
LastPageFull(got, n) == Len(got) <= PageSize \/ n = MaxPages

LastPage(got, n) == Len(got) < PageSize \/ n = MaxPages

\* GitHub takes the token and answers.  The next page asks for its token anew.
Arrive(c) ==
  /\ pc[c] = "send" /\ now < held[c] /\ held[c] \notin revoked
  /\ IF op[c] = "get"
     THEN Goto(c, "done") /\ UNCHANGED <<page, files>>
     ELSE LET got == PageOf(list, page[c]) IN
          /\ files' = [files EXCEPT ![c] = @ \o got]
          /\ IF LastPage(got, page[c])
             THEN Goto(c, "done") /\ UNCHANGED page
             ELSE Goto(c, "lock") /\ page' = [page EXCEPT ![c] = @ + 1]
  /\ UNCHANGED <<now, client, github, op, held, changed, rejected>>

\* 401: an error like others; the cached token stays.
Reject(c) ==
  /\ pc[c] = "send" /\ (now >= held[c] \/ held[c] \in revoked)
  /\ rejected' = [rejected EXCEPT ![c] = TRUE]
  /\ Goto(c, "failed")
  /\ UNCHANGED <<now, client, github, op, held, page, files, changed>>

\* Any other error, the timeout, or the caller's context.
SendFails(c) ==
  /\ pc[c] = "send"
  /\ Goto(c, "failed")
  /\ UNCHANGED <<now, client, github, op, held, page, files, changed, rejected>>

------------------------------------------------------------------------------
Step(c) ==
  \/ TakeCached(c) \/ LockAndAsk(c) \/ Discover(c) \/ Issue(c) \/ Store(c) \/ AskFails(c)
  \/ Arrive(c) \/ Reject(c) \/ SendFails(c)

Next ==
  \/ \E c \in Callers : Begin(c) \/ Step(c)
  \/ Tick \/ ChangeList \/ Revoke

\* A request is answered or times out, and the mutex is handed on.
Spec == Init /\ [][Next]_vars /\ \A c \in Callers : WF_vars(Step(c))

------------------------------------------------------------------------------
(* Properties. *)

\* Though the token is used after the mutex is given back, and the client's clock may
\* be off by Skew, GitHub never sees an expired one: a refused token was revoked
\* (client.go:141-151, 187-211).
RefusedWasRevoked == \A c \in Callers : rejected[c] => held[c] \in revoked

\* A list read while it did not change is the list, each file once, whatever its
\* length is to the page, up to the pages the client reads (client.go:397-429).
QuietListIsWhole ==
  \A c \in Callers : pc[c] = "done" /\ op[c] = "list" /\ ~ changed[c] =>
    files[c] = SubSeq(list, 1, Smaller(Len(list), PageSize * MaxPages))

\* A caller that waits for the mutex comes through, although others hold it over a
\* request that may fail or time out (client.go:141-185).
CallsReturn == \A c \in Callers : pc[c] = "lock" ~> pc[c] \in {"done", "failed"}
==============================================================================
