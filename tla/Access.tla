------------------------------- MODULE Access -------------------------------
(***************************************************************************)
(* How the server decides who a request comes from: the middleware auth of *)
(* internal/httpapi/api.go, the browser sessions of the control desk       *)
(* (internal/httpapi/session.go) and the server's own File, which re-reads *)
(* the token file while commands change it (module TokenFile).  The tokens *)
(* of --tokens, which never change, are left out.                          *)
(*                                                                         *)
(* The mutex of the File is held over one load and the look at the entries *)
(* that follows it.  A request asks twice: whether there are tokens at     *)
(* all, and whose the presented one is.                                    *)
(***************************************************************************)
EXTENDS Naturals

CONSTANTS
  Token, Name, NameOf, Command, Server, NoJob, MaxWrites,   \* see TokenFile
  Admin,        \* names whose tokens have the "*" grant
  Request,      \* goroutines that serve a request
  Code,         \* one-time codes and
  Session,      \* session tokens that can be drawn
  Anonymous, NoOne, NoGrant,
  CodeTTL, SessionTTL,
  MaxTime       \* bound on the time modelled

ASSUME AccessAssumption ==
  /\ NameOf \in [Token -> Name] /\ Server \notin Command /\ Admin \subseteq Name
  /\ Anonymous \notin Name /\ NoOne \notin Request
  /\ {"none", "denied"} \intersect (Name \union {Anonymous}) = {}
  /\ Token \intersect Session = {} /\ "none" \notin Token \union Session
  /\ {CodeTTL, SessionTTL, MaxTime} \subseteq Nat

VARIABLES
  file, tmp, mem, mtime, stat, pc, job, fd, writes, issued, revoked,
  exposed,   \* the server listens on the network, and requires a token
  holder,    \* the request that has locked the File
  stage,     \* how far a request is
  secret,    \* what it presents
  answer,    \* who it was found to come from
  now,
  codes,     \* the codes and sessions that are in memory
  live,
  opened,    \* history: which sessions were ever opened with a code
  bare       \* history: whether the file had no tokens at some time since the server started

Tokens == INSTANCE TokenFile

disk    == <<file, tmp, writes, pc, job, fd, issued, revoked>>
copy    == <<mem, mtime, stat>>
request == <<holder, stage, secret, answer>>
desk    == <<exposed, now, codes, live, opened, bare>>
vars    == <<disk, copy, request, desk>>

Secret == Token \union Session \union {"none"}
Caller == Name \union {Anonymous}
Grant  == [user : Caller, expires : Nat]

\* What a server that starts reads: on the network it needs tokens.
Loaded == IF file.whole THEN file.tokens ELSE {}

Init ==
  /\ Tokens!Init
  /\ exposed \in BOOLEAN /\ (exposed => Loaded # {})
  /\ bare = (Loaded = {})
  /\ holder = NoOne
  /\ stage = [r \in Request |-> "idle"]
  /\ secret = [r \in Request |-> "none"]
  /\ answer = [r \in Request |-> "none"]
  /\ now = 0
  /\ codes = [k \in Code |-> NoGrant]
  /\ live = [s \in Session |-> NoGrant]
  /\ opened = [k \in Code |-> {}]

----------------------------------------------------------------------------
Answer(r, who) ==
  /\ answer' = [answer EXCEPT ![r] = who]
  /\ stage' = [stage EXCEPT ![r] = "answered"]

Goto(r, where) == stage' = [stage EXCEPT ![r] = where] /\ UNCHANGED answer

\* Slip: who presents nothing is let in as anonymous.
EnabledIfPresented(r) ==
  \/ (mem'[Server] = {} \/ secret[r] = "none") /\ Answer(r, Anonymous)
  \/ mem'[Server] # {} /\ secret[r] # "none" /\ Goto(r, "resolve")

\* File.Enabled and File.Resolve, after their load.
Enabled(r) ==
  \/ mem'[Server] = {} /\ Answer(r, Anonymous)
  \/ mem'[Server] # {} /\ Goto(r, "resolve")

\* Slip: the secret is taken for the name.
ResolveSecret(r) ==
  \/ secret[r] \in mem'[Server] /\ Answer(r, secret[r])
  \/ secret[r] \notin mem'[Server] /\ Answer(r, "denied")

Resolve(r) ==
  \/ secret[r] \in mem'[Server] /\ Answer(r, NameOf[secret[r]])
  \/ secret[r] \notin mem'[Server] /\ Answer(r, "denied")

Asked(r) == IF stage[r] \in {"enabled", "reading enabled"} THEN Enabled(r) ELSE Resolve(r)

\* A request comes in.
Arrive(r, x) ==
  /\ stage[r] = "idle"
  /\ Goto(r, IF exposed THEN "resolve" ELSE "enabled")
  /\ secret' = [secret EXCEPT ![r] = x]
  /\ UNCHANGED <<disk, copy, holder, desk>>

\* It locks the File and looks whether the file has changed.
AskFile(r) ==
  /\ stage[r] \in {"enabled", "resolve"}
  /\ stage[r] = "resolve" => secret[r] \in Token
  /\ holder = NoOne
  /\ Tokens!Stat(Server)
  /\ IF Tokens!MustRead(Server)
       THEN holder' = r /\ Goto(r, IF stage[r] = "enabled" THEN "reading enabled" ELSE "reading resolve")
       ELSE Asked(r) /\ UNCHANGED holder
  /\ UNCHANGED <<disk, secret, desk>>

ReadFile(r) ==
  /\ stage[r] \in {"reading enabled", "reading resolve"}
  /\ Tokens!Read(Server)
  /\ Asked(r)
  /\ holder' = NoOne
  /\ UNCHANGED <<disk, secret, desk>>

\* Nothing presented.
NoSecret(r) ==
  /\ stage[r] = "resolve" /\ secret[r] = "none"
  /\ Answer(r, "denied")
  /\ UNCHANGED <<disk, copy, holder, secret, desk>>

\* sessions.resolve.
Valid(g) == g # NoGrant /\ now <= g.expires

AskSessions(r) ==
  /\ stage[r] = "resolve" /\ secret[r] \in Session
  /\ Answer(r, IF Valid(live[secret[r]]) THEN live[secret[r]].user ELSE "denied")
  /\ UNCHANGED <<disk, copy, holder, secret, desk>>

\* The handler is done, whatever it did for this caller.
Leave(r) ==
  /\ stage' = [stage EXCEPT ![r] = "idle"]
  /\ secret' = [secret EXCEPT ![r] = "none"]
  /\ answer' = [answer EXCEPT ![r] = "none"]
  /\ UNCHANGED <<disk, copy, holder>>

Serve(r) == stage[r] = "answered" /\ Leave(r) /\ UNCHANGED desk

----------------------------------------------------------------------------
\* What sweep leaves of codes or sessions.
Swept(grants) == [x \in DOMAIN grants |-> IF Valid(grants[x]) THEN grants[x] ELSE NoGrant]

\* Anonymous has every grant.
IsAdmin(r) == stage[r] = "answered" /\ answer[r] \in Admin \union {Anonymous}

\* loginCode: an administrator asks for a one-time code.
LoginCode(r, k) ==
  /\ IsAdmin(r)
  /\ codes[k] = NoGrant /\ opened[k] = {}
  /\ codes' = [Swept(codes) EXCEPT ![k] = [user |-> answer[r], expires |-> now + CodeTTL]]
  /\ live' = Swept(live)
  /\ Leave(r)
  /\ UNCHANGED <<exposed, now, opened, bare>>

\* Slip: the code is not deleted.
ExchangeAgain(k, s) ==
  /\ Valid(codes[k])
  /\ \A j \in Code : s \notin opened[j]
  /\ codes' = Swept(codes)
  /\ live' = [Swept(live) EXCEPT ![s] = [user |-> codes[k].user, expires |-> now + SessionTTL]]
  /\ opened' = [opened EXCEPT ![k] = @ \union {s}]
  /\ UNCHANGED <<disk, copy, request, exposed, now, bare>>

\* sessionExchange: whoever presents a code gets a session of its own.
Exchange(k, s) ==
  /\ Valid(codes[k])
  /\ \A j \in Code : s \notin opened[j]
  /\ codes' = [Swept(codes) EXCEPT ![k] = NoGrant]
  /\ live' = [Swept(live) EXCEPT ![s] = [user |-> codes[k].user, expires |-> now + SessionTTL]]
  /\ opened' = [opened EXCEPT ![k] = @ \union {s}]
  /\ UNCHANGED <<disk, copy, request, exposed, now, bare>>

\* The code is unknown, used or expired: 401.
ExchangeRefused(k) ==
  /\ ~Valid(codes[k])
  /\ codes' = Swept(codes) /\ live' = Swept(live)
  /\ UNCHANGED <<disk, copy, request, exposed, now, opened, bare>>

Tick ==
  /\ now < MaxTime
  /\ now' = now + 1
  /\ UNCHANGED <<disk, copy, request, exposed, codes, live, opened, bare>>

\* The server stops and is started again: nothing that was in memory is left.
Restart ==
  /\ exposed' \in BOOLEAN /\ (exposed' => Loaded # {})
  /\ bare' = (Loaded = {})
  /\ mem' = [mem EXCEPT ![Server] = Loaded]
  /\ mtime' = [mtime EXCEPT ![Server] = IF file.whole THEN file.mtime ELSE 0]
  /\ holder' = NoOne
  /\ stage' = [r \in Request |-> "idle"]
  /\ secret' = [r \in Request |-> "none"]
  /\ answer' = [r \in Request |-> "none"]
  /\ codes' = [k \in Code |-> NoGrant]
  /\ live' = [s \in Session |-> NoGrant]
  /\ UNCHANGED <<disk, stat, now, opened>>

\* A command takes a step.
Manage(c) ==
  /\ Tokens!Step(c)
  /\ bare' = (bare \/ Loaded' = {})
  /\ UNCHANGED <<request, exposed, now, codes, live, opened>>

Next ==
  \/ \E r \in Request :
       \/ \E x \in Secret : Arrive(r, x)
       \/ AskFile(r) \/ ReadFile(r) \/ NoSecret(r) \/ AskSessions(r) \/ Serve(r)
       \/ \E k \in Code : LoginCode(r, k)
  \/ \E k \in Code : ExchangeRefused(k) \/ \E s \in Session : Exchange(k, s)
  \/ Tick \/ Restart
  \/ \E c \in Command : Manage(c)

Spec == Init /\ [][Next]_vars

----------------------------------------------------------------------------
\* Every variable has its type.
TypeOK ==
  /\ Tokens!TypeOK
  /\ exposed \in BOOLEAN
  /\ holder \in Request \union {NoOne}
  /\ stage \in [Request -> {"idle", "enabled", "resolve", "reading enabled",
                            "reading resolve", "answered"}]
  /\ secret \in [Request -> Secret]
  /\ answer \in [Request -> Caller \union {"none", "denied"}]
  /\ now \in Nat
  /\ codes \in [Code -> Grant \union {NoGrant}]
  /\ live \in [Session -> Grant \union {NoGrant}]
  /\ opened \in [Code -> SUBSET Session]
  /\ bare \in BOOLEAN

Answered(r) == stage[r] # "answered" /\ stage'[r] = "answered"

\* A token is accepted or refused by what the file says at that very moment,
\* so that adding and revoking take effect at once, whatever the server has
\* in memory and whoever writes the file ("picked up by a running server
\* without restart.  Revocation is immediate").  Only a file that is not
\* whole leaves the server with what it knew.
AnswersFollowFile ==
  [][\A r \in Request :
       Answered(r) /\ secret[r] \in Token /\ answer'[r] # Anonymous
         /\ (file.whole \/ file.mtime = 0)
       => (answer'[r] # "denied" <=> secret[r] \in file.tokens)]_vars

\* On the network nobody is ever taken for anonymous, "even if the token file
\* is emptied while it runs"; on a local server only as long as there are no
\* tokens, with one exception: a session keeps the identity it was opened for,
\* so that one opened by Anonymous answers as Anonymous although tokens were
\* added since, until it expires.  Such a session needs a time without tokens
\* in the life of this very server.
AnonymousOnlyWithoutTokens ==
  [][\A r \in Request :
       Answered(r) /\ answer'[r] = Anonymous
       => /\ ~exposed
          /\ Loaded = {} \/ (bare /\ secret[r] \in Session)]_vars

\* A code opens one session at most, however many exchanges and restarts race.
OneSessionPerCode == \A k \in Code : \A s, t \in opened[k] : s = t
=============================================================================
