---------------------------- MODULE AccessProofs ----------------------------
(***************************************************************************)
(* Theorems about Access, for any tokens, names, commands and requests,    *)
(* any codes and sessions, and any number of writes of the token file.     *)
(*                                                                         *)
(* What the server has in memory is the file's as long as their            *)
(* modification times agree (CopyTrue).  That is inductive because a file  *)
(* that is going to be renamed is new to the server (TmpNew), and because  *)
(* the time is taken before the file is read.                              *)
(***************************************************************************)
EXTENDS Access, TLAPS

USE AccessAssumption DEF Tokens!File

CopyDomains ==
  DOMAIN mem = Tokens!File /\ DOMAIN mtime = Tokens!File /\ DOMAIN stat = Tokens!File

Known == {file.mtime, mtime[Server], stat[Server]}

TimesOK == writes \in Nat /\ Known \union {tmp.mtime} \subseteq 0 .. writes

TmpNew == tmp = Tokens!NoFile \/ tmp.mtime \notin {0} \union Known

NoFileNoTokens == file.mtime = 0 => file.tokens = {}

CopyTrue ==
  file.mtime # 0 /\ mtime[Server] = file.mtime /\ file.whole => mem[Server] = file.tokens

CopyInv == CopyDomains /\ TimesOK /\ TmpNew /\ NoFileNoTokens /\ CopyTrue

----------------------------------------------------------------------------
\* What is written has a time of its own.
LEMMA WrittenIsNew ==
  ASSUME NEW c, NEW at, NEW new \in Tokens!Written(c, at)
  PROVE  new.mtime = writes + 1
<1> DEFINE Text(whole) == IF whole THEN mem[c] ELSE {}
<1>1. PICK whole : new = [tokens |-> Text(whole), whole |-> whole, mtime |-> writes + 1]
  BY DEF Tokens!Written
<1> HIDE DEF Text
<1>2. QED  BY <1>1

\* A command changes neither what the server has nor what it knows of the
\* file, and what it writes has a time that is new.
LEMMA CommandKeepsCopy ==
  ASSUME CopyInv, NEW c \in Command, Tokens!Step(c)
  PROVE  CopyInv' /\ (file.mtime # 0 => file'.mtime # 0)
<1>1. c # Server /\ c \in DOMAIN mem /\ Server \in DOMAIN mem
  BY DEF CopyInv, CopyDomains
<1>2. /\ DOMAIN mtime = DOMAIN mem /\ DOMAIN stat = DOMAIN mem
      /\ writes \in Nat /\ file.mtime \in 0 .. writes /\ tmp.mtime \in 0 .. writes
      /\ mtime[Server] \in 0 .. writes /\ stat[Server] \in 0 .. writes
  BY DEF CopyInv, CopyDomains, TimesOK, Known
<1> DEFINE SameCopy == /\ mem'[Server] = mem[Server] /\ mtime'[Server] = mtime[Server]
                       /\ stat'[Server] = stat[Server]
                       /\ DOMAIN mem' = DOMAIN mem /\ DOMAIN mtime' = DOMAIN mtime
                       /\ DOMAIN stat' = DOMAIN stat
<1>3. ASSUME SameCopy, UNCHANGED <<file, tmp, writes>> PROVE CopyInv'
  BY <1>3 DEF CopyInv, CopyDomains, TimesOK, Known, TmpNew, NoFileNoTokens, CopyTrue
<1>4. ASSUME Tokens!StartAdd(c) \/ Tokens!StartRevoke(c)
      PROVE  SameCopy /\ UNCHANGED <<file, tmp, writes>>
  <2>1. ASSUME NEW j, Tokens!Start(c, j) PROVE SameCopy /\ UNCHANGED <<file, tmp, writes>>
    BY <1>1, <1>2, <2>1 DEF Tokens!Start, Tokens!onDisk
  <2>2. QED  BY <1>4, <2>1 DEF Tokens!StartAdd, Tokens!StartRevoke
<1>5. ASSUME Tokens!Look(c) PROVE SameCopy /\ UNCHANGED <<file, tmp, writes>>
  BY <1>1, <1>2, <1>5 DEF Tokens!Look, Tokens!Stat, Tokens!onDisk
<1>6. ASSUME Tokens!Load(c) PROVE SameCopy /\ UNCHANGED <<file, tmp, writes>>
  BY <1>1, <1>2, <1>6 DEF Tokens!Load, Tokens!Read, Tokens!onDisk
<1>7. ASSUME Tokens!AddEntry(c) \/ Tokens!RemoveEntries(c)
      PROVE  SameCopy /\ UNCHANGED <<file, tmp, writes>>
  <2>1. mem'[Server] = mem[Server] /\ DOMAIN mem' = DOMAIN mem
    BY <1>1, <1>7 DEF Tokens!AddEntry, Tokens!RemoveEntries
  <2>2. UNCHANGED <<file, tmp, writes, mtime, stat>>
    BY <1>7 DEF Tokens!AddEntry, Tokens!RemoveEntries, Tokens!onDisk
  <2>3. QED  BY <2>1, <2>2
<1>8. ASSUME Tokens!Abort(c) PROVE SameCopy /\ UNCHANGED <<file, tmp, writes>>
  BY <1>8 DEF Tokens!Abort, Tokens!onDisk
<1>9. ASSUME Tokens!OpenTmp(c) PROVE CopyInv' /\ file' = file
  <2>1. SameCopy /\ file' = file /\ writes' = writes + 1 /\ tmp'.mtime = writes + 1
    BY <1>1, <1>2, <1>9 DEF Tokens!OpenTmp
  <2> HIDE DEF SameCopy
  <2>2. TimesOK'
    BY <1>2, <2>1 DEF SameCopy, TimesOK, Known
  <2>3. TmpNew'
    BY <1>2, <2>1 DEF SameCopy, TmpNew, Known
  <2>4. QED  BY <2>1, <2>2, <2>3 DEF SameCopy, CopyInv, CopyDomains, NoFileNoTokens, CopyTrue
<1>10. ASSUME Tokens!WriteTmp(c) PROVE CopyInv' /\ (file.mtime # 0 => file'.mtime # 0)
  <2>1. SameCopy /\ writes' = writes + 1
    BY <1>10 DEF Tokens!WriteTmp
  <2>2. tmp' = tmp \/ tmp'.mtime = writes + 1
    BY <1>10, WrittenIsNew DEF Tokens!WriteTmp
  <2>3. file' = file \/ file'.mtime = writes + 1
    BY <1>10, WrittenIsNew DEF Tokens!WriteTmp
  <2>4. tmp' = tmp \/ file' = file
    BY <1>10 DEF Tokens!WriteTmp
  <2> HIDE DEF SameCopy
  <2>5. TimesOK'
    BY <1>2, <2>1, <2>2, <2>3 DEF SameCopy, TimesOK, Known
  <2>6. TmpNew'
    BY <1>2, <2>1, <2>2, <2>3, <2>4 DEF SameCopy, CopyInv, TmpNew, Known
  <2>7. NoFileNoTokens' /\ CopyTrue'
    BY <1>2, <2>1, <2>3 DEF SameCopy, CopyInv, NoFileNoTokens, CopyTrue
  <2>8. QED  BY <1>2, <2>1, <2>3, <2>5, <2>6, <2>7 DEF SameCopy, CopyInv, CopyDomains
<1>11. ASSUME Tokens!Rename(c) PROVE CopyInv' /\ file'.mtime # 0
  <2>1. /\ SameCopy /\ file' = tmp /\ tmp' = Tokens!NoFile /\ writes' = writes /\ tmp # Tokens!NoFile
    BY <1>1, <1>2, <1>11 DEF Tokens!Rename
  <2> HIDE DEF SameCopy
  <2>2. tmp.mtime \notin {0, file.mtime, mtime[Server], stat[Server]}
    BY <2>1 DEF CopyInv, TmpNew, Known
  <2>3. tmp'.mtime = 0
    BY <2>1 DEF Tokens!NoFile
  <2>4. TimesOK' /\ TmpNew'
    BY <1>2, <2>1, <2>3 DEF SameCopy, TimesOK, TmpNew, Known
  <2>5. QED  BY <2>1, <2>2, <2>4 DEF SameCopy, CopyInv, CopyDomains, NoFileNoTokens, CopyTrue
<1>12. QED
  BY <1>3, <1>4, <1>5, <1>6, <1>7, <1>8, <1>9, <1>10, <1>11 DEF Tokens!Step

----------------------------------------------------------------------------
RequestInv(r) ==
  /\ stage[r] \in {"enabled", "reading enabled"} => ~exposed
  /\ stage[r] \in {"reading enabled", "reading resolve"} => file.mtime # 0
  /\ stage[r] = "reading resolve" => secret[r] \in Token

RequestDomains == DOMAIN stage = Request /\ DOMAIN secret = Request /\ DOMAIN answer = Request

AccessInv == CopyInv /\ RequestDomains /\ \A r \in Request : RequestInv(r)

\* What the server knows once it has looked at a file that is whole, or is not
\* there, is what the file says.
LEMMA LookTellsFile ==
  ASSUME CopyInv, Tokens!Stat(Server), ~Tokens!MustRead(Server),
         file.whole \/ file.mtime = 0
  PROVE  mem'[Server] = file.tokens
<1>1. Server \in DOMAIN mem
  BY DEF CopyInv, CopyDomains
<1>2. QED
  BY <1>1 DEF CopyInv, NoFileNoTokens, CopyTrue, Tokens!Stat, Tokens!MustRead

LEMMA ReadTellsFile ==
  ASSUME CopyInv, Tokens!Read(Server), file.whole
  PROVE  mem'[Server] = file.tokens
BY DEF CopyInv, CopyDomains, Tokens!Read

\* A look or a read leaves what the server knows true.
LEMMA LookKeepsCopy ==
  ASSUME CopyInv, Tokens!Stat(Server), UNCHANGED disk
  PROVE  CopyInv'
<1>1. Server \in DOMAIN mem /\ Server \in DOMAIN mtime /\ Server \in DOMAIN stat
  BY DEF CopyInv, CopyDomains
<1>2. UNCHANGED <<file, tmp, writes>> /\ stat'[Server] = file.mtime /\ CopyDomains'
  BY <1>1 DEF disk, Tokens!Stat, CopyInv, CopyDomains
<1>3. \/ file.mtime = 0 /\ mtime'[Server] = 0
      \/ UNCHANGED <<mem, mtime>>
  BY <1>1 DEF Tokens!Stat
<1>4. TimesOK'
  BY <1>2, <1>3 DEF CopyInv, TimesOK, Known
<1>5. TmpNew'
  BY <1>2, <1>3 DEF CopyInv, TmpNew, Known
<1>6. NoFileNoTokens' /\ CopyTrue'
  BY <1>2, <1>3 DEF CopyInv, NoFileNoTokens, CopyTrue
<1>7. QED  BY <1>2, <1>4, <1>5, <1>6 DEF CopyInv

LEMMA ReadKeepsCopy ==
  ASSUME CopyInv, Tokens!Read(Server), UNCHANGED disk
  PROVE  CopyInv'
<1>1. Server \in DOMAIN mem /\ Server \in DOMAIN mtime /\ Server \in DOMAIN stat
  BY DEF CopyInv, CopyDomains
<1>2. UNCHANGED <<file, tmp, writes, stat>> /\ CopyDomains'
  BY <1>1 DEF disk, Tokens!Read, CopyInv, CopyDomains
<1>3. \/ mem'[Server] = file.tokens /\ mtime'[Server] = stat[Server]
      \/ UNCHANGED <<mem, mtime>>
  BY <1>1 DEF Tokens!Read
<1>4. TimesOK'
  BY <1>2, <1>3 DEF CopyInv, TimesOK, Known
<1>5. TmpNew'
  BY <1>2, <1>3 DEF CopyInv, TmpNew, Known
<1>6. NoFileNoTokens' /\ CopyTrue'
  BY <1>2, <1>3 DEF CopyInv, NoFileNoTokens, CopyTrue
<1>7. QED  BY <1>2, <1>4, <1>5, <1>6 DEF CopyInv

----------------------------------------------------------------------------
\* What a request finds out, from what the server then knows.
LEMMA AskedAnswers ==
  ASSUME RequestDomains, NEW r \in Request, Asked(r), Answered(r)
  PROVE  \/ /\ stage[r] \in {"enabled", "reading enabled"}
            /\ mem'[Server] = {} /\ answer'[r] = Anonymous
         \/ /\ stage[r] \notin {"enabled", "reading enabled"}
            /\ secret[r] \in mem'[Server] /\ answer'[r] = NameOf[secret[r]]
         \/ /\ stage[r] \notin {"enabled", "reading enabled"}
            /\ secret[r] \notin mem'[Server] /\ answer'[r] = "denied"
<1>1. r \in DOMAIN stage /\ r \in DOMAIN answer
  BY DEF RequestDomains
<1>2. CASE stage[r] \in {"enabled", "reading enabled"}
  <2>1. Enabled(r)
    BY <1>2 DEF Asked
  <2>2. stage'[r] # "resolve"
    BY DEF Answered
  <2>3. QED  BY <1>1, <1>2, <2>1, <2>2 DEF Enabled, Answer, Goto
<1>3. CASE stage[r] \notin {"enabled", "reading enabled"}
  BY <1>1, <1>3 DEF Asked, Resolve, Answer
<1>4. QED  BY <1>2, <1>3

\* Only these steps answer a request, and only their own.
LEMMA WhoAnswers ==
  ASSUME RequestDomains, NEW r \in Request, [Next]_vars, Answered(r)
  PROVE  \/ AskFile(r) /\ ~Tokens!MustRead(Server) /\ Asked(r)
         \/ ReadFile(r) \/ NoSecret(r) \/ AskSessions(r)
<1>1. stage'[r] = "answered" /\ stage[r] # "answered"
  BY DEF Answered
<1>2. ASSUME NEW q \in Request, NEW x \in Secret, Arrive(q, x) PROVE FALSE
  BY <1>1, <1>2 DEF Arrive, Goto, RequestDomains
<1>3. ASSUME NEW q \in Request, Serve(q) \/ \E k \in Code : LoginCode(q, k) PROVE FALSE
  BY <1>1, <1>3 DEF Serve, LoginCode, Leave, RequestDomains
<1>4. ASSUME NEW q \in Request, q # r, AskFile(q) \/ ReadFile(q) \/ NoSecret(q) \/ AskSessions(q)
      PROVE  FALSE
  BY <1>1, <1>4 DEF AskFile, ReadFile, NoSecret, AskSessions, Asked, Enabled, Resolve, Answer, Goto,
                    RequestDomains
<1>5. ASSUME AskFile(r) PROVE ~Tokens!MustRead(Server) /\ Asked(r)
  <2>1. ~Goto(r, "reading enabled") /\ ~Goto(r, "reading resolve")
    BY <1>1 DEF Goto, RequestDomains
  <2>2. QED  BY <1>5, <2>1 DEF AskFile
<1>6. ASSUME NEW k \in Code, ExchangeRefused(k) \/ \E s \in Session : Exchange(k, s) PROVE FALSE
  BY <1>1, <1>6 DEF ExchangeRefused, Exchange, request
<1>7. ASSUME Tick \/ Restart PROVE FALSE
  BY <1>1, <1>7 DEF Tick, Restart, request
<1>8. ASSUME NEW c \in Command, Manage(c) PROVE FALSE
  BY <1>1, <1>8 DEF Manage, request
<1>9. CASE UNCHANGED vars
  BY <1>1, <1>9 DEF vars, request
<1>10. QED
  BY <1>2, <1>3, <1>4, <1>5, <1>6, <1>7, <1>8, <1>9 DEF Next

----------------------------------------------------------------------------
\* Steps that leave the copy and the file alone, and take request q to where
\* nothing is claimed of it.
LEMMA RequestKeeps ==
  ASSUME AccessInv, UNCHANGED <<disk, copy, exposed>>, NEW q \in Request,
         RequestDomains', \A r \in Request \ {q} : stage'[r] = stage[r] /\ secret'[r] = secret[r],
         stage'[q] \in {"reading enabled", "reading resolve"} => stage[q] = stage'[q] /\ secret'[q] = secret[q],
         stage'[q] = "enabled" => ~exposed
  PROVE  AccessInv'
<1>1. CopyInv'
  BY DEF AccessInv, CopyInv, CopyDomains, TimesOK, Known, TmpNew, NoFileNoTokens, CopyTrue,
         disk, copy
<1>2. ASSUME NEW r \in Request PROVE RequestInv(r)'
  <2>1. RequestInv(r) /\ RequestInv(q) /\ UNCHANGED <<file, exposed>>
    BY DEF AccessInv, disk
  <2>2. (exposed = TRUE) = (exposed' = TRUE)
    BY <2>1
  <2>3. CASE r = q
    BY <2>1, <2>2, <2>3 DEF RequestInv
  <2>4. CASE r # q
    BY <2>1, <2>2, <2>4 DEF RequestInv
  <2>5. QED  BY <2>3, <2>4
<1>3. QED  BY <1>1, <1>2 DEF AccessInv

LEMMA AskFileKeeps ==
  ASSUME AccessInv, NEW q \in Request, AskFile(q)
  PROVE  AccessInv'
<1>1. CopyInv'
  BY LookKeepsCopy DEF AskFile, AccessInv
<1>2. q \in DOMAIN stage /\ q \in DOMAIN answer /\ DOMAIN stage = Request /\ RequestInv(q)
  BY DEF AccessInv, RequestDomains
<1>3. RequestDomains' /\ \A r \in Request \ {q} : stage'[r] = stage[r]
  BY <1>2 DEF AccessInv, RequestDomains, AskFile, Asked, Enabled, Resolve, Answer, Goto
<1>4. \/ /\ Tokens!MustRead(Server)
         /\ stage'[q] = (IF stage[q] = "enabled" THEN "reading enabled" ELSE "reading resolve")
      \/ stage'[q] \in {"answered", "resolve"}
  BY <1>2 DEF AskFile, Asked, Enabled, Resolve, Answer, Goto
<1>5. UNCHANGED <<file, secret, exposed>>
  BY DEF AskFile, disk, desk
<1>6. stage[q] \in {"enabled", "resolve"} /\ (stage[q] = "resolve" => secret[q] \in Token)
  BY DEF AskFile
<1>7. ASSUME NEW r \in Request PROVE RequestInv(r)'
  <2>1. CASE r = q
    BY <1>2, <1>4, <1>5, <1>6, <2>1 DEF RequestInv, Tokens!MustRead
  <2>2. CASE r # q
    BY <1>3, <1>5, <2>2 DEF RequestInv, AccessInv
  <2>3. QED  BY <2>1, <2>2
<1>8. QED  BY <1>1, <1>3, <1>7 DEF AccessInv

LEMMA ReadFileKeeps ==
  ASSUME AccessInv, NEW q \in Request, ReadFile(q)
  PROVE  AccessInv'
<1>1. CopyInv'
  BY ReadKeepsCopy DEF ReadFile, AccessInv
<1>2. q \in DOMAIN stage /\ q \in DOMAIN answer /\ DOMAIN stage = Request
  BY DEF AccessInv, RequestDomains
<1>3. RequestDomains' /\ \A r \in Request \ {q} : stage'[r] = stage[r]
  BY <1>2 DEF AccessInv, RequestDomains, ReadFile, Asked, Enabled, Resolve, Answer, Goto
<1>4. stage'[q] \in {"answered", "resolve"}
  BY <1>2 DEF ReadFile, Asked, Enabled, Resolve, Answer, Goto
<1>5. UNCHANGED <<file, secret, exposed>>
  BY DEF ReadFile, disk, desk
<1>6. ASSUME NEW r \in Request PROVE RequestInv(r)'
  BY <1>3, <1>4, <1>5 DEF RequestInv, AccessInv
<1>7. QED  BY <1>1, <1>3, <1>6 DEF AccessInv

\* A server that starts has read the file.
LEMMA RestartKeeps ==
  ASSUME AccessInv, Restart
  PROVE  AccessInv'
<1>1. /\ DOMAIN mem = Tokens!File /\ DOMAIN mtime = Tokens!File /\ Server \in Tokens!File
      /\ UNCHANGED <<file, tmp, writes, stat>>
      /\ mem'[Server] = Loaded /\ mtime'[Server] = IF file.whole THEN file.mtime ELSE 0
  BY DEF AccessInv, CopyInv, CopyDomains, Restart, disk
<1>2. CopyDomains'
  BY DEF AccessInv, CopyInv, CopyDomains, Restart
<1>3. TimesOK' /\ TmpNew'
  BY <1>1 DEF AccessInv, CopyInv, TimesOK, TmpNew, Known
<1>4. NoFileNoTokens' /\ CopyTrue'
  BY <1>1 DEF AccessInv, CopyInv, NoFileNoTokens, CopyTrue, Loaded
<1>5. RequestDomains' /\ \A r \in Request : RequestInv(r)'
  BY DEF Restart, RequestDomains, RequestInv
<1>6. QED  BY <1>2, <1>3, <1>4, <1>5 DEF AccessInv, CopyInv

LEMMA AccessInvariant == Spec => []AccessInv
<1>1. Init => AccessInv
  <2>1. SUFFICES ASSUME Init PROVE AccessInv
    OBVIOUS
  <2>2. /\ file = IF issued = {} THEN Tokens!NoFile ELSE [tokens |-> issued, whole |-> TRUE, mtime |-> 1]
        /\ tmp = Tokens!NoFile /\ writes = file.mtime
        /\ mem = [f \in Tokens!File |-> IF f = Server THEN issued ELSE {}]
        /\ mtime = [f \in Tokens!File |-> IF f = Server THEN file.mtime ELSE 0]
        /\ stat = mtime
    BY <2>1 DEF Init, Tokens!Init
  <2>3. file.tokens = issued /\ file.mtime \in {0, 1} /\ (file.mtime = 0 => issued = {})
    BY <2>2 DEF Tokens!NoFile
  <2>4. CopyDomains /\ mem[Server] = issued /\ mtime[Server] = file.mtime /\ stat[Server] = file.mtime
    BY <2>2 DEF CopyDomains
  <2>5. tmp.mtime = 0
    BY <2>2 DEF Tokens!NoFile
  <2>6. TimesOK
    BY <2>2, <2>3, <2>4, <2>5 DEF TimesOK, Known
  <2>7. CopyInv
    BY <2>2, <2>3, <2>4, <2>6 DEF CopyInv, TmpNew, NoFileNoTokens, CopyTrue
  <2>8. RequestDomains /\ \A r \in Request : RequestInv(r)
    BY <2>1 DEF Init, RequestDomains, RequestInv
  <2>9. QED  BY <2>7, <2>8 DEF AccessInv
<1>2. AccessInv /\ [Next]_vars => AccessInv'
  <2>1. SUFFICES ASSUME AccessInv, [Next]_vars PROVE AccessInv'
    OBVIOUS
  <2>2. ASSUME UNCHANGED <<disk, copy, request, exposed>> PROVE AccessInv'
    BY <2>1, <2>2 DEF AccessInv, CopyInv, CopyDomains, TimesOK, Known, TmpNew, NoFileNoTokens,
                      CopyTrue, RequestDomains, RequestInv, disk, copy, request
  <2>3. ASSUME NEW q \in Request, NEW x \in Secret, Arrive(q, x) PROVE AccessInv'
    <3>1. UNCHANGED <<disk, copy, exposed>> /\ RequestDomains'
      BY <2>1, <2>3 DEF Arrive, Goto, desk, AccessInv, RequestDomains
    <3>2. /\ stage'[q] = IF exposed THEN "resolve" ELSE "enabled"
          /\ \A r \in Request \ {q} : stage'[r] = stage[r] /\ secret'[r] = secret[r]
      BY <2>1, <2>3 DEF Arrive, Goto, AccessInv, RequestDomains
    <3>3. QED  BY <2>1, <3>1, <3>2, RequestKeeps
  <2>4. ASSUME NEW q \in Request, NoSecret(q) \/ AskSessions(q) PROVE AccessInv'
    <3>1. UNCHANGED <<disk, copy, exposed, secret>> /\ RequestDomains'
      BY <2>1, <2>4 DEF NoSecret, AskSessions, Answer, desk, AccessInv, RequestDomains
    <3>2. stage'[q] = "answered" /\ \A r \in Request \ {q} : stage'[r] = stage[r]
      BY <2>1, <2>4 DEF NoSecret, AskSessions, Answer, AccessInv, RequestDomains
    <3>3. QED  BY <2>1, <3>1, <3>2, RequestKeeps
  <2>5. ASSUME NEW q \in Request, Serve(q) \/ \E k \in Code : LoginCode(q, k) PROVE AccessInv'
    <3>1. UNCHANGED <<disk, copy, exposed>> /\ RequestDomains'
      BY <2>1, <2>5 DEF Serve, LoginCode, Leave, desk, AccessInv, RequestDomains
    <3>2. /\ stage'[q] = "idle"
          /\ \A r \in Request \ {q} : stage'[r] = stage[r] /\ secret'[r] = secret[r]
      BY <2>1, <2>5 DEF Serve, LoginCode, Leave, AccessInv, RequestDomains
    <3>3. QED  BY <2>1, <3>1, <3>2, RequestKeeps
  <2>6. ASSUME NEW k \in Code, ExchangeRefused(k) \/ \E s \in Session : Exchange(k, s)
        PROVE  AccessInv'
    BY <2>2, <2>6 DEF ExchangeRefused, Exchange
  <2>7. Tick => AccessInv'
    BY <2>2 DEF Tick
  <2>8. ASSUME NEW c \in Command, Manage(c) PROVE AccessInv'
    <3>1. CopyInv' /\ (file.mtime # 0 => file'.mtime # 0)
      BY <2>1, <2>8, CommandKeepsCopy DEF Manage, AccessInv
    <3>2. UNCHANGED <<exposed, stage, secret, answer>>
      BY <2>8 DEF Manage, request, desk
    <3>3. QED  BY <2>1, <3>1, <3>2 DEF AccessInv, RequestDomains, RequestInv
  <2>9. UNCHANGED vars => AccessInv'
    BY <2>2 DEF vars, desk
  <2>10. QED
    BY <2>1, <2>3, <2>4, <2>5, <2>6, <2>7, <2>8, <2>9, AskFileKeeps, ReadFileKeeps, RestartKeeps DEF Next
<1>3. QED  BY <1>1, <1>2, PTL DEF Spec

----------------------------------------------------------------------------
\* However commands write the file and whatever the server has in memory, it
\* accepts a token exactly if the file says so when the answer is made.
THEOREM AnswersFollowFileCorrect == Spec => AnswersFollowFile
<1>1. ASSUME AccessInv, [Next]_vars, NEW r \in Request,
             Answered(r), secret[r] \in Token, answer'[r] # Anonymous, file.whole \/ file.mtime = 0
      PROVE  answer'[r] # "denied" <=> secret[r] \in file.tokens
  <2>1. CopyInv /\ RequestDomains /\ RequestInv(r) /\ secret[r] \notin Session /\ secret[r] # "none"
    BY <1>1 DEF AccessInv
  <2>2. NameOf[secret[r]] # "denied"
    BY <1>1
  <2>3. ~NoSecret(r) /\ ~AskSessions(r)
    BY <2>1 DEF NoSecret, AskSessions
  <2>4. ASSUME Asked(r), mem'[Server] = file.tokens
        PROVE  answer'[r] # "denied" <=> secret[r] \in file.tokens
    BY <1>1, <2>1, <2>2, <2>4, AskedAnswers
  <2>5. CASE AskFile(r) /\ ~Tokens!MustRead(Server) /\ Asked(r)
    BY <1>1, <2>1, <2>4, <2>5, LookTellsFile DEF AskFile
  <2>6. CASE ReadFile(r)
    BY <1>1, <2>1, <2>4, <2>6, ReadTellsFile DEF ReadFile, RequestInv
  <2>7. QED  BY <1>1, <2>1, <2>3, <2>5, <2>6, WhoAnswers
<1>2. AccessInv /\ [Next]_vars =>
        [\A r \in Request :
           Answered(r) /\ secret[r] \in Token /\ answer'[r] # Anonymous
             /\ (file.whole \/ file.mtime = 0)
           => (answer'[r] # "denied" <=> secret[r] \in file.tokens)]_vars
  BY <1>1
<1>3. QED  BY <1>2, AccessInvariant, PTL DEF Spec, AnswersFollowFile

\* A request that presents no session, and is answered as Anonymous, found no
\* tokens in the file, and came over no network.
LEMMA AnonymousByFile ==
  ASSUME AccessInv, [Next]_vars, NEW r \in Request,
         Answered(r), answer'[r] = Anonymous, ~AskSessions(r)
  PROVE  ~exposed /\ Loaded = {}
<1>1. CopyInv /\ RequestDomains /\ RequestInv(r)
  BY DEF AccessInv
<1>2. ~NoSecret(r)
  BY <1>1 DEF NoSecret, Answer, RequestDomains
<1>3. ASSUME Asked(r), stage[r] \in {"enabled", "reading enabled"} \/ secret[r] \in Token
      PROVE  ~exposed /\ mem'[Server] = {}
  BY <1>1, <1>3, AskedAnswers DEF RequestInv
<1>4. CASE AskFile(r) /\ ~Tokens!MustRead(Server) /\ Asked(r)
  BY <1>1, <1>3, <1>4, LookTellsFile DEF AskFile, Loaded
<1>5. CASE ReadFile(r)
  BY <1>1, <1>3, <1>5, ReadTellsFile DEF ReadFile, RequestInv, Loaded
<1>6. QED  BY <1>1, <1>2, <1>4, <1>5, WhoAnswers

\* Where Anonymous is in the memory of the server, whether in an answer, a code
\* or a session, the server is local and has seen a time without tokens.
Permitted == bare /\ ~exposed

Harmless(g) == g # NoGrant /\ g.user = Anonymous => Permitted

AnswersOK == \A r \in Request : answer[r] = Anonymous => Permitted

GrantsOK ==
  /\ DOMAIN codes = Code /\ DOMAIN live = Session
  /\ \A k \in Code : Harmless(codes[k])
  /\ \A s \in Session : Harmless(live[s])

AnonymousInv ==
  /\ {bare, exposed} \subseteq BOOLEAN
  /\ Loaded = {} => bare
  /\ AnswersOK /\ GrantsOK

\* Until the server is started again, what is permitted stays so.
LEMMA PermittedStays ==
  ASSUME AnonymousInv, [Next]_vars, ~Restart
  PROVE  /\ exposed' = exposed
         /\ bare' \in BOOLEAN /\ (bare => bare')
         /\ Loaded' = {} => bare'
<1>1. ASSUME UNCHANGED <<exposed, bare, file>>
      PROVE  exposed' = exposed /\ bare' \in BOOLEAN /\ (bare => bare') /\ (Loaded' = {} => bare')
  BY <1>1 DEF AnonymousInv, Loaded
<1>2. ASSUME NEW c \in Command, Manage(c)
      PROVE  exposed' = exposed /\ bare' \in BOOLEAN /\ (bare => bare') /\ (Loaded' = {} => bare')
  BY <1>2 DEF AnonymousInv, Manage
<1>3. ASSUME NEW r \in Request,
             \/ \E x \in Secret : Arrive(r, x)
             \/ AskFile(r) \/ ReadFile(r) \/ NoSecret(r) \/ AskSessions(r) \/ Serve(r)
             \/ \E k \in Code : LoginCode(r, k)
      PROVE  UNCHANGED <<exposed, bare, file>>
  BY <1>3 DEF Arrive, AskFile, ReadFile, NoSecret, AskSessions, Serve, LoginCode, Leave, desk, disk
<1>4. ASSUME \/ \E k \in Code : ExchangeRefused(k) \/ \E s \in Session : Exchange(k, s)
             \/ Tick \/ UNCHANGED vars
      PROVE  UNCHANGED <<exposed, bare, file>>
  BY <1>4 DEF ExchangeRefused, Exchange, Tick, vars, desk, disk
<1>5. QED  BY <1>1, <1>2, <1>3, <1>4 DEF Next

\* A request is answered, forgets its answer, or keeps it.
LEMMA AnswerChanges ==
  ASSUME RequestDomains, [Next]_vars, NEW r \in Request
  PROVE  answer'[r] \in {answer[r], "none"} \/ Answered(r)
<1>1. ASSUME NEW q \in Request, NEW x \in Secret, Arrive(q, x) PROVE answer' = answer
  BY <1>1 DEF Arrive, Goto
<1>2. ASSUME NEW q \in Request, Serve(q) \/ \E k \in Code : LoginCode(q, k)
      PROVE  answer'[r] \in {answer[r], "none"}
  BY <1>2 DEF Serve, LoginCode, Leave, RequestDomains
<1>3. ASSUME NEW q \in Request, AskFile(q) \/ ReadFile(q)
      PROVE  answer'[r] = answer[r] \/ Answered(r)
  BY <1>3 DEF AskFile, ReadFile, Asked, Enabled, Resolve, Answer, Goto, RequestDomains, Answered
<1>4. ASSUME NEW q \in Request, NoSecret(q) \/ AskSessions(q)
      PROVE  answer'[r] = answer[r] \/ Answered(r)
  BY <1>4 DEF NoSecret, AskSessions, Answer, RequestDomains, Answered
<1>5. ASSUME NEW k \in Code, ExchangeRefused(k) \/ \E s \in Session : Exchange(k, s)
      PROVE  answer' = answer
  BY <1>5 DEF ExchangeRefused, Exchange, request
<1>6. Tick \/ (\E c \in Command : Manage(c)) \/ UNCHANGED vars => answer' = answer
  BY DEF Tick, Manage, vars, request
<1>7. Restart => answer'[r] = "none"
  BY DEF Restart
<1>8. QED  BY <1>1, <1>2, <1>3, <1>4, <1>5, <1>6, <1>7 DEF Next

LEMMA AnswersStep ==
  ASSUME AccessInv, AnonymousInv, [Next]_vars
  PROVE  AnswersOK'
<1>1. RequestDomains /\ AnswersOK /\ GrantsOK /\ (Loaded = {} => bare)
  BY DEF AccessInv, AnonymousInv
<1>2. Restart => AnswersOK'
  BY DEF Restart, AnswersOK
<1>3. ASSUME ~Restart, NEW r \in Request, answer'[r] = Anonymous PROVE Permitted
  <2>1. CASE answer'[r] = answer[r]
    BY <1>1, <1>3, <2>1 DEF AnswersOK
  <2>2. CASE AskSessions(r) /\ Answered(r)
    BY <1>1, <1>3, <2>2 DEF AskSessions, Answer, RequestDomains, Valid, GrantsOK, Harmless
  <2>3. CASE ~AskSessions(r) /\ Answered(r)
    BY <1>1, <1>3, <2>3, AnonymousByFile DEF Permitted
  <2>4. QED  BY <1>1, <1>3, <2>1, <2>2, <2>3, AnswerChanges
<1>4. QED  BY <1>2, <1>3, PermittedStays DEF AnswersOK, Permitted

\* Sweeping leaves no grant that was not there.
LEMMA SweptGrants ==
  ASSUME NEW grants, NEW x \in DOMAIN grants
  PROVE  /\ DOMAIN Swept(grants) = DOMAIN grants
         /\ Swept(grants)[x] \in {grants[x], NoGrant}
BY DEF Swept

LEMMA GrantsStep ==
  ASSUME AnonymousInv, [Next]_vars
  PROVE  GrantsOK'
<1>1. GrantsOK /\ AnswersOK
  BY DEF AnonymousInv
<1>2. Restart => GrantsOK'
  BY DEF Restart, GrantsOK, Harmless
<1>3. SUFFICES ASSUME ~Restart PROVE GrantsOK'
  BY <1>2
<1>4. Permitted => Permitted'
  BY <1>3, PermittedStays DEF Permitted
<1>5. \A k \in Code : Harmless(codes[k]) /\ Harmless(Swept(codes)[k])
  BY <1>1, SweptGrants DEF GrantsOK, Harmless
<1>6. \A s \in Session : Harmless(live[s]) /\ Harmless(Swept(live)[s])
  BY <1>1, SweptGrants DEF GrantsOK, Harmless
<1>7. DOMAIN codes = Code /\ DOMAIN live = Session
  BY <1>1 DEF GrantsOK
<1>8. DOMAIN Swept(codes) = Code /\ DOMAIN Swept(live) = Session
  BY <1>7 DEF Swept
<1>9. UNCHANGED <<codes, live>> => GrantsOK'
  BY <1>4, <1>5, <1>6, <1>7 DEF GrantsOK, Harmless
<1>10. ASSUME NEW r \in Request, NEW k \in Code, LoginCode(r, k) PROVE GrantsOK'
  <2>1. answer[r] = Anonymous => Permitted
    BY <1>1 DEF AnswersOK
  <2>2. /\ codes' = [Swept(codes) EXCEPT ![k] = [user |-> answer[r], expires |-> now + CodeTTL]]
        /\ live' = Swept(live)
    BY <1>10 DEF LoginCode
  <2>3. QED  BY <1>4, <1>5, <1>6, <1>8, <2>1, <2>2 DEF GrantsOK, Harmless
<1>11. ASSUME NEW k \in Code, NEW s \in Session, Exchange(k, s) PROVE GrantsOK'
  <2>1. codes[k].user = Anonymous => Permitted
    BY <1>5, <1>11 DEF Exchange, Valid, Harmless
  <2>2. /\ codes' = [Swept(codes) EXCEPT ![k] = NoGrant]
        /\ live' = [Swept(live) EXCEPT ![s] = [user |-> codes[k].user, expires |-> now + SessionTTL]]
    BY <1>11 DEF Exchange
  <2>3. QED  BY <1>4, <1>5, <1>6, <1>8, <2>1, <2>2 DEF GrantsOK, Harmless
<1>12. ASSUME NEW k \in Code, ExchangeRefused(k) PROVE GrantsOK'
  BY <1>4, <1>5, <1>6, <1>8, <1>12 DEF ExchangeRefused, GrantsOK, Harmless
<1>13. ASSUME NEW r \in Request,
              \/ \E x \in Secret : Arrive(r, x)
              \/ AskFile(r) \/ ReadFile(r) \/ NoSecret(r) \/ AskSessions(r) \/ Serve(r)
       PROVE  UNCHANGED <<codes, live>>
  BY <1>13 DEF Arrive, AskFile, ReadFile, NoSecret, AskSessions, Serve, desk
<1>14. Tick \/ (\E c \in Command : Manage(c)) \/ UNCHANGED vars => UNCHANGED <<codes, live>>
  BY DEF Tick, Manage, vars, desk
<1>15. QED  BY <1>3, <1>9, <1>10, <1>11, <1>12, <1>13, <1>14 DEF Next

LEMMA AnonymousInvariant == Spec => []AnonymousInv
<1>1. Init => AnonymousInv
  BY DEF Init, AnonymousInv, AnswersOK, GrantsOK, Harmless
<1>2. AccessInv /\ AnonymousInv /\ [Next]_vars => AnonymousInv'
  <2>1. SUFFICES ASSUME AccessInv, AnonymousInv, [Next]_vars PROVE AnonymousInv'
    OBVIOUS
  <2>2. CASE Restart
    <3>1. {bare', exposed'} \subseteq BOOLEAN /\ (Loaded' = {} => bare')
      BY <2>2 DEF Restart, Loaded, disk
    <3>2. QED  BY <2>1, <3>1, AnswersStep, GrantsStep DEF AnonymousInv
  <2>3. CASE ~Restart
    <3>1. {bare', exposed'} \subseteq BOOLEAN /\ (Loaded' = {} => bare')
      BY <2>1, <2>3, PermittedStays DEF AnonymousInv
    <3>2. QED  BY <2>1, <3>1, AnswersStep, GrantsStep DEF AnonymousInv
  <2>4. QED  BY <2>2, <2>3
<1>3. QED  BY <1>1, <1>2, AccessInvariant, PTL DEF Spec

\* Nobody is taken for anonymous by a server on the network, nor, without a
\* session, by any server while its file has tokens; and whoever is because of
\* a session, is so on a server that was without tokens since it was started.
THEOREM AnonymousOnlyWithoutTokensCorrect == Spec => AnonymousOnlyWithoutTokens
<1>1. ASSUME AccessInv, AnonymousInv, [Next]_vars, NEW r \in Request,
             Answered(r), answer'[r] = Anonymous
      PROVE  ~exposed /\ (Loaded = {} \/ (bare /\ secret[r] \in Session))
  <2>1. CASE ~AskSessions(r)
    BY <1>1, <2>1, AnonymousByFile
  <2>2. CASE AskSessions(r)
    <3>1. secret[r] \in Session /\ Valid(live[secret[r]]) /\ live[secret[r]].user = Anonymous
      BY <1>1, <2>2 DEF AskSessions, Answer, AccessInv, RequestDomains
    <3>2. Permitted
      BY <1>1, <3>1 DEF AnonymousInv, GrantsOK, Harmless, Valid
    <3>3. QED  BY <3>1, <3>2 DEF Permitted
  <2>3. QED  BY <2>1, <2>2
<1>2. AccessInv /\ AnonymousInv /\ [Next]_vars =>
        [\A r \in Request :
           Answered(r) /\ answer'[r] = Anonymous
           => /\ ~exposed
              /\ Loaded = {} \/ (bare /\ secret[r] \in Session)]_vars
  BY <1>1
<1>3. QED  BY <1>2, AccessInvariant, AnonymousInvariant, PTL DEF Spec, AnonymousOnlyWithoutTokens

----------------------------------------------------------------------------
\* A code that is still in memory has not opened a session.
CodesInv ==
  /\ DOMAIN codes = Code /\ DOMAIN opened = Code
  /\ \A k \in Code : codes[k] # NoGrant => opened[k] = {}
  /\ OneSessionPerCode

LEMMA SweptCodes ==
  ASSUME NEW k \in DOMAIN codes
  PROVE  DOMAIN Swept(codes) = DOMAIN codes /\ (Swept(codes)[k] # NoGrant => codes[k] # NoGrant)
BY DEF Swept, Valid

\* A code opens one session at most, in any race of exchanges, expiry and
\* restarts.
THEOREM OneSessionPerCodeCorrect == Spec => []OneSessionPerCode
<1>1. Init => CodesInv
  BY DEF Init, CodesInv, OneSessionPerCode
<1>2. CodesInv /\ [Next]_vars => CodesInv'
  <2>1. SUFFICES ASSUME CodesInv, [Next]_vars PROVE CodesInv'
    OBVIOUS
  <2>2. ASSUME UNCHANGED <<codes, opened>> PROVE CodesInv'
    BY <2>1, <2>2 DEF CodesInv, OneSessionPerCode
  <2>3. ASSUME NEW r \in Request, NEW k \in Code, LoginCode(r, k) PROVE CodesInv'
    <3>1. opened' = opened /\ opened[k] = {} /\ DOMAIN codes' = Code
      BY <2>1, <2>3, SweptCodes DEF LoginCode, CodesInv
    <3>2. \A j \in Code : codes'[j] # NoGrant => opened[j] = {}
      BY <2>1, <2>3, <3>1, SweptCodes DEF LoginCode, CodesInv
    <3>3. QED  BY <2>1, <3>1, <3>2 DEF CodesInv, OneSessionPerCode
  <2>4. ASSUME NEW k \in Code, NEW s \in Session, Exchange(k, s) PROVE CodesInv'
    <3>1. opened[k] = {}
      BY <2>1, <2>4 DEF Exchange, Valid, CodesInv
    <3>2. DOMAIN codes' = Code /\ codes'[k] = NoGrant /\ \A j \in Code : codes'[j] # NoGrant => codes[j] # NoGrant
      BY <2>1, <2>4, SweptCodes DEF Exchange, CodesInv
    <3>3. DOMAIN opened' = Code /\ opened'[k] = {s} /\ \A j \in Code \ {k} : opened'[j] = opened[j]
      BY <2>1, <2>4, <3>1 DEF Exchange, CodesInv
    <3>4. QED  BY <2>1, <3>2, <3>3 DEF CodesInv, OneSessionPerCode
  <2>5. ASSUME NEW k \in Code, ExchangeRefused(k) PROVE CodesInv'
    BY <2>1, <2>5, SweptCodes DEF ExchangeRefused, CodesInv, OneSessionPerCode
  <2>6. Restart => CodesInv'
    BY <2>1 DEF Restart, CodesInv, OneSessionPerCode
  <2>7. ASSUME NEW r \in Request,
               \/ \E x \in Secret : Arrive(r, x)
               \/ AskFile(r) \/ ReadFile(r) \/ NoSecret(r) \/ AskSessions(r) \/ Serve(r)
        PROVE  UNCHANGED <<codes, opened>>
    BY <2>7 DEF Arrive, AskFile, ReadFile, NoSecret, AskSessions, Serve, desk
  <2>8. ASSUME Tick \/ (\E c \in Command : Manage(c)) \/ UNCHANGED vars
        PROVE  UNCHANGED <<codes, opened>>
    BY <2>8 DEF Tick, Manage, vars, desk
  <2>9. QED  BY <2>1, <2>2, <2>3, <2>4, <2>5, <2>6, <2>7, <2>8 DEF Next
<1>3. CodesInv => OneSessionPerCode
  BY DEF CodesInv
<1>4. QED  BY <1>1, <1>2, <1>3, PTL DEF Spec

----------------------------------------------------------------------------
\* A command that is under way has something to do: without that the types of
\* the tokens given out and revoked are not inductive.
JobsGiven == \A c \in Command : pc[c] # "idle" => job[c] \in Tokens!Job

FilesOK == Tokens!TypeOK /\ JobsGiven

\* What a job is about.
LEMMA JobTypes ==
  ASSUME NEW j \in Tokens!Job
  PROVE  /\ j.op \in {"add", "revoke"}
         /\ j.op = "add" => j.token \in Token
         /\ j.op = "revoke" => j.known \subseteq Token
BY DEF Tokens!Job

\* What the user is told is about tokens.
LEMMA SucceedTypes ==
  ASSUME FilesOK, NEW c \in Command, pc[c] # "idle", Tokens!Succeed(c)
  PROVE  issued' \subseteq Token /\ revoked' \subseteq Token
<1>1. job[c] \in Tokens!Job /\ issued \subseteq Token /\ revoked \subseteq Token
  BY DEF FilesOK, JobsGiven, Tokens!TypeOK
<1>2. QED  BY <1>1, JobTypes DEF Tokens!Succeed

\* What is written has the type of a file.
LEMMA WrittenTypes ==
  ASSUME NEW c, NEW at, mem[c] \subseteq Token, writes \in Nat, NEW new \in Tokens!Written(c, at)
  PROVE  new \in Tokens!Content
<1> DEFINE Text(whole) == IF whole THEN mem[c] ELSE {}
<1>1. PICK whole \in BOOLEAN : new = [tokens |-> Text(whole), whole |-> whole, mtime |-> writes + 1]
  BY DEF Tokens!Written
<1>2. Text(whole) \subseteq Token
  OBVIOUS
<1> HIDE DEF Text
<1>3. QED  BY <1>1, <1>2 DEF Tokens!Content

\* A look at the file, or a reading of it, keeps the types of the copies.
LEMMA CopyTypes ==
  ASSUME Tokens!TypeOK, NEW f \in Tokens!File, Tokens!Stat(f) \/ Tokens!Read(f)
  PROVE  /\ mem' \in [Tokens!File -> SUBSET Token]
         /\ mtime' \in [Tokens!File -> Nat] /\ stat' \in [Tokens!File -> Nat]
<1>1. file.tokens \subseteq Token /\ file.mtime \in Nat
  BY DEF Tokens!TypeOK, Tokens!Content
<1>2. ASSUME Tokens!Stat(f)
      PROVE  /\ mem' \in [Tokens!File -> SUBSET Token]
             /\ mtime' \in [Tokens!File -> Nat] /\ stat' \in [Tokens!File -> Nat]
  BY <1>1, <1>2 DEF Tokens!TypeOK, Tokens!Stat
<1>3. ASSUME Tokens!Read(f)
      PROVE  /\ mem' \in [Tokens!File -> SUBSET Token]
             /\ mtime' \in [Tokens!File -> Nat] /\ stat' \in [Tokens!File -> Nat]
  BY <1>1, <1>3 DEF Tokens!TypeOK, Tokens!Read
<1>4. QED  BY <1>2, <1>3

\* A command keeps the types of the files and of all copies of them.
LEMMA CommandTypes ==
  ASSUME FilesOK, NEW c \in Command, Tokens!Step(c)
  PROVE  FilesOK'
<1>0. c \in Tokens!File /\ Tokens!NoFile \in Tokens!Content
  BY DEF Tokens!NoFile, Tokens!Content
<1> DEFINE OnDisk == file \in Tokens!Content /\ tmp \in Tokens!Content /\ writes \in Nat
           Copies == /\ mem \in [Tokens!File -> SUBSET Token]
                     /\ mtime \in [Tokens!File -> Nat] /\ stat \in [Tokens!File -> Nat]
           Inside == /\ pc \in [Command -> {"idle", "stat", "read", "edit", "open", "write", "rename"}]
                     /\ job \in [Command -> Tokens!Job \union {NoJob}]
                     /\ fd \in [Command -> {"none", "tmp", "file", "gone"}]
                     /\ JobsGiven
           Told   == issued \subseteq Token /\ revoked \subseteq Token
<1>1. FilesOK <=> OnDisk /\ Copies /\ Inside /\ Told
  BY DEF FilesOK, Tokens!TypeOK
<1>2. FilesOK' <=> OnDisk' /\ Copies' /\ Inside' /\ Told'
  BY DEF FilesOK, Tokens!TypeOK
<1>3. ASSUME NEW where \in {"stat", "read", "edit", "open", "write", "rename"},
             Tokens!Goto(c, where), job' = job, pc[c] # "idle",
             fd' \in [Command -> {"none", "tmp", "file", "gone"}]
      PROVE  Inside'
  BY <1>1, <1>3 DEF Tokens!Goto, JobsGiven
<1>4. ASSUME Tokens!Exit(c) PROVE Inside'
  BY <1>1, <1>4 DEF Tokens!Exit, Tokens!Goto, JobsGiven
<1>5. ASSUME NEW j \in Tokens!Job, Tokens!Start(c, j) PROVE FilesOK'
  <2>1. OnDisk' /\ Told'
    BY <1>1, <1>5 DEF Tokens!Start, Tokens!onDisk, Tokens!told
  <2>2. Copies'
    BY <1>0, <1>1, <1>5 DEF Tokens!Start
  <2>3. Inside'
    BY <1>1, <1>5 DEF Tokens!Start, Tokens!Goto, JobsGiven
  <2>4. QED  BY <1>2, <2>1, <2>2, <2>3
<1>6. Tokens!StartAdd(c) => FilesOK'
  <2>1. \A t \in Token : [op |-> "add", token |-> t] \in Tokens!Job
    BY DEF Tokens!Job
  <2>2. QED  BY <1>5, <2>1 DEF Tokens!StartAdd
<1>7. Tokens!StartRevoke(c) => FilesOK'
  <2>1. \A n \in Name : [op |-> "revoke", name |-> n, known |-> {t \in issued : NameOf[t] = n}] \in Tokens!Job
    BY <1>1 DEF Tokens!Job
  <2>2. QED  BY <1>5, <2>1 DEF Tokens!StartRevoke
<1>8. ASSUME Tokens!Look(c) \/ Tokens!Load(c) PROVE FilesOK'
  <2>1. OnDisk' /\ Told'
    BY <1>1, <1>8 DEF Tokens!Look, Tokens!Load, Tokens!onDisk, Tokens!told
  <2>2. Copies'
    BY <1>0, <1>8, CopyTypes DEF FilesOK, Tokens!Look, Tokens!Load
  <2>3. Inside'
    BY <1>1, <1>3, <1>8 DEF Tokens!Look, Tokens!Load
  <2>4. QED  BY <1>2, <2>1, <2>2, <2>3
<1>9. ASSUME Tokens!AddEntry(c) PROVE FilesOK'
  <2>1. OnDisk' /\ Told'
    BY <1>1, <1>9 DEF Tokens!AddEntry, Tokens!onDisk, Tokens!told
  <2>2. job[c].token \in Token
    BY <1>1, <1>9, JobTypes DEF Tokens!AddEntry, JobsGiven
  <2>3. Copies'
    BY <1>0, <1>1, <1>9, <2>2 DEF Tokens!AddEntry
  <2>4. Inside'
    BY <1>1, <1>3, <1>9 DEF Tokens!AddEntry
  <2>5. QED  BY <1>2, <2>1, <2>3, <2>4
<1>10. ASSUME Tokens!RemoveEntries(c) PROVE FilesOK'
  <2>1. OnDisk'
    BY <1>1, <1>10 DEF Tokens!RemoveEntries, Tokens!onDisk
  <2>2. Copies'
    BY <1>0, <1>1, <1>10 DEF Tokens!RemoveEntries, Tokens!Kept
  <2>3. CASE Tokens!Goto(c, "open") /\ UNCHANGED <<job, fd, Tokens!told>>
    <3>1. Inside' /\ Told'
      BY <1>1, <1>3, <1>10, <2>3 DEF Tokens!RemoveEntries, Tokens!told
    <3>2. QED  BY <1>2, <2>1, <2>2, <3>1
  <2>4. CASE Tokens!Succeed(c) /\ Tokens!Exit(c)
    <3>1. Told'
      BY <1>10, <2>4, SucceedTypes DEF Tokens!RemoveEntries
    <3>2. QED  BY <1>2, <1>4, <2>1, <2>2, <2>4, <3>1
  <2>5. QED  BY <1>10, <2>3, <2>4 DEF Tokens!RemoveEntries
<1>11. ASSUME Tokens!OpenTmp(c) PROVE FilesOK'
  <2>1. OnDisk'
    BY <1>1, <1>11 DEF Tokens!OpenTmp, Tokens!Content
  <2>2. Copies' /\ Told'
    BY <1>0, <1>1, <1>11 DEF Tokens!OpenTmp, Tokens!told
  <2>3. Inside'
    BY <1>1, <1>3, <1>11 DEF Tokens!OpenTmp
  <2>4. QED  BY <1>2, <2>1, <2>2, <2>3
<1>12. ASSUME Tokens!WriteTmp(c) PROVE FilesOK'
  <2>1. mem[c] \subseteq Token /\ writes \in Nat
    BY <1>0, <1>1
  <2>2. tmp' \in Tokens!Content
    BY <1>1, <1>12, <2>1, WrittenTypes DEF Tokens!WriteTmp
  <2>3. file' \in Tokens!Content
    BY <1>1, <1>12, <2>1, WrittenTypes DEF Tokens!WriteTmp
  <2>4. writes' \in Nat /\ Copies' /\ Told'
    BY <1>1, <1>12 DEF Tokens!WriteTmp, Tokens!told
  <2>5. Inside'
    BY <1>1, <1>3, <1>12 DEF Tokens!WriteTmp
  <2>6. QED  BY <1>2, <2>2, <2>3, <2>4, <2>5
<1>13. ASSUME Tokens!Rename(c) PROVE FilesOK'
  <2>1. OnDisk'
    BY <1>0, <1>1, <1>13 DEF Tokens!Rename
  <2>2. Copies'
    BY <1>0, <1>1, <1>13 DEF Tokens!Rename
  <2>3. Told'
    BY <1>13, SucceedTypes DEF Tokens!Rename
  <2>4. \A d \in Command : Tokens!Moved(d) \in {"none", "tmp", "file", "gone"}
    BY <1>1 DEF Tokens!Moved
  <2>5. Inside'
    BY <1>1, <1>13, <2>4 DEF Tokens!Rename, Tokens!Goto, JobsGiven
  <2>6. QED  BY <1>2, <2>1, <2>2, <2>3, <2>5
<1>14. ASSUME Tokens!Abort(c) PROVE FilesOK'
  <2>1. OnDisk' /\ Copies' /\ Told'
    BY <1>1, <1>14 DEF Tokens!Abort, Tokens!onDisk, Tokens!told
  <2>2. QED  BY <1>2, <1>4, <1>14, <2>1 DEF Tokens!Abort
<1>15. QED
  BY <1>6, <1>7, <1>8, <1>9, <1>10, <1>11, <1>12, <1>13, <1>14 DEF Tokens!Step

----------------------------------------------------------------------------
\* The requests and the desk of the server have their types.
ServingOK ==
  /\ holder \in Request \union {NoOne}
  /\ stage \in [Request -> {"idle", "enabled", "resolve", "reading enabled",
                            "reading resolve", "answered"}]
  /\ secret \in [Request -> Secret]
  /\ answer \in [Request -> Caller \union {"none", "denied"}]

DeskOK ==
  /\ exposed \in BOOLEAN
  /\ now \in Nat
  /\ codes \in [Code -> Grant \union {NoGrant}]
  /\ live \in [Session -> Grant \union {NoGrant}]
  /\ opened \in [Code -> SUBSET Session]
  /\ bare \in BOOLEAN

AllOK == FilesOK /\ ServingOK /\ DeskOK

LEMMA AnswerTypes ==
  ASSUME ServingOK, NEW r \in Request, NEW who \in Caller \union {"none", "denied"}, Answer(r, who)
  PROVE  stage' \in [Request -> {"idle", "enabled", "resolve", "reading enabled",
                                 "reading resolve", "answered"}]
         /\ answer' \in [Request -> Caller \union {"none", "denied"}]
BY DEF ServingOK, Answer

LEMMA GotoTypes ==
  ASSUME ServingOK, NEW r \in Request,
         NEW where \in {"enabled", "resolve", "reading enabled", "reading resolve"}, Goto(r, where)
  PROVE  stage' \in [Request -> {"idle", "enabled", "resolve", "reading enabled",
                                 "reading resolve", "answered"}]
         /\ answer' \in [Request -> Caller \union {"none", "denied"}]
BY DEF ServingOK, Goto

\* Whoever is found, it is a caller.
LEMMA AskedTypes ==
  ASSUME FilesOK, ServingOK, NEW r \in Request, Asked(r), mem' \in [Tokens!File -> SUBSET Token]
  PROVE  stage' \in [Request -> {"idle", "enabled", "resolve", "reading enabled",
                                 "reading resolve", "answered"}]
         /\ answer' \in [Request -> Caller \union {"none", "denied"}]
<1>1. Anonymous \in Caller /\ \A t \in Token : NameOf[t] \in Caller
  BY DEF Caller
<1>2. CASE Enabled(r)
  BY <1>1, <1>2, AnswerTypes, GotoTypes DEF Enabled
<1>3. CASE Resolve(r)
  <2>1. mem'[Server] \subseteq Token
    OBVIOUS
  <2>2. QED  BY <1>1, <1>3, <2>1, AnswerTypes DEF Resolve
<1>4. QED  BY <1>2, <1>3 DEF Asked

\* Codes and sessions that are swept stay codes and sessions.
LEMMA SweptTypes ==
  ASSUME NEW S, NEW g \in [S -> Grant \union {NoGrant}]
  PROVE  Swept(g) \in [S -> Grant \union {NoGrant}]
BY DEF Swept

\* A request keeps the types.
LEMMA RequestTypes ==
  ASSUME AllOK, NEW r \in Request,
         \/ \E x \in Secret : Arrive(r, x)
         \/ AskFile(r) \/ ReadFile(r) \/ NoSecret(r) \/ AskSessions(r) \/ Serve(r)
         \/ \E k \in Code : LoginCode(r, k)
  PROVE  AllOK'
<1>1. FilesOK /\ ServingOK /\ DeskOK /\ Server \in Tokens!File
  BY DEF AllOK
<1>2. UNCHANGED desk => DeskOK'
  BY <1>1 DEF DeskOK, desk
<1>3. ASSUME UNCHANGED disk, mem' \in [Tokens!File -> SUBSET Token],
             mtime' \in [Tokens!File -> Nat], stat' \in [Tokens!File -> Nat]
      PROVE  FilesOK'
  BY <1>1, <1>3 DEF FilesOK, JobsGiven, Tokens!TypeOK, disk
<1>4. UNCHANGED <<disk, copy>> => FilesOK'
  BY <1>1, <1>3 DEF FilesOK, Tokens!TypeOK, copy
<1>5. ASSUME NEW x \in Secret, Arrive(r, x) PROVE AllOK'
  <2>1. Goto(r, IF exposed THEN "resolve" ELSE "enabled") /\ secret' = [secret EXCEPT ![r] = x]
        /\ UNCHANGED <<disk, copy, holder, desk>>
    BY <1>5 DEF Arrive
  <2>2. ServingOK'
    BY <1>1, <2>1, GotoTypes DEF ServingOK
  <2>3. QED  BY <1>2, <1>4, <2>1, <2>2 DEF AllOK
<1>6. ASSUME AskFile(r) PROVE AllOK'
  <2>1. FilesOK' /\ mem' \in [Tokens!File -> SUBSET Token]
    BY <1>1, <1>3, <1>6, CopyTypes DEF AskFile, FilesOK
  <2>2. /\ stage' \in [Request -> {"idle", "enabled", "resolve", "reading enabled",
                                   "reading resolve", "answered"}]
        /\ answer' \in [Request -> Caller \union {"none", "denied"}]
    <3>1. CASE Asked(r)
      BY <1>1, <2>1, <3>1, AskedTypes
    <3>2. CASE Goto(r, IF stage[r] = "enabled" THEN "reading enabled" ELSE "reading resolve")
      BY <1>1, <3>2, GotoTypes
    <3>3. QED  BY <1>6, <3>1, <3>2 DEF AskFile
  <2>3. holder' \in Request \union {NoOne} /\ secret' \in [Request -> Secret] /\ UNCHANGED desk
    BY <1>1, <1>6 DEF AskFile, ServingOK
  <2>4. QED  BY <1>2, <2>1, <2>2, <2>3 DEF AllOK, ServingOK
<1>7. ASSUME ReadFile(r) PROVE AllOK'
  <2>1. FilesOK' /\ mem' \in [Tokens!File -> SUBSET Token]
    BY <1>1, <1>3, <1>7, CopyTypes DEF ReadFile, FilesOK
  <2>2. /\ stage' \in [Request -> {"idle", "enabled", "resolve", "reading enabled",
                                   "reading resolve", "answered"}]
        /\ answer' \in [Request -> Caller \union {"none", "denied"}]
    BY <1>1, <1>7, <2>1, AskedTypes DEF ReadFile
  <2>3. holder' \in Request \union {NoOne} /\ secret' \in [Request -> Secret] /\ UNCHANGED desk
    BY <1>1, <1>7 DEF ReadFile, ServingOK
  <2>4. QED  BY <1>2, <2>1, <2>2, <2>3 DEF AllOK, ServingOK
<1>8. ASSUME NoSecret(r) \/ AskSessions(r) PROVE AllOK'
  <2>1. \E who \in Caller \union {"none", "denied"} : Answer(r, who)
    <3>1. \A s \in Session : Valid(live[s]) => live[s].user \in Caller
      BY <1>1 DEF DeskOK, Valid, Grant
    <3>2. QED  BY <1>8, <3>1 DEF NoSecret, AskSessions
  <2>2. UNCHANGED <<disk, copy, holder, secret, desk>>
    BY <1>8 DEF NoSecret, AskSessions
  <2>3. ServingOK'
    BY <1>1, <2>1, <2>2, AnswerTypes DEF ServingOK
  <2>4. QED  BY <1>2, <1>4, <2>2, <2>3 DEF AllOK
<1>9. ASSUME Leave(r) PROVE FilesOK' /\ ServingOK'
  BY <1>1, <1>4, <1>9 DEF Leave, ServingOK, Secret
<1>10. Serve(r) => AllOK'
  BY <1>2, <1>9 DEF Serve, AllOK
<1>11. ASSUME NEW k \in Code, LoginCode(r, k) PROVE AllOK'
  <2>1. [user |-> answer[r], expires |-> now + CodeTTL] \in Grant
    BY <1>1, <1>11 DEF LoginCode, IsAdmin, DeskOK, Grant, Caller
  <2>2. codes' \in [Code -> Grant \union {NoGrant}] /\ live' \in [Session -> Grant \union {NoGrant}]
    BY <1>1, <1>11, <2>1, SweptTypes DEF LoginCode, DeskOK
  <2>3. DeskOK'
    BY <1>1, <1>11, <2>2 DEF LoginCode, DeskOK
  <2>4. QED  BY <1>9, <1>11, <2>3 DEF LoginCode, AllOK
<1>12. QED  BY <1>5, <1>6, <1>7, <1>8, <1>10, <1>11

\* So does everything else.
LEMMA OtherTypes ==
  ASSUME AllOK,
         \/ \E k \in Code : ExchangeRefused(k) \/ \E s \in Session : Exchange(k, s)
         \/ Tick \/ Restart \/ (\E c \in Command : Manage(c)) \/ UNCHANGED vars
  PROVE  AllOK'
<1>1. FilesOK /\ ServingOK /\ DeskOK
  BY DEF AllOK
<1>2. UNCHANGED <<disk, copy>> => FilesOK'
  BY <1>1 DEF FilesOK, JobsGiven, Tokens!TypeOK, disk, copy
<1>3. UNCHANGED request => ServingOK'
  BY <1>1 DEF ServingOK, request
<1>4. UNCHANGED desk => DeskOK'
  BY <1>1 DEF DeskOK, desk
<1>5. ASSUME NEW k \in Code, ExchangeRefused(k) PROVE AllOK'
  <2>1. DeskOK'
    BY <1>1, <1>5, SweptTypes DEF ExchangeRefused, DeskOK
  <2>2. QED  BY <1>2, <1>3, <1>5, <2>1 DEF ExchangeRefused, AllOK
<1>6. ASSUME NEW k \in Code, NEW s \in Session, Exchange(k, s) PROVE AllOK'
  <2>1. [user |-> codes[k].user, expires |-> now + SessionTTL] \in Grant
    BY <1>1, <1>6 DEF Exchange, Valid, DeskOK, Grant
  <2>2. codes' \in [Code -> Grant \union {NoGrant}] /\ live' \in [Session -> Grant \union {NoGrant}]
    BY <1>1, <1>6, <2>1, SweptTypes DEF Exchange, DeskOK
  <2>3. DeskOK'
    BY <1>1, <1>6, <2>2 DEF Exchange, DeskOK
  <2>4. QED  BY <1>2, <1>3, <1>6, <2>3 DEF Exchange, AllOK
<1>7. Tick => AllOK'
  <2>1. Tick => DeskOK'
    BY <1>1 DEF Tick, DeskOK
  <2>2. QED  BY <1>2, <1>3, <2>1 DEF Tick, AllOK
<1>8. ASSUME Restart PROVE AllOK'
  <2>1. Loaded \subseteq Token /\ file.mtime \in Nat
    BY <1>1 DEF FilesOK, Tokens!TypeOK, Tokens!Content, Loaded
  <2>2. FilesOK'
    BY <1>1, <1>8, <2>1 DEF Restart, FilesOK, JobsGiven, Tokens!TypeOK, disk
  <2>3. ServingOK' /\ DeskOK'
    BY <1>1, <1>8 DEF Restart, ServingOK, DeskOK, Secret
  <2>4. QED  BY <2>2, <2>3 DEF AllOK
<1>9. ASSUME NEW c \in Command, Manage(c) PROVE AllOK'
  <2>1. FilesOK' /\ ServingOK'
    BY <1>1, <1>3, <1>9, CommandTypes DEF Manage
  <2>2. DeskOK'
    BY <1>1, <1>9 DEF Manage, DeskOK
  <2>3. QED  BY <2>1, <2>2 DEF AllOK
<1>10. UNCHANGED vars => AllOK'
  BY <1>2, <1>3, <1>4 DEF vars, AllOK
<1>11. QED  BY <1>5, <1>6, <1>7, <1>8, <1>9, <1>10

\* Every variable of the server, of the token file and of its commands has its
\* type.
THEOREM AccessTypeCorrect == Spec => []TypeOK
<1>1. Init => AllOK
  <2>1. SUFFICES ASSUME Init PROVE AllOK
    OBVIOUS
  <2>2. Tokens!Init
    BY <2>1 DEF Init
  <2>3. file \in Tokens!Content /\ tmp \in Tokens!Content
    BY <2>2 DEF Tokens!Init, Tokens!Content, Tokens!NoFile
  <2>4. file.mtime \in Nat
    BY <2>3 DEF Tokens!Content
  <2>5. FilesOK
    BY <2>2, <2>3, <2>4 DEF Tokens!Init, FilesOK, Tokens!TypeOK, JobsGiven
  <2>6. ServingOK /\ DeskOK
    BY <2>1 DEF Init, ServingOK, DeskOK, Secret
  <2>7. QED  BY <2>5, <2>6 DEF AllOK
<1>2. AllOK /\ [Next]_vars => AllOK'
  BY RequestTypes, OtherTypes DEF Next
<1>3. AllOK => TypeOK
  BY DEF AllOK, FilesOK, ServingOK, DeskOK, TypeOK
<1>4. QED  BY <1>1, <1>2, <1>3, PTL DEF Spec
=============================================================================
