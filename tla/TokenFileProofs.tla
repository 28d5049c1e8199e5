--------------------------- MODULE TokenFileProofs ---------------------------
(***************************************************************************)
(* Theorems about TokenFile, for any tokens, names and number of writes:   *)
(* with one place that commands run in, one after the other and each       *)
(* killed wherever it may be, the file has what was given out, and not     *)
(* what was revoked.  With two commands at once neither holds.             *)
(*                                                                         *)
(* What makes it inductive is the story of the one command: it has read    *)
(* the file as it is, what it writes is the file with its edit, and the    *)
(* temporary file is whole when it is renamed.                             *)
(***************************************************************************)
EXTENDS TokenFile, TLAPS

OneCommand == \A c, d \in Command : c = d

Domains ==
  /\ DOMAIN mem = File /\ DOMAIN mtime = File /\ DOMAIN stat = File
  /\ DOMAIN pc = Command /\ DOMAIN job = Command /\ DOMAIN fd = Command

FileInv ==
  /\ writes \in Nat
  /\ file.mtime # 0 => file.whole
  /\ file.mtime = 0 => file.tokens = {}
  /\ issued \subseteq file.tokens
  /\ RevokedTokensGone

\* A token to add is not a revoked one; those to revoke are all of a name that
\* are given out.
JobInv(c) ==
  \/ job[c].op = "add" /\ job[c].token \notin revoked
  \/ job[c].op = "revoke" /\ job[c].known = {t \in issued : NameOf[t] = job[c].name}

\* What the file will have.
Edited(c) ==
  IF job[c].op = "add" THEN file.tokens \union {job[c].token}
  ELSE {t \in file.tokens : NameOf[t] # job[c].name}

CommandInv(c) ==
  /\ pc[c] # "idle" => JobInv(c)
  /\ pc[c] = "stat" => mtime[c] = 0
  /\ pc[c] = "read" => file.mtime # 0
  /\ pc[c] = "edit" => mem[c] = file.tokens
  /\ pc[c] \in {"open", "write", "rename"} => mem[c] = Edited(c)
  /\ pc[c] = "write" => fd[c] = "tmp" /\ tmp.mtime = stat[c]
  /\ pc[c] = "rename" => tmp.whole /\ tmp.mtime # 0 /\ tmp.tokens = mem[c]

TokenInv == Domains /\ FileInv /\ \A c \in Command : CommandInv(c)

----------------------------------------------------------------------------
\* What is written to a file that nobody else has written to is whole.
LEMMA WrittenWhole ==
  ASSUME NEW c, NEW at, at.mtime = stat[c], NEW new \in Written(c, at)
  PROVE  new = [tokens |-> mem[c], whole |-> TRUE, mtime |-> writes + 1]
<1> DEFINE Text(whole) == IF whole THEN mem[c] ELSE {}
<1>1. PICK whole \in {TRUE} : new = [tokens |-> Text(whole), whole |-> whole, mtime |-> writes + 1]
  BY DEF Written
<1>2. QED  BY <1>1

\* The file is as before, and so is what was told.
LEMMA SameFile ==
  ASSUME TokenInv, UNCHANGED <<file, issued, revoked>>, writes' \in Nat
  PROVE  FileInv'
BY DEF TokenInv, FileInv, RevokedTokensGone

LEMMA StartKeeps ==
  ASSUME TokenInv, NEW c \in Command, NEW j, Start(c, j),
         \/ j.op = "add" /\ j.token \notin revoked
         \/ j.op = "revoke" /\ j.known = {t \in issued : NameOf[t] = j.name}
  PROVE  Domains' /\ FileInv' /\ CommandInv(c)'
<1>1. c \in File /\ Domains /\ writes \in Nat
  BY DEF TokenInv, FileInv, File
<1>2. /\ pc'[c] = "stat" /\ job'[c] = j /\ mtime'[c] = 0
      /\ UNCHANGED <<file, tmp, writes, issued, revoked>> /\ Domains'
  BY <1>1 DEF Domains, Start, Goto, onDisk, told
<1>3. CommandInv(c)'
  BY <1>2 DEF CommandInv, JobInv
<1>4. QED  BY <1>1, <1>2, <1>3, SameFile

\* A step of the one command keeps its story.
LEMMA StepKeeps ==
  ASSUME TokenInv, NEW c \in Command, Step(c)
  PROVE  Domains' /\ FileInv' /\ CommandInv(c)'
<1>1. /\ c \in File /\ c \in DOMAIN mem /\ c \in DOMAIN mtime /\ c \in DOMAIN stat
      /\ c \in DOMAIN pc /\ c \in DOMAIN job /\ c \in DOMAIN fd
      /\ writes \in Nat /\ writes + 1 \in Nat /\ writes + 1 # 0
      /\ Domains /\ FileInv /\ CommandInv(c)
  BY DEF TokenInv, Domains, FileInv, File
<1>2. CASE StartAdd(c)
  <2>1. PICK t \in Token : Fresh(t) /\ Start(c, [op |-> "add", token |-> t])
    BY <1>2 DEF StartAdd
  <2>2. t \notin revoked
    BY <2>1 DEF Fresh
  <2>3. QED  BY <2>1, <2>2, StartKeeps
<1>3. CASE StartRevoke(c)
  <2>1. PICK n \in Name :
          Start(c, [op |-> "revoke", name |-> n, known |-> {t \in issued : NameOf[t] = n}])
    BY <1>3 DEF StartRevoke
  <2>2. QED  BY <2>1, StartKeeps
<1>4. CASE Look(c)
  <2>1. /\ UNCHANGED <<file, tmp, writes, job, fd, issued, revoked>> /\ Domains'
        /\ pc[c] = "stat" /\ mtime[c] = 0
    BY <1>1, <1>4 DEF Look, Stat, Goto, onDisk, told, Domains, CommandInv
  <2>2. CASE file.mtime = 0
    <3>1. pc'[c] = "edit" /\ mem'[c] = {}
      BY <1>1, <1>4, <2>2 DEF Look, Stat, Goto, MustRead
    <3>2. CommandInv(c)'
      BY <1>1, <2>1, <2>2, <3>1 DEF CommandInv, JobInv, FileInv
    <3>3. QED  BY <1>1, <2>1, <3>2, SameFile
  <2>3. CASE file.mtime # 0
    <3>1. pc'[c] = "read"
      BY <1>1, <1>4, <2>1, <2>3 DEF Look, Goto, MustRead
    <3>2. CommandInv(c)'
      BY <1>1, <2>1, <2>3, <3>1 DEF CommandInv, JobInv
    <3>3. QED  BY <1>1, <2>1, <3>2, SameFile
  <2>4. QED  BY <2>2, <2>3
<1>5. CASE Load(c)
  <2>1. /\ UNCHANGED <<file, tmp, writes, job, fd, issued, revoked>> /\ Domains'
        /\ pc[c] = "read" /\ pc'[c] = "edit"
    BY <1>1, <1>5 DEF Load, Read, Goto, onDisk, told, Domains
  <2>2. file.whole
    BY <1>1, <2>1 DEF CommandInv, FileInv
  <2>3. mem'[c] = file.tokens
    BY <1>1, <1>5, <2>2 DEF Load, Read
  <2>4. CommandInv(c)'
    BY <1>1, <2>1, <2>3 DEF CommandInv, JobInv
  <2>5. QED  BY <1>1, <2>1, <2>4, SameFile
<1>6. CASE AddEntry(c)
  <2>1. /\ UNCHANGED <<file, tmp, writes, job, fd, stat, issued, revoked>> /\ Domains'
        /\ pc[c] = "edit" /\ pc'[c] = "open" /\ job[c].op = "add"
        /\ mem'[c] = mem[c] \union {job[c].token}
    BY <1>1, <1>6 DEF AddEntry, Goto, onDisk, told, Domains
  <2>2. mem'[c] = Edited(c)'
    BY <1>1, <2>1 DEF CommandInv, Edited
  <2>3. CommandInv(c)'
    BY <1>1, <2>1, <2>2 DEF CommandInv, JobInv
  <2>4. QED  BY <1>1, <2>1, <2>3, SameFile
<1>7. CASE RemoveEntries(c)
  <2>1. /\ UNCHANGED <<file, tmp, writes, stat>> /\ Domains' /\ pc[c] = "edit"
        /\ job[c].op = "revoke" /\ mem'[c] = Kept(c)
    BY <1>1, <1>7 DEF RemoveEntries, Exit, Goto, onDisk, Domains
  <2>2. mem[c] = file.tokens /\ job[c].known = {t \in issued : NameOf[t] = job[c].name}
    BY <1>1, <2>1 DEF CommandInv, JobInv
  <2>3. CASE Kept(c) # mem[c] /\ Goto(c, "open") /\ UNCHANGED <<job, fd, told>>
    <3>1. pc'[c] = "open" /\ UNCHANGED <<job, fd, issued, revoked>>
      BY <1>1, <2>3 DEF Goto, told
    <3>2. mem'[c] = Edited(c)'
      BY <2>1, <2>2, <3>1 DEF Edited, Kept
    <3>3. CommandInv(c)'
      BY <1>1, <2>1, <3>1, <3>2 DEF CommandInv, JobInv
    <3>4. QED  BY <1>1, <2>1, <3>1, <3>3, SameFile
  <2>4. CASE Kept(c) = mem[c] /\ Succeed(c) /\ Exit(c)
    <3>1. pc'[c] = "idle"
      BY <1>1, <2>4 DEF Exit, Goto
    <3>2. issued' = issued \ job[c].known /\ revoked' = revoked \union job[c].known
      BY <2>1, <2>4 DEF Succeed
    <3>3. \A t \in job[c].known : t \notin file.tokens
      BY <2>2, <2>4 DEF Kept
    <3>4. FileInv'
      BY <1>1, <2>1, <3>2, <3>3 DEF FileInv, RevokedTokensGone
    <3>5. QED  BY <2>1, <3>1, <3>4 DEF CommandInv
  <2>5. QED  BY <1>7, <2>3, <2>4 DEF RemoveEntries
<1>8. CASE OpenTmp(c)
  <2>1. /\ UNCHANGED <<file, mem, mtime, job, issued, revoked>> /\ Domains'
        /\ writes' = writes + 1 /\ pc[c] = "open" /\ pc'[c] = "write"
        /\ fd'[c] = "tmp" /\ tmp'.mtime = writes + 1 /\ stat'[c] = writes + 1
    BY <1>1, <1>8 DEF OpenTmp, Goto, told, Domains
  <2>2. CommandInv(c)'
    BY <1>1, <2>1 DEF CommandInv, JobInv, Edited
  <2>3. QED  BY <1>1, <2>1, <2>2, SameFile
<1>9. CASE WriteTmp(c)
  <2>1. pc[c] = "write" /\ fd[c] = "tmp" /\ tmp.mtime = stat[c]
    BY <1>1, <1>9 DEF WriteTmp, CommandInv
  <2>2. /\ UNCHANGED <<file, mem, mtime, stat, job, issued, revoked>> /\ Domains'
        /\ writes' = writes + 1 /\ pc'[c] = "rename" /\ tmp' \in Written(c, tmp)
    BY <1>1, <1>9, <2>1 DEF WriteTmp, Goto, told, Domains
  <2>3. tmp' = [tokens |-> mem[c], whole |-> TRUE, mtime |-> writes + 1]
    BY <2>1, <2>2, WrittenWhole
  <2>4. CommandInv(c)'
    BY <1>1, <2>1, <2>2, <2>3 DEF CommandInv, JobInv, Edited
  <2>5. QED  BY <1>1, <2>2, <2>4, SameFile
<1>10. CASE Rename(c)
  <2>1. /\ file' = tmp /\ UNCHANGED writes /\ Domains' /\ pc[c] = "rename" /\ pc'[c] = "idle"
        /\ Succeed(c)
    BY <1>1, <1>10 DEF Rename, Goto, Domains
  <2>2. JobInv(c) /\ file'.whole /\ file'.mtime # 0 /\ file'.tokens = Edited(c)
    BY <1>1, <2>1 DEF CommandInv
  <2>3. issued' \subseteq file'.tokens /\ revoked' \cap file'.tokens = {}
    <3>1. CASE job[c].op = "add"
      BY <1>1, <2>1, <2>2, <3>1 DEF JobInv, Edited, Succeed, FileInv, RevokedTokensGone
    <3>2. CASE job[c].op = "revoke"
      BY <1>1, <2>1, <2>2, <3>2 DEF JobInv, Edited, Succeed, FileInv, RevokedTokensGone
    <3>3. QED  BY <2>2, <3>1, <3>2 DEF JobInv
  <2>4. FileInv'
    BY <1>1, <2>1, <2>2, <2>3 DEF FileInv, RevokedTokensGone
  <2>5. QED  BY <2>1, <2>4 DEF CommandInv
<1>11. CASE Abort(c)
  <2>1. UNCHANGED <<file, tmp, writes, issued, revoked>> /\ Domains' /\ pc'[c] = "idle"
    BY <1>1, <1>11 DEF Abort, Exit, Goto, onDisk, told, Domains
  <2>2. QED  BY <1>1, <2>1, SameFile DEF CommandInv
<1>12. QED
  BY <1>2, <1>3, <1>4, <1>5, <1>6, <1>7, <1>8, <1>9, <1>10, <1>11 DEF Step

LEMMA TokenInvariant ==
  ASSUME OneCommand
  PROVE  Spec => []TokenInv
<1>1. Init => TokenInv
  BY DEF Init, TokenInv, Domains, FileInv, CommandInv, NoFile, RevokedTokensGone
<1>2. TokenInv /\ [Next]_vars => TokenInv'
  <2>1. SUFFICES ASSUME TokenInv, [Next]_vars PROVE TokenInv'
    OBVIOUS
  <2>2. ASSUME NEW c \in Command, Step(c) PROVE TokenInv'
    <3>1. \A d \in Command : d = c
      BY DEF OneCommand
    <3>2. QED  BY <2>1, <2>2, <3>1, StepKeeps DEF TokenInv
  <2>3. CASE UNCHANGED vars
    BY ZenonT(40), <2>1, <2>3 DEF vars, TokenInv, Domains, FileInv, CommandInv, JobInv, Edited, RevokedTokensGone
  <2>4. QED  BY <2>1, <2>2, <2>3 DEF Next
<1>3. QED  BY <1>1, <1>2, PTL DEF Spec

----------------------------------------------------------------------------
\* Whatever token commands do one after the other, and wherever they are
\* killed, every token that was given out and not revoked is in the file.
THEOREM IssuedTokensKeptAlone ==
  ASSUME OneCommand
  PROVE  Spec => []IssuedTokensKept
<1>1. TokenInv => IssuedTokensKept
  BY DEF TokenInv, FileInv, IssuedTokensKept
<1>2. QED  BY <1>1, TokenInvariant, PTL

\* A token whose revocation was reported does not come back.
THEOREM RevokedTokensGoneAlone ==
  ASSUME OneCommand
  PROVE  Spec => []RevokedTokensGone
<1>1. TokenInv => RevokedTokensGone
  BY DEF TokenInv, FileInv
<1>2. QED  BY <1>1, TokenInvariant, PTL
=============================================================================
