----------------------------- MODULE TokenFile -----------------------------
(***************************************************************************)
(* The token file (internal/auth/auth.go, type File) and the commands that *)
(* change it: "openmind token add", "invite" and "token revoke"            *)
(* (cmd/openmind/deploy.go).  Every command has a File of its own, and so  *)
(* does the server (module Access): its copy of the entries and the        *)
(* modification time they had.                                             *)
(*                                                                         *)
(* A command loads the file, changes its copy, writes it to a temporary    *)
(* file that all commands share, and renames that over the token file.     *)
(* Nothing but the rename is atomic between processes, and a command may   *)
(* be killed at any point.                                                 *)
(***************************************************************************)
EXTENDS Naturals

CONSTANTS
  Token,      \* a token stands for its entry too; entries are never edited
  Name,
  NameOf,     \* whose token it is
  Command,    \* the places commands run in, one after the other
  Server,
  NoJob,
  MaxWrites   \* bound: the file system calls that write

File == Command \union {Server}

ASSUME TokenAssumption ==
  /\ NameOf \in [Token -> Name]
  /\ Server \notin Command /\ MaxWrites \in Nat

Job == [op : {"add"}, token : Token] \union
       [op : {"revoke"}, name : Name, known : SUBSET Token]

VARIABLES
  file,      \* the token file: its entries, none unless it is whole and thus
             \* valid JSON, and its modification time, 0 if there is no file
  tmp,       \* the temporary file
  mem,       \* the entries of a File
  mtime,     \* the modification time it has them from
  stat,      \* what its last os.Stat has returned
  pc,        \* how far a command is
  job,       \* what it does
  fd,        \* which file it has open for writing
  writes,    \* number of writes so far, the source of modification times
  issued,    \* tokens that were given out: their command said so
  revoked    \* tokens a command said were revoked

onDisk == <<file, tmp, writes>>
inside == <<pc, job, fd>>
told   == <<issued, revoked>>
vars   == <<file, tmp, mem, mtime, stat, pc, job, fd, writes, issued, revoked>>

NoFile == [tokens |-> {}, whole |-> FALSE, mtime |-> 0]

\* Some tokens were given out before; no file if there are none.  A server
\* that has just started has read the file.
Init ==
  /\ issued \in SUBSET Token /\ revoked = {}
  /\ file = IF issued = {} THEN NoFile ELSE [tokens |-> issued, whole |-> TRUE, mtime |-> 1]
  /\ tmp = NoFile /\ writes = file.mtime
  /\ mem = [f \in File |-> IF f = Server THEN issued ELSE {}]
  /\ mtime = [f \in File |-> IF f = Server THEN file.mtime ELSE 0]
  /\ stat = mtime
  /\ pc = [c \in Command |-> "idle"]
  /\ job = [c \in Command |-> NoJob]
  /\ fd = [c \in Command |-> "none"]

----------------------------------------------------------------------------
\* Slip: a file that was read is not read again.
MustReadOnce(f) == file.mtime # 0 /\ mtime[f] = 0

\* File.load, in the two calls it makes.  The file may be replaced between
\* them.  os.Stat: no file, no entries; the same file as before, no reading.
MustRead(f) == file.mtime \notin {0, mtime[f]}

Stat(f) ==
  /\ stat' = [stat EXCEPT ![f] = file.mtime]
  /\ \/ /\ file.mtime = 0
        /\ mem' = [mem EXCEPT ![f] = {}]
        /\ mtime' = [mtime EXCEPT ![f] = 0]
     \/ file.mtime # 0 /\ UNCHANGED <<mem, mtime>>

\* os.ReadFile: what is not valid is ignored.
Read(f) ==
  \/ /\ file.whole
     /\ mem' = [mem EXCEPT ![f] = file.tokens]
     /\ mtime' = [mtime EXCEPT ![f] = stat[f]]
     /\ UNCHANGED stat
  \/ ~file.whole /\ UNCHANGED <<mem, mtime, stat>>

----------------------------------------------------------------------------
Goto(c, where) == pc' = [pc EXCEPT ![c] = where]

\* The command is over, well or badly; what it has open is closed.
Exit(c) ==
  /\ Goto(c, "idle")
  /\ job' = [job EXCEPT ![c] = NoJob]
  /\ fd' = [fd EXCEPT ![c] = "none"]

\* A secret is never given to two tokens.
Fresh(t) ==
  /\ t \notin issued \union revoked
  /\ \A c \in Command : job[c] # NoJob /\ job[c].op = "add" => job[c].token # t
  /\ \A f \in File : t \notin mem[f]
  /\ t \notin file.tokens \union tmp.tokens

\* A command starts with an empty File.
Start(c, j) ==
  /\ pc[c] = "idle"
  /\ Goto(c, "stat")
  /\ job' = [job EXCEPT ![c] = j]
  /\ mem' = [mem EXCEPT ![c] = {}]
  /\ mtime' = [mtime EXCEPT ![c] = 0]
  /\ UNCHANGED <<onDisk, stat, fd, told>>

StartAdd(c) == \E t \in Token : Fresh(t) /\ Start(c, [op |-> "add", token |-> t])

StartRevoke(c) ==
  \E n \in Name :
    Start(c, [op |-> "revoke", name |-> n, known |-> {t \in issued : NameOf[t] = n}])

Look(c) ==
  /\ pc[c] = "stat"
  /\ Stat(c)
  /\ Goto(c, IF MustRead(c) THEN "read" ELSE "edit")
  /\ UNCHANGED <<onDisk, job, fd, told>>

Load(c) ==
  /\ pc[c] = "read"
  /\ Read(c)
  /\ Goto(c, "edit")
  /\ UNCHANGED <<onDisk, job, fd, told>>

----------------------------------------------------------------------------
\* What the command has told its user when it ends well.
Succeed(c) ==
  \/ /\ job[c].op = "add"
     /\ issued' = issued \union {job[c].token}
     /\ UNCHANGED revoked
  \/ /\ job[c].op = "revoke"
     /\ issued' = issued \ job[c].known
     /\ revoked' = revoked \union job[c].known

AddEntry(c) ==
  /\ pc[c] = "edit" /\ job[c].op = "add"
  /\ mem' = [mem EXCEPT ![c] = @ \union {job[c].token}]
  /\ Goto(c, "open")
  /\ UNCHANGED <<onDisk, mtime, stat, job, fd, told>>

\* Slip: only one entry goes.
KeptAllButOne(c) ==
  LET gone == {t \in mem[c] : NameOf[t] = job[c].name} IN
  IF gone = {} THEN mem[c] ELSE mem[c] \ {CHOOSE t \in gone : TRUE}

\* Every entry of the name goes; if there is none nothing is written.
Kept(c) == {t \in mem[c] : NameOf[t] # job[c].name}

RemoveEntries(c) ==
  /\ pc[c] = "edit" /\ job[c].op = "revoke"
  /\ mem' = [mem EXCEPT ![c] = Kept(c)]
  /\ \/ Kept(c) # mem[c] /\ Goto(c, "open") /\ UNCHANGED <<job, fd, told>>
     \/ Kept(c) = mem[c] /\ Succeed(c) /\ Exit(c)
  /\ UNCHANGED <<onDisk, mtime, stat>>

\* Slip: the token file itself is truncated.
OpenInPlace(c) ==
  /\ pc[c] = "open" /\ writes < MaxWrites
  /\ writes' = writes + 1
  /\ file' = [tokens |-> {}, whole |-> FALSE, mtime |-> writes + 1]
  /\ stat' = [stat EXCEPT ![c] = writes + 1]
  /\ fd' = [fd EXCEPT ![c] = "file"]
  /\ Goto(c, "write")
  /\ UNCHANGED <<tmp, mem, mtime, job, told>>

\* save: os.WriteFile truncates the temporary file, or creates it, ...
OpenTmp(c) ==
  /\ pc[c] = "open" /\ writes < MaxWrites
  /\ writes' = writes + 1
  /\ tmp' = [tokens |-> {}, whole |-> FALSE, mtime |-> writes + 1]
  /\ stat' = [stat EXCEPT ![c] = writes + 1]
  /\ fd' = [fd EXCEPT ![c] = "tmp"]
  /\ Goto(c, "write")
  /\ UNCHANGED <<file, mem, mtime, job, told>>

\* ... and writes to what it has opened, wherever that was moved since.  If
\* another command has written there too the two texts may be mixed up.
Written(c, at) ==
  {[tokens |-> IF whole THEN mem[c] ELSE {}, whole |-> whole, mtime |-> writes + 1] :
     whole \in IF at.mtime = stat[c] THEN {TRUE} ELSE BOOLEAN}

WriteTmp(c) ==
  /\ pc[c] = "write" /\ writes < MaxWrites
  /\ writes' = writes + 1
  /\ tmp' \in IF fd[c] = "tmp" THEN Written(c, tmp) ELSE {tmp}
  /\ file' \in IF fd[c] = "file" THEN Written(c, file) ELSE {file}
  /\ fd' = [fd EXCEPT ![c] = "none"]
  /\ Goto(c, "rename")
  /\ UNCHANGED <<mem, mtime, stat, job, told>>

\* os.Rename: the temporary file becomes the token file, also for those who
\* have it open; the old one stays only with those who write to it.
Moved(d) == CASE fd[d] = "tmp" -> "file" [] fd[d] = "file" -> "gone" [] OTHER -> fd[d]

Rename(c) ==
  /\ pc[c] = "rename"
  /\ tmp # NoFile
  /\ file' = tmp /\ tmp' = NoFile
  /\ mtime' = [mtime EXCEPT ![c] = 0]
  /\ fd' = [d \in Command |-> Moved(d)]
  /\ Succeed(c)
  /\ Goto(c, "idle") /\ job' = [job EXCEPT ![c] = NoJob]
  /\ UNCHANGED <<writes, mem, stat>>

\* The command is killed, or fails: it cannot write, or another command has
\* renamed the temporary file.
Abort(c) ==
  /\ pc[c] # "idle"
  /\ Exit(c)
  /\ UNCHANGED <<onDisk, mem, mtime, stat, told>>

Step(c) ==
  \/ StartAdd(c) \/ StartRevoke(c)
  \/ Look(c) \/ Load(c)
  \/ AddEntry(c) \/ RemoveEntries(c)
  \/ OpenTmp(c) \/ WriteTmp(c) \/ Rename(c) \/ Abort(c)

Next == \E c \in Command : Step(c)

Spec == Init /\ [][Next]_vars

----------------------------------------------------------------------------
Content == [tokens : SUBSET Token, whole : BOOLEAN, mtime : Nat]

\* Every variable has its type.
TypeOK ==
  /\ file \in Content /\ tmp \in Content /\ writes \in Nat
  /\ mem \in [File -> SUBSET Token]
  /\ mtime \in [File -> Nat] /\ stat \in [File -> Nat]
  /\ pc \in [Command -> {"idle", "stat", "read", "edit", "open", "write", "rename"}]
  /\ job \in [Command -> Job \union {NoJob}]
  /\ fd \in [Command -> {"none", "tmp", "file", "gone"}]
  /\ issued \subseteq Token /\ revoked \subseteq Token

\* A token that was given out is in the file until a command has replaced the
\* file by one without the entries of its name, whatever commands were killed
\* at what point.
IssuedTokensKept == issued \subseteq file.tokens

\* "Revocation is immediate": once the command has said so, the tokens it
\* revoked are not in the file, and do not come back.
RevokedTokensGone == revoked \cap file.tokens = {}
=============================================================================
