----------------------------- MODULE Operations -----------------------------
(***************************************************************************)
(* A deployment of reoftpd over its life: the operator's commands          *)
(* (src/main.rs: add-camera, add-viewer, genkey), the server process with  *)
(* its start, SIGHUP reload and crash (src/main.rs serve, src/server.rs),  *)
(* the clips it seals (src/crypto.rs), and the viewer who downloads them   *)
(* and runs decrypt (src/main.rs).                                         *)
(*                                                                         *)
(* Every command is a process that may be killed, or end with an I/O       *)
(* error, between any two of its effects on disk; nothing locks the config *)
(* file, so commands, a starting server and a reload meet in it.  A login, *)
(* an upload and a download are one step here (FtpSessions, Archive and    *)
(* ScopedAccess have their parts), and the config file has an [encryption] *)
(* section throughout.                                                     *)
(***************************************************************************)
EXTENDS ConfigFile

CONSTANTS
    Job,            \* bound: the runs of a command
    MaxShort,       \* bound: the writes to the config file that come out short
    Request,        \* the accounts an operator may ask add-camera and add-viewer for
    Password,       \* the passwords people try
    Key,            \* age key pairs
    FirstKey,       \* the pair the deployment begins with
    IdentityPath,   \* the files genkey may write identities to
    FirstPath,      \* where the identity of FirstKey is
    Clip,           \* the clips of a behaviour
    Blocks,         \* blocks of a clip
    Batch,          \* the file lists decrypt may be given
    FirstLines      \* the tables of the config file at the start

(* A file of the viewer: where it is, which clip, and whether the name     *)
(* ends in .age.                                                           *)
LocalName == [dir : {"in", "out"}, clip : Clip, age : BOOLEAN]

FirstFile == [lines |-> FirstLines, end |-> EndsAt("newline"), recipients |-> {FirstKey}]

ASSUME OperationsAssumption ==
    /\ None \notin Key /\ FirstKey \in Key
    /\ MaxShort \in Nat
    /\ None \notin IdentityPath /\ FirstPath \in IdentityPath
    /\ Blocks \in Nat
    /\ Batch \subseteq Seq(LocalName)
    /\ Loads(FirstFile)

(* Names hold no quotation mark and no newline, which nothing checks: then *)
(* each is read as a name or refused.                                      *)
ASSUME NameAssumption ==
    /\ None # Unreadable
    /\ \A r \in Request : r.kind = "camera" /\ r.username # None => Unquote(r.username) # None

(* FirstLines is a sequence. *)
ASSUME FirstLinesAssumption ==
    Len(FirstLines) \in Nat /\ FirstLines = SubSeq(FirstLines, 1, Len(FirstLines))

VARIABLES
    file,       \* the config file on disk: its lines, its end and its recipients
    server,     \* the server process: accounts and recipients, or None
    hup,        \* a SIGHUP it has not handled yet
    archive,    \* per clip: None, or the public keys it is sealed for
    step,       \* per job: what it does next
    todo,       \* per job: the lines add-camera or add-viewer has still to write
    told,       \* the accounts that have been asked for, each with its hash
    short,      \* how many writes of theirs have come out short
    lost,       \* history: the jobs that had a line read as another or as none
    pair, path, \* per job: the key pair genkey makes and the file it is for
    identity,   \* per identity file: the secret key in it, or None
    printed,    \* the secret keys the operator has seen
    shown,      \* the public keys the operator has seen
    overwritten,    \* history: the keys whose identity file another genkey took
    secret, output, batch,  \* per job: decrypt's key, directory and files to go
    local       \* the viewer's files

configVars == <<file, todo, told, short, lost>>
serverVars == <<server, hup, archive>>
keyVars == <<pair, path, identity, printed, shown, overwritten>>
decryptVars == <<secret, output, batch, local>>
vars == <<configVars, serverVars, step, keyVars, decryptVars>>

Goto(j, label) == step' = [step EXCEPT ![j] = label]

Ciphertext(c, keys, n) == [clip |-> c, sealed |-> keys, blocks |-> n]
Plaintext(c, n) == [clip |-> c, sealed |-> None, blocks |-> n]
ClipFile == [clip : Clip, sealed : {None} \cup SUBSET Key, blocks : 0..Blocks]

Process(f) == [accounts |-> Build(ParseStr(f)), recipients |-> f.recipients]

Init ==
    /\ file = FirstFile
    /\ server = None
    /\ hup = FALSE
    /\ archive = [c \in Clip |-> None]
    /\ step = [j \in Job |-> "idle"]
    /\ todo = [j \in Job |-> <<>>]
    /\ told = {}
    /\ short = 0
    /\ lost = {}
    /\ pair = [j \in Job |-> None]
    /\ path = [j \in Job |-> None]
    /\ identity = [p \in IdentityPath |-> IF p = FirstPath THEN FirstKey ELSE None]
    /\ printed = {}
    /\ shown = {FirstKey}
    /\ overwritten = {}
    /\ secret = [j \in Job |-> None]
    /\ output = [j \in Job |-> None]
    /\ batch = [j \in Job |-> <<>>]
    /\ local = [n \in LocalName |-> None]
-----------------------------------------------------------------------------
(* add-camera and add-viewer: the password is read and hashed, the table   *)
(* rendered, and the file opened for appending; nothing is checked.        *)
AddAccount(j, r) ==
    /\ step[j] = "idle"
    /\ LET hash == HashPassword(r.password, j)
       IN  /\ todo' = [todo EXCEPT ![j] = Render(r, hash)]
           /\ told' = told \cup {[request |-> r, hash |-> hash]}
    /\ Goto(j, "append")
    /\ UNCHANGED <<file, short, lost, serverVars, keyVars, decryptVars>>

(* write_all: one write, or several where a write comes out short, at any  *)
(* byte.  Each appends to the file as it is by then.  Every line of a      *)
(* table begins with its newline, and a last newline ends the table.  So a *)
(* job is at the end of a line ("append"), behind the newline of the next  *)
(* ("line") or inside it ("rest"); it puts n more lines out and then comes *)
(* to such an end again.                                                   *)
Ends == {"text", "newline", "inside"}
Wrote(j, n, end, lines, own) ==
    /\ file' = [file EXCEPT !.lines = lines,
                            !.end = IF end = "inside" THEN Inside(j, own) ELSE EndsAt(end)]
    /\ todo' = [todo EXCEPT ![j] = SubSeq(@, n + 1, Len(@))]
    /\ Goto(j, CASE end = "text" -> "append"
                 [] end = "newline" -> IF n = Len(todo[j]) THEN "done" ELSE "line"
                 [] end = "inside" -> "rest")
    /\ IF end = "newline" /\ n = Len(todo[j]) THEN UNCHANGED short
       ELSE short < MaxShort /\ short' = short + 1
    /\ UNCHANGED <<told, serverVars, keyVars, decryptVars>>

(* What j writes next begins a line, or goes on with one where j left it. *)
InPlace(j) ==
    \/ step[j] = "append"
    \/ step[j] = "line" /\ file.end.at = "newline"
    \/ step[j] = "rest" /\ file.end = Inside(j, TRUE)

(* A newline behind a line that was cut leaves it as it is. *)
WriteAll(j, n, end) ==
    /\ step[j] \in {"append", "line", "rest"} /\ InPlace(j)
    /\ n = 0 => end = "inside" \/ (end = "newline" /\ step[j] = "append")
    /\ end = "inside" => n < Len(todo[j])
    /\ LET before == IF step[j] = "append" /\ file.end.at = "inside"
                     THEN Append(file.lines, Torn) ELSE file.lines
       IN  Wrote(j, n, end, before \o SubSeq(todo[j], 1, n), TRUE)
    /\ UNCHANGED lost

(* Otherwise another command has written in between, and the line of j     *)
(* joins what that one left.  Still inside the line, ...                   *)
SpliceInside(j) ==
    /\ step[j] \in {"line", "rest"} /\ ~InPlace(j)
    /\ Wrote(j, 0, "inside", file.lines, FALSE)
    /\ UNCHANGED lost

(* ... or through its end, as a line that TOML refuses; one with a key     *)
(* that no table has ("userna" and "require_tls = true"); "name = .." left *)
(* of a user name that was cut after "user"; or the line itself, where the *)
(* other was cut inside its like.  Any further reading takes a line from a *)
(* table that has to have it, so that the file does not load: it counts as *)
(* refused.                                                                *)
Readings(line) == {Torn, Unknown, Line("name", line.val), line}
Splice(j, n, end, s) ==
    /\ step[j] \in {"line", "rest"} /\ ~InPlace(j)
    /\ end = "inside" => n < Len(todo[j])
    /\ LET line == Head(todo[j])
       IN  \/ s = Torn
           \/ s = Unknown /\ file.end.at # "text" /\ line.key \notin {"camera", "viewer"}
           \/ /\ s = Line("name", line.val) /\ line.key = "username"
              /\ step[j] = "rest" /\ file.end.at = "newline"
           \/ /\ s = line /\ step[j] = "rest" /\ file.end.own
              /\ LET other == Head(todo[file.end.by])
                 IN  other.key = line.key /\ other.val = line.val
    /\ Wrote(j, n, end, Append(file.lines, s) \o SubSeq(todo[j], 2, n), TRUE)
    /\ lost' = IF s \in {Torn, Head(todo[j])} THEN lost ELSE lost \cup {j}

Writes(j) ==
    \/ \E n \in 0..Len(todo[j]), end \in Ends : WriteAll(j, n, end)
    \/ SpliceInside(j)
    \/ \E n \in 1..Len(todo[j]), end \in Ends :
          \E s \in Readings(Head(todo[j])) : Splice(j, n, end, s)

(* The operator's own edits: recipients are chosen among the public keys   *)
(* genkey has shown; and when no command is writing, what was appended to  *)
(* a file that no longer loads is cut off, back to the longest part that   *)
(* does.                                                                   *)
EditRecipients(keys) ==
    /\ file' = [file EXCEPT !.recipients = keys]
    /\ UNCHANGED <<todo, told, short, lost, serverVars, step, keyVars, decryptVars>>

RepairFile ==
    /\ \A j \in Job : step[j] \notin {"append", "line", "rest"}
    /\ ~Loads(file)
    /\ LET prefix(n) == [file EXCEPT !.lines = SubSeq(@, 1, n), !.end = EndsAt("newline")]
           good == {n \in Len(FirstLines)..Len(file.lines) : Loads(prefix(n))}
       IN  \E n \in good : (\A m \in good : m <= n) /\ file' = prefix(n)
    /\ UNCHANGED <<todo, told, short, lost, serverVars, step, keyVars, decryptVars>>
-----------------------------------------------------------------------------
(* serve: load, build the accounts, and hand the recipients to the storage *)
(* backend for the life of the process.  With a bad file it ends at once.  *)
Start ==
    /\ server = None
    /\ Loads(file)
    /\ server' = Process(file)
    /\ UNCHANGED <<configVars, hup, archive, step, keyVars, decryptVars>>

(* The process ends, by a crash or for a restart. *)
Stop ==
    /\ server # None
    /\ server' = None
    /\ hup' = FALSE
    /\ UNCHANGED <<configVars, archive, step, keyVars, decryptVars>>

Sighup ==
    /\ server # None
    /\ hup' = TRUE
    /\ UNCHANGED <<configVars, server, archive, step, keyVars, decryptVars>>

(* A slip: a file that does not load counts as one without accounts. *)
ReloadClears ==
    /\ hup
    /\ hup' = FALSE
    /\ server' = [server EXCEPT !.accounts = IF Loads(file) THEN Process(file).accounts ELSE <<>>]
    /\ UNCHANGED <<configVars, archive, step, keyVars, decryptVars>>

(* reload_config: the accounts change, the recipients do not; a file that  *)
(* does not load leaves both.                                              *)
Reload ==
    /\ hup
    /\ hup' = FALSE
    /\ server' = [server EXCEPT !.accounts = IF Loads(file) THEN Process(file).accounts ELSE @]
    /\ UNCHANGED <<configVars, archive, step, keyVars, decryptVars>>

(* Somebody in this role is let in by authenticate: the login is known,    *)
(* the password fits, and the channel is as secure as the account wants.   *)
LoggedIn(kind) ==
    /\ server # None
    /\ \E login \in DOMAIN server.accounts, password \in Password, secure \in BOOLEAN :
          /\ CheckCredentials(server.accounts, login, password)
          /\ server.accounts[login].tls => secure
          /\ server.accounts[login].kind = kind

(* An upload: encrypt_stream seals it for all recipients of the process.   *)
Store(c) ==
    /\ LoggedIn("uploader")
    /\ archive[c] = None
    /\ archive' = [archive EXCEPT ![c] = server.recipients]
    /\ UNCHANGED <<configVars, server, hup, step, keyVars, decryptVars>>

(* A viewer fetches a clip; a transfer that breaks off leaves a short      *)
(* file.                                                                   *)
Download(c, n) ==
    /\ LoggedIn("viewer")
    /\ archive[c] # None
    /\ LET name == [dir |-> "in", clip |-> c, age |-> TRUE]
       IN  /\ local[name] = None
           /\ local' = [local EXCEPT ![name] = Ciphertext(c, archive[c], n)]
    /\ UNCHANGED <<configVars, serverVars, step, keyVars, secret, output, batch>>
-----------------------------------------------------------------------------
(* genkey: a new pair, for an identity file or for the terminal. *)
Genkey(j, k, p) ==
    /\ step[j] = "idle"
    /\ k \notin shown /\ \A i \in Job : pair[i] # k
    /\ pair' = [pair EXCEPT ![j] = k]
    /\ path' = [path EXCEPT ![j] = p]
    /\ Goto(j, IF p = None THEN "print" ELSE "create")
    /\ UNCHANGED <<configVars, serverVars, identity, printed, shown, overwritten, decryptVars>>

(* The identity file gets new contents, whatever it had. *)
PutIdentity(j, k) ==
    /\ identity' = [identity EXCEPT ![path[j]] = k]
    /\ overwritten' = overwritten \cup ({identity[path[j]]} \ {None})
    /\ UNCHANGED <<configVars, serverVars, pair, path, printed, decryptVars>>

(* A slip: the public key is printed before the secret one is safe. *)
CreateIdentityShows(j) ==
    /\ step[j] = "create"
    /\ PutIdentity(j, None)
    /\ shown' = shown \cup {pair[j]}
    /\ Goto(j, "write")

(* It is created or truncated, without a look at what is in it, ... *)
CreateIdentity(j) ==
    /\ step[j] = "create"
    /\ PutIdentity(j, None)
    /\ Goto(j, "write")
    /\ UNCHANGED shown

(* ... and the secret key written over what another genkey has put there   *)
(* since.                                                                  *)
WriteIdentity(j) ==
    /\ step[j] = "write"
    /\ PutIdentity(j, pair[j])
    /\ Goto(j, "show")
    /\ UNCHANGED shown

(* Without a file the secret key is printed.                               *)
PrintSecret(j) ==
    /\ step[j] = "print"
    /\ printed' = printed \cup {pair[j]}
    /\ Goto(j, "show")
    /\ UNCHANGED <<configVars, serverVars, pair, path, identity, shown, overwritten, decryptVars>>

(* The public key comes last. *)
ShowRecipient(j) ==
    /\ step[j] = "show"
    /\ shown' = shown \cup {pair[j]}
    /\ Goto(j, "done")
    /\ UNCHANGED <<configVars, serverVars, pair, path, identity, printed, overwritten, decryptVars>>
-----------------------------------------------------------------------------
(* decrypt: the identity is read once, then the files are taken in turn.   *)
(* One such command at a time works on the viewer's files.                 *)
Decrypting(j) == step[j] \in {"next", "copy"}

(* The key is one of an identity file, or was printed and kept in another. *)
Kept(k) == k \in printed \/ \E p \in IdentityPath : identity[p] = k
Decrypt(j, k, o, files) ==
    /\ step[j] = "idle"
    /\ \A i \in Job : ~Decrypting(i)
    /\ Kept(k)
    /\ secret' = [secret EXCEPT ![j] = k]
    /\ output' = [output EXCEPT ![j] = o]
    /\ batch' = [batch EXCEPT ![j] = files]
    /\ Goto(j, "next")
    /\ UNCHANGED <<configVars, serverVars, keyVars, local>>

(* Beside the input or in the given directory, without the .age. *)
OutPath(j) ==
    LET input == Head(batch[j])
    IN  [dir |-> IF output[j] = None THEN input.dir ELSE output[j],
         clip |-> input.clip, age |-> FALSE]

(* The next file: one without .age or one that cannot be opened ends the   *)
(* command; otherwise its output is created, empty.                        *)
NextInput(j) ==
    /\ step[j] = "next"
    /\ IF batch[j] = <<>> THEN Goto(j, "done") /\ UNCHANGED local
       ELSE IF ~Head(batch[j]).age \/ local[Head(batch[j])] = None
       THEN Goto(j, "failed") /\ UNCHANGED local
       ELSE /\ local' = [local EXCEPT ![OutPath(j)] = Plaintext(Head(batch[j]).clip, 0)]
            /\ Goto(j, "copy")
    /\ UNCHANGED <<configVars, serverVars, keyVars, secret, output, batch>>

(* A slip: the copy loop does not stop at the end of its input. *)
CopyBlockPastEnd(j) ==
    /\ step[j] = "copy"
    /\ secret[j] \in local[Head(batch[j])].sealed
    /\ local' = [local EXCEPT ![OutPath(j)].blocks = @ + 1]
    /\ UNCHANGED <<configVars, serverVars, step, keyVars, secret, output, batch>>

(* decrypt_stream: a block that opens with the key is written out ...      *)
CopyBlock(j) ==
    /\ step[j] = "copy"
    /\ LET input == local[Head(batch[j])]
       IN  /\ secret[j] \in input.sealed
           /\ local[OutPath(j)].blocks < input.blocks
    /\ local' = [local EXCEPT ![OutPath(j)].blocks = @ + 1]
    /\ UNCHANGED <<configVars, serverVars, step, keyVars, secret, output, batch>>

(* ... until the last block, which age marks as the last.                  *)
EndOfClip(j) ==
    /\ step[j] = "copy"
    /\ secret[j] \in local[Head(batch[j])].sealed
    /\ local[OutPath(j)].blocks = Blocks
    /\ batch' = [batch EXCEPT ![j] = Tail(@)]
    /\ Goto(j, "next")
    /\ UNCHANGED <<configVars, serverVars, keyVars, secret, output, local>>

(* A slip: the file that could not be decrypted is left. *)
DecryptErrorKeeps(j) ==
    /\ step[j] = "copy"
    /\ Goto(j, "failed")
    /\ UNCHANGED <<configVars, serverVars, keyVars, decryptVars>>

(* A key that does not fit, a ciphertext cut short or damaged, or a write  *)
(* error: the output is removed and the rest of the files are not tried.   *)
DecryptError(j) ==
    /\ step[j] = "copy"
    /\ local' = [local EXCEPT ![OutPath(j)] = None]
    /\ Goto(j, "failed")
    /\ UNCHANGED <<configVars, serverVars, keyVars, secret, output, batch>>

(* A command is killed, or gives up after an I/O error without more ado.   *)
Kill(j) ==
    /\ step[j] \notin {"idle", "done", "failed", "killed"}
    /\ Goto(j, "killed")
    /\ UNCHANGED <<configVars, serverVars, keyVars, decryptVars>>
-----------------------------------------------------------------------------
Command(j) ==
    \/ \E r \in Request : AddAccount(j, r)
    \/ Writes(j)
    \/ \E k \in Key, p \in IdentityPath \cup {None} : Genkey(j, k, p)
    \/ CreateIdentity(j) \/ WriteIdentity(j) \/ PrintSecret(j) \/ ShowRecipient(j)
    \/ \E k \in Key, o \in {None, "out"}, files \in Batch : Decrypt(j, k, o, files)
    \/ NextInput(j) \/ CopyBlock(j) \/ EndOfClip(j) \/ DecryptError(j)
    \/ Kill(j)

Serve ==
    \/ Start \/ Stop \/ Sighup \/ Reload
    \/ \E c \in Clip : Store(c) \/ \E n \in 0..Blocks : Download(c, n)

Next ==
    \/ \E j \in Job : Command(j)
    \/ Serve
    \/ \E keys \in SUBSET shown : EditRecipients(keys)
    \/ RepairFile

Spec == Init /\ [][Next]_vars
-----------------------------------------------------------------------------
Label == {"idle", "append", "line", "rest", "create", "write", "print", "show", "next", "copy", "done", "failed", "killed"}

(* The types of what the server and the commands keep on disk. *)
OperationsTypeOK ==
    /\ file.recipients \in SUBSET Key
    /\ file.end \in [at : Ends, by : Job \cup {None}, own : BOOLEAN]
    /\ short \in 0..MaxShort /\ lost \subseteq Job
    /\ server # None => server.recipients \in SUBSET Key
    /\ hup \in BOOLEAN /\ (hup => server # None)
    /\ archive \in [Clip -> {None} \cup SUBSET Key]
    /\ step \in [Job -> Label]
    /\ pair \in [Job -> Key \cup {None}]
    /\ path \in [Job -> IdentityPath \cup {None}]
    /\ identity \in [IdentityPath -> Key \cup {None}]
    /\ printed \subseteq Key /\ shown \subseteq Key /\ overwritten \subseteq Key
    /\ secret \in [Job -> Key \cup {None}]
    /\ output \in [Job -> {None, "out"}]
    /\ local \in [LocalName -> {None} \cup ClipFile]

(* An account as its request has it, names as TOML reads them, apart from  *)
(* the TLS rule.  A camera whose lines met another command's may have lost *)
(* its user name or its name, and go by the other.                         *)
AsTold(login, account) ==
    \E t \in told :
        LET name == Unquote(t.request.name)
            user == Unquote(CameraLogin(t.request))
        IN  /\ account.hash = t.hash
            /\ \/ /\ t.request.kind = "camera" /\ account.kind = "uploader"
                  /\ \/ login = user /\ account.view = Single(Home(name))
                     \/ /\ t.hash.salt \in lost
                        /\ login \in {name, user} /\ account.view = Single(Home(login))
               \/ /\ t.request.kind # "camera" /\ account.kind = "viewer"
                  /\ login = name
                  /\ account.view = ExpandScope([group |-> <<>>], UnquoteScope(t.request.scope))

FirstLogins == DOMAIN Build(ParseStr(FirstFile))

(* An account in force is one that was asked for: the password opens the   *)
(* login, the role and the scope that were named with it, however many     *)
(* commands were writing to the file, died in it at any byte, or were read *)
(* half-way.  Only where the text of two commands ran into each other may  *)
(* a camera come by the wrong one of its two names.                        *)
AccountsAsTold ==
    server # None =>
        \A login \in DOMAIN server.accounts :
            login \in FirstLogins \/ AsTold(login, server.accounts[login])

(* Adding accounts takes nothing away: as long as the process runs, an     *)
(* account in force stays in force with its password and its role, and     *)
(* keeps its TLS rule, whatever is appended to the file, repeated names    *)
(* and torn tables included, and whenever it is reloaded.                  *)
AccountsKept ==
    [][server # None /\ server' # None =>
          \A login \in DOMAIN server.accounts :
              /\ login \in DOMAIN server'.accounts
              /\ LET old == server.accounts[login]
                     new == server'.accounts[login]
                 IN  /\ new.hash = old.hash /\ new.kind = old.kind /\ new.view = old.view
                     /\ old.tls => new.tls]_vars

(* README: "lose the identity, archived footage is unrecoverable".  Every  *)
(* sealed clip opens with a secret key that lies in an identity file or    *)
(* was printed, unless the operator gave genkey the very file it was in:   *)
(* the server never seals for nobody, and a public key only gets into the  *)
(* config file when its secret key is out, wherever genkey is killed and   *)
(* however often recipients change under the running server.               *)
FootageRecoverable ==
    \A c \in Clip :
        archive[c] # None => \E k \in archive[c] : Kept(k) \/ k \in overwritten

(* main.rs: "don't leave a partial/empty file behind".  A plaintext on the *)
(* viewer's disk is the whole clip, although outputs get their final name  *)
(* at once and downloads may be short, unless decrypt is at work on it or  *)
(* was killed at it.                                                       *)
NoPartialPlaintext ==
    \A n \in LocalName :
        local[n] # None /\ ~n.age /\ local[n].blocks # Blocks =>
            \E j \in Job : /\ step[j] \in {"copy", "killed"}
                           /\ batch[j] # <<>> /\ OutPath(j) = n
=============================================================================
