------------------------------ MODULE Archive ------------------------------
(***************************************************************************)
(* The append-only archive of one camera: the put path of src/backend.rs   *)
(* (store_stream, store_encrypted and the quarantine branch), the naming   *)
(* and offset rules of src/append.rs, and the retention sweep of           *)
(* src/retention.rs, which `reoftpd cleanup` runs as a process of its own. *)
(*                                                                         *)
(* The file system is external: directory entries bind names to inodes, an *)
(* open descriptor keeps its inode when the name goes, link(2) refuses an  *)
(* existing target and open(2) needs the parent directory.  Every await    *)
(* point of an upload and every system call of the sweep is a step, so     *)
(* uploads and sweep interleave as they do on the running system.          *)
(***************************************************************************)
EXTENDS Integers, Sequences, FiniteSets

CONSTANTS
    Upload,             \* the STOR transfers of a behaviour
    NoFile,             \* no inode: an unbound name, a closed descriptor
    Target,             \* the paths cameras store to
    Probe,              \* the stems is_reolink_test_file accepts
    Offset,             \* the REST offsets clients ask for
    MaxBlocks,          \* bound: blocks one transfer sends
    Encryption,         \* TRUE: [encryption] recipients are configured
    CheckErrors,        \* TRUE: looking for the final name may fail with an I/O error
    ExclusiveUploads,   \* TRUE: a path is never stored to by two transfers at once
    Cleanup,            \* TRUE: the retention sweep runs
    Retention, StagingTTL, QuarantineTTL,   \* the sweep's ages, in ticks
    MaxAge              \* ages saturate here

Dir == {"home", "day", "quarantine"}
Suffix == {"age", "partial"}

ASSUME TargetAssumption ==
    /\ NoFile \notin Upload
    /\ Target \subseteq [in : Dir, stem : STRING, suffix : Seq(Suffix)]

ASSUME BoundAssumption ==
    /\ Offset \subseteq Nat
    /\ MaxBlocks \in Nat
    /\ Retention \in Nat /\ StagingTTL \in Nat /\ QuarantineTTL \in Nat
    /\ MaxAge \in Nat

ASSUME SwitchAssumption ==
    /\ Encryption \in BOOLEAN /\ CheckErrors \in BOOLEAN
    /\ ExclusiveUploads \in BOOLEAN /\ Cleanup \in BOOLEAN

VARIABLES
    entry,      \* directory entries: name -> inode, an inode named by its creator
    dirs,       \* the directories that exist
    data,       \* per inode: its blocks, each the block of the clip it came from
    age,        \* per inode: time since its mtime
    target, start,      \* per transfer: the path and offset it asked for
    pc, verdict,        \* per transfer: the next await point, and its outcome
    fd,                 \* per transfer: the inode its file handle is open on
    sent,               \* per transfer: blocks written
    sweepAt,            \* the directory the sweep is in, or "none"
    sweepDirs, sweepFiles,  \* entries read_dir still has to return
    victim,             \* the file found too old and about to be removed
    sweepAge            \* per inode: its age at the sweep's `now`

fsVars == <<entry, dirs, data, age>>
requestVars == <<target, start>>
uploadVars == <<pc, verdict, fd, sent>>
sweepVars == <<sweepAt, sweepDirs, sweepFiles, victim, sweepAge>>
vars == <<fsVars, requestVars, uploadVars, sweepVars>>
-----------------------------------------------------------------------------
(* Names.  A name is a directory, a stem and the suffixes put behind it.   *)
StagingPath(n) == [n EXCEPT !.suffix = Append(@, "partial")]
AgeSuffix(n) == [n EXCEPT !.suffix = Append(@, "age")]
IsStaging(n) == n.suffix # <<>> /\ n.suffix[Len(n.suffix)] = "partial"
IsProbe(t) == t.stem \in Probe

(* Where put stores a target: a probe in .quarantine under its bare file   *)
(* name, a clip at its own path, with .age behind it if encrypted.         *)
Final(t) ==
    IF IsProbe(t) THEN [t EXCEPT !.in = "quarantine"]
    ELSE IF Encryption THEN AgeSuffix(t)
    ELSE t

Clip == {Final(t) : t \in {x \in Target : ~IsProbe(x)}}
Name == {Final(t) : t \in Target} \cup {StagingPath(c) : c \in Clip}
Inode == Upload

FinalOf(u) == Final(target[u])
StagingOf(u) == StagingPath(Final(target[u]))
InFlight(u) == pc[u] \notin {"new", "done"}

(* create_dir_all on a directory of this tree. *)
CreateDirAll(d) == dirs \cup {"home", d}

ClassifyOffset(pos, size) ==
    IF pos = size THEN "ok" ELSE IF pos < size THEN "overlap" ELSE "gap"

(* A positioned write; a gap below it reads as zeros, here block 0. *)
WriteAt(s, k, b) ==
    [i \in 1..(IF k > Len(s) THEN k ELSE Len(s)) |->
        IF i = k THEN b ELSE IF i <= Len(s) THEN s[i] ELSE 0]

Goto(u, label) == pc' = [pc EXCEPT ![u] = label] /\ UNCHANGED verdict
GotoWith(u, label, v) ==
    /\ pc' = [pc EXCEPT ![u] = label]
    /\ verdict' = [verdict EXCEPT ![u] = v]
Finish(u, v) == GotoWith(u, "done", v)

Init ==
    /\ entry = [n \in Name |-> NoFile]
    /\ dirs = {"home"}
    /\ data = [i \in Inode |-> <<>>]
    /\ age = [i \in Inode |-> 0]
    /\ target \in [Upload -> Target]
    /\ start \in [Upload -> Offset]
    /\ pc = [u \in Upload |-> "new"]
    /\ verdict = [u \in Upload |-> "none"]
    /\ fd = [u \in Upload |-> NoFile]
    /\ sent = [u \in Upload |-> 0]
    /\ sweepAt = "none"
    /\ sweepDirs = {}
    /\ sweepFiles = [d \in Dir |-> {}]
    /\ victim = NoFile
    /\ sweepAge = [i \in Inode |-> 0]
-----------------------------------------------------------------------------
(* put up to its first await.  Resolving a path fails with NotFound when   *)
(* the jail home does not exist; the quarantine branch does not resolve.   *)
Put(u) ==
    /\ pc[u] = "new"
    /\ ExclusiveUploads /\ ~IsProbe(target[u]) =>
          \A v \in Upload : InFlight(v) => FinalOf(v) # FinalOf(u)
    /\ IF IsProbe(target[u]) THEN Goto(u, "mkdir")
       ELSE IF "home" \notin dirs THEN Finish(u, "notFound")
       ELSE IF Encryption /\ start[u] # 0 THEN Finish(u, "denied")
       ELSE Goto(u, "check")
    /\ UNCHANGED <<fsVars, requestVars, fd, sent, sweepVars>>

(* A slip: the final name is not looked at before storing. *)
NoFinalCheck(u) ==
    /\ pc[u] = "check"
    /\ Goto(u, IF Encryption THEN "mkdir" ELSE "stat")
    /\ UNCHANGED <<fsVars, requestVars, fd, sent, sweepVars>>

(* 1. No overwrite of finalized files. *)
CheckFinal(u) ==
    /\ pc[u] = "check"
    /\ IF entry[FinalOf(u)] # NoFile THEN Finish(u, "finalized")
       ELSE Goto(u, IF Encryption THEN "mkdir" ELSE "stat")
    /\ UNCHANGED <<fsVars, requestVars, fd, sent, sweepVars>>

(* try_exists itself fails: store_stream returns, store_encrypted takes    *)
(* the clip for absent (unwrap_or(false)) and goes on.                     *)
CheckFails(u) ==
    /\ CheckErrors
    /\ pc[u] = "check"
    /\ IF Encryption THEN Goto(u, "mkdir") ELSE Finish(u, "io")
    /\ UNCHANGED <<fsVars, requestVars, fd, sent, sweepVars>>

(* A slip: an offset past the end of the staging file passes. *)
StatStagingNoGap(u) ==
    /\ pc[u] = "stat"
    /\ LET staged == entry[StagingOf(u)]
           size == IF staged = NoFile THEN 0 ELSE Len(data[staged])
       IN  IF start[u] >= size THEN Goto(u, "mkdir") ELSE GotoWith(u, "unlink", "overlap")
    /\ UNCHANGED <<fsVars, requestVars, fd, sent, sweepVars>>

(* 2 and 3. The size of the staging file decides; a bad offset condemns it.*)
StatStaging(u) ==
    /\ pc[u] = "stat"
    /\ LET staged == entry[StagingOf(u)]
           size == IF staged = NoFile THEN 0 ELSE Len(data[staged])
           v == ClassifyOffset(start[u], size)
       IN  IF v = "ok" THEN Goto(u, "mkdir") ELSE GotoWith(u, "unlink", v)
    /\ UNCHANGED <<fsVars, requestVars, fd, sent, sweepVars>>

(* A slip: the copy starts without a file. *)
CreateParentNoOpen(u) ==
    /\ pc[u] = "mkdir"
    /\ dirs' = CreateDirAll(FinalOf(u).in)
    /\ Goto(u, "copy")
    /\ UNCHANGED <<entry, data, age, requestVars, fd, sent, sweepVars>>

(* create_dir_all(staging.parent()). *)
CreateParent(u) ==
    /\ pc[u] = "mkdir"
    /\ dirs' = CreateDirAll(FinalOf(u).in)
    /\ Goto(u, "open")
    /\ UNCHANGED <<entry, data, age, requestVars, fd, sent, sweepVars>>

(* 4. Open for append, or (encrypted clips and probes) create-and-truncate.*)
(* A missing name gets a new inode; an existing one is opened as it is.    *)
Truncates(u) == Encryption \/ IsProbe(target[u])
OpenName(u) == IF IsProbe(target[u]) THEN FinalOf(u) ELSE StagingOf(u)

(* A slip: what an earlier transfer left in the file is not truncated. *)
OpenFileKeeps(u) ==
    /\ pc[u] = "open"
    /\ FinalOf(u).in \in dirs
    /\ LET i == IF entry[OpenName(u)] = NoFile THEN u ELSE entry[OpenName(u)]
       IN  /\ entry' = [entry EXCEPT ![OpenName(u)] = i]
           /\ fd' = [fd EXCEPT ![u] = i]
    /\ Goto(u, "copy")
    /\ UNCHANGED <<dirs, data, age, requestVars, sent, sweepVars>>

OpenFile(u) ==
    /\ pc[u] = "open"
    /\ FinalOf(u).in \in dirs
    /\ LET i == IF entry[OpenName(u)] = NoFile THEN u ELSE entry[OpenName(u)]
           fresh == i = u \/ Truncates(u)
       IN  /\ entry' = [entry EXCEPT ![OpenName(u)] = i]
           /\ fd' = [fd EXCEPT ![u] = i]
           /\ data' = [data EXCEPT ![i] = IF fresh THEN <<>> ELSE @]
           /\ age' = [age EXCEPT ![i] = IF fresh THEN 0 ELSE @]
           /\ sweepAge' = [sweepAge EXCEPT ![i] = IF fresh THEN 0 ELSE @]
    /\ Goto(u, "copy")
    /\ UNCHANGED <<dirs, requestVars, sent, sweepAt, sweepDirs, sweepFiles, victim>>

(* The sweep pruned the directory after create_dir_all. *)
OpenFails(u) ==
    /\ pc[u] = "open"
    /\ FinalOf(u).in \notin dirs
    /\ Finish(u, "io")
    /\ UNCHANGED <<fsVars, requestVars, fd, sent, sweepVars>>

(* 5. One block of the copy loop, or of the detached encryption task.      *)
WriteBlock(u) ==
    /\ pc[u] \in {"copy", "detached"}
    /\ sent[u] < MaxBlocks
    /\ LET s == data[fd[u]]
       IN  data' = [data EXCEPT ![fd[u]] =
                       IF Truncates(u) THEN WriteAt(s, sent[u] + 1, sent[u] + 1)
                       ELSE Append(s, start[u] + sent[u] + 1)]
    /\ age' = [age EXCEPT ![fd[u]] = 0]
    /\ sweepAge' = [sweepAge EXCEPT ![fd[u]] = 0]
    /\ sent' = [sent EXCEPT ![u] = @ + 1]
    /\ UNCHANGED <<entry, dirs, requestVars, pc, verdict, fd, sweepAt, sweepDirs,
                   sweepFiles, victim>>

EndOfInput(u) ==
    /\ pc[u] = "copy"
    /\ IF IsProbe(target[u]) THEN Finish(u, "ok")
       ELSE Goto(u, IF Encryption THEN "link" ELSE "flush")
    /\ UNCHANGED <<fsVars, requestVars, fd, sent, sweepVars>>

(* The copy fails: store_stream removes the staging file, store_encrypted  *)
(* and the quarantine branch leave what they wrote.                        *)
CopyError(u) ==
    /\ pc[u] = "copy"
    /\ IF Truncates(u) THEN Finish(u, "io") ELSE GotoWith(u, "unlink", "io")
    /\ UNCHANGED <<fsVars, requestVars, fd, sent, sweepVars>>

(* 6. An error of the final flush returns at once. *)
Flush(u) ==
    /\ pc[u] = "flush"
    /\ Goto(u, "link") \/ Finish(u, "io")
    /\ UNCHANGED <<fsVars, requestVars, fd, sent, sweepVars>>

(* A slip: a staging file that has vanished is taken for a finished one. *)
HardLinkIgnoresMissing(u) ==
    /\ pc[u] = "link"
    /\ LET staged == entry[StagingOf(u)]
       IN  IF staged # NoFile /\ entry[FinalOf(u)] # NoFile
           THEN GotoWith(u, "unlink", "finalized") /\ UNCHANGED entry
           ELSE /\ entry' = [entry EXCEPT ![FinalOf(u)] = staged]
                /\ GotoWith(u, "unlink", "ok")
    /\ UNCHANGED <<dirs, data, age, requestVars, fd, sent, sweepVars>>

(* A slip: rename(staging, final), which replaces what is there. *)
HardLinkClobbers(u) ==
    /\ pc[u] = "link"
    /\ LET staged == entry[StagingOf(u)]
       IN  IF staged = NoFile
           THEN GotoWith(u, "unlink", "io") /\ UNCHANGED entry
           ELSE /\ entry' = [entry EXCEPT ![FinalOf(u)] = staged]
                /\ GotoWith(u, "unlink", "ok")
    /\ UNCHANGED <<dirs, data, age, requestVars, fd, sent, sweepVars>>

(* hard_link(staging, final): no-clobber, and an error if staging is gone. *)
HardLink(u) ==
    /\ pc[u] = "link"
    /\ LET staged == entry[StagingOf(u)]
       IN  IF staged = NoFile
           THEN GotoWith(u, "unlink", "io") /\ UNCHANGED entry
           ELSE IF entry[FinalOf(u)] # NoFile
           THEN GotoWith(u, "unlink", "finalized") /\ UNCHANGED entry
           ELSE /\ entry' = [entry EXCEPT ![FinalOf(u)] = staged]
                /\ GotoWith(u, "unlink", "ok")
    /\ UNCHANGED <<dirs, data, age, requestVars, fd, sent, sweepVars>>

(* remove_file(staging), its result ignored, before every return above. *)
RemoveStaging(u) ==
    /\ pc[u] = "unlink"
    /\ entry' = [entry EXCEPT ![StagingOf(u)] = NoFile]
    /\ Goto(u, "done")
    /\ UNCHANGED <<dirs, data, age, requestVars, fd, sent, sweepVars>>

(* The session ends and libunftp drops the put future at an await point.   *)
(* A file operation under way then still completes on the blocking pool:   *)
(* that is its step, followed by this one.  The blocking task of an        *)
(* encrypted upload is not cancelled either: it goes on writing until its  *)
(* input ends.  An I/O error of the stat, of create_dir_all or of the open *)
(* returns with the same effect on the file system.                        *)
Abandon(u) ==
    /\ InFlight(u) /\ pc[u] # "detached"
    /\ IF pc[u] = "copy" /\ Encryption /\ ~IsProbe(target[u])
       THEN Goto(u, "detached") ELSE Finish(u, "dropped")
    /\ UNCHANGED <<fsVars, requestVars, fd, sent, sweepVars>>

DetachedEnds(u) ==
    /\ pc[u] = "detached"
    /\ Finish(u, "dropped")
    /\ UNCHANGED <<fsVars, requestVars, fd, sent, sweepVars>>

Step(u) ==
    \/ Put(u) \/ CheckFinal(u) \/ CheckFails(u) \/ StatStaging(u) \/ CreateParent(u)
    \/ OpenFile(u) \/ OpenFails(u) \/ WriteBlock(u) \/ EndOfInput(u)
    \/ CopyError(u) \/ Flush(u) \/ HardLink(u) \/ RemoveStaging(u)
    \/ Abandon(u) \/ DetachedEnds(u)
-----------------------------------------------------------------------------
(* MKD of a folder in the jail. *)
Mkd(d) ==
    /\ "home" \in dirs
    /\ dirs' = CreateDirAll(d)
    /\ UNCHANGED <<entry, data, age, requestVars, uploadVars, sweepVars>>

(* ensure_home_dirs, at a SIGHUP reload. *)
EnsureHomeDirs ==
    /\ dirs' = dirs \cup {"home"}
    /\ UNCHANGED <<entry, data, age, requestVars, uploadVars, sweepVars>>

(* The server process dies with everything in flight and starts again;     *)
(* the file system and the sweep are not part of the process.              *)
Restart ==
    /\ \E u \in Upload : InFlight(u)
    /\ pc' = [u \in Upload |-> IF InFlight(u) THEN "done" ELSE pc[u]]
    /\ verdict' = [u \in Upload |-> IF InFlight(u) THEN "dropped" ELSE verdict[u]]
    /\ dirs' = dirs \cup {"home"}
    /\ UNCHANGED <<entry, data, age, requestVars, fd, sent, sweepVars>>

Older(a) == IF a < MaxAge THEN a + 1 ELSE MaxAge
Tick ==
    /\ Cleanup
    /\ age' = [i \in Inode |-> IF \E n \in Name : entry[n] = i THEN Older(age[i]) ELSE age[i]]
    /\ UNCHANGED <<entry, dirs, data, requestVars, uploadVars, sweepVars>>
-----------------------------------------------------------------------------
FilesIn(d) == {n \in Name : n.in = d /\ entry[n] # NoFile}
SubDirs(d) == IF d = "home" THEN dirs \ {"home"} ELSE {}

TtlOf(n) ==
    IF n.in = "quarantine" THEN QuarantineTTL
    ELSE IF IsStaging(n) THEN StagingTTL
    ELSE Retention

(* A slip: the staging age is used for everything outside quarantine. *)
OlderThanStaging(n) ==
    /\ entry[n] # NoFile
    /\ sweepAge[entry[n]] > IF n.in = "quarantine" THEN QuarantineTTL ELSE StagingTTL

(* older_than at the `now` the sweep was started with; a file written      *)
(* since then is not older than now.                                       *)
OlderThan(n) == entry[n] # NoFile /\ sweepAge[entry[n]] > TtlOf(n)

SweepEnds ==
    /\ sweepAt' = "none"
    /\ sweepDirs' = {}
    /\ sweepFiles' = [d \in Dir |-> {}]
    /\ sweepAge' = [i \in Inode |-> 0]
    /\ victim' = NoFile

(* A slip: hidden directories, .quarantine among them, are left out. *)
SweepStartSkipsHidden ==
    /\ Cleanup /\ sweepAt = "none" /\ "home" \in dirs
    /\ sweepAt' = "home"
    /\ sweepDirs' = SubDirs("home") \ {"quarantine"}
    /\ sweepFiles' = [sweepFiles EXCEPT !["home"] = FilesIn("home")]
    /\ sweepAge' = age
    /\ UNCHANGED <<fsVars, requestVars, uploadVars, victim>>

(* `now` is taken, the archive root and then the camera's home are opened. *)
SweepStart ==
    /\ Cleanup /\ sweepAt = "none" /\ "home" \in dirs
    /\ sweepAt' = "home"
    /\ sweepDirs' = SubDirs("home")
    /\ sweepFiles' = [sweepFiles EXCEPT !["home"] = FilesIn("home")]
    /\ sweepAge' = age
    /\ UNCHANGED <<fsVars, requestVars, uploadVars, victim>>

(* visit recurses into a directory entry. *)
SweepEnter(d) ==
    /\ sweepAt = "home" /\ victim = NoFile
    /\ d \in sweepDirs
    /\ sweepAt' = d
    /\ sweepDirs' = sweepDirs \ {d}
    /\ sweepFiles' = [sweepFiles EXCEPT ![d] = FilesIn(d)]
    /\ UNCHANGED <<fsVars, requestVars, uploadVars, victim, sweepAge>>

(* One file entry: read_dir returns what was there when it was opened, and *)
(* may return what has come since.                                         *)
SweepExamine(n) ==
    /\ sweepAt # "none" /\ victim = NoFile
    /\ n \in sweepFiles[sweepAt] \cup FilesIn(sweepAt)
    /\ victim' = IF OlderThan(n) THEN n ELSE NoFile
    /\ sweepFiles' = [sweepFiles EXCEPT ![sweepAt] = @ \ {n}]
    /\ UNCHANGED <<fsVars, requestVars, uploadVars, sweepAt, sweepDirs, sweepAge>>

(* remove_file(&path)?: whatever the name is bound to by now. *)
SweepRemove ==
    /\ victim # NoFile
    /\ entry[victim] # NoFile
    /\ entry' = [entry EXCEPT ![victim] = NoFile]
    /\ victim' = NoFile
    /\ UNCHANGED <<dirs, data, age, requestVars, uploadVars, sweepAt, sweepDirs,
                   sweepFiles, sweepAge>>

(* ... and the `?`: a file that has vanished ends the whole sweep. *)
SweepAborts ==
    /\ victim # NoFile
    /\ entry[victim] = NoFile
    /\ SweepEnds
    /\ UNCHANGED <<fsVars, requestVars, uploadVars>>

(* A directory is done: the caller prunes it if it is empty now, then goes *)
(* on with its parent; the camera's home is pruned like any other.         *)
SweepLeave ==
    /\ sweepAt # "none" /\ victim = NoFile
    /\ sweepFiles[sweepAt] = {}
    /\ sweepAt = "home" => sweepDirs = {}
    /\ dirs' = IF FilesIn(sweepAt) = {} /\ SubDirs(sweepAt) = {}
               THEN dirs \ {sweepAt} ELSE dirs
    /\ IF sweepAt = "home" THEN SweepEnds
       ELSE sweepAt' = "home" /\ UNCHANGED <<sweepDirs, sweepFiles, victim, sweepAge>>
    /\ UNCHANGED <<entry, data, age, requestVars, uploadVars>>

Sweep ==
    \/ SweepStart
    \/ \E d \in Dir : SweepEnter(d)
    \/ \E n \in Name : SweepExamine(n)
    \/ SweepRemove \/ SweepAborts \/ SweepLeave

Next ==
    \/ \E u \in Upload : Step(u)
    \/ \E d \in Dir : Mkd(d)
    \/ EnsureHomeDirs \/ Restart \/ Tick \/ Sweep

Spec == Init /\ [][Next]_vars

(* Time passes.  Nothing else need ever happen: a client may keep its      *)
(* transfer open for ever, and when the cleanup command runs is up to the  *)
(* system's timer (PassCompletes, below).                                  *)
FairSpec == Spec /\ WF_vars(Tick)
-----------------------------------------------------------------------------
Label == {"new", "check", "stat", "mkdir", "open", "copy", "detached", "flush",
          "link", "unlink", "done"}
Verdict == {"none", "ok", "finalized", "overlap", "gap", "io", "denied", "notFound",
            "dropped"}

(* The types of the state: the file system, the transfers and the sweep. *)
ArchiveTypeOK ==
    /\ entry \in [Name -> Inode \cup {NoFile}]
    /\ dirs \in SUBSET Dir
    /\ data \in [Inode -> Seq(Nat)]
    /\ age \in [Inode -> 0..MaxAge]
    /\ target \in [Upload -> Target]
    /\ start \in [Upload -> Offset]
    /\ pc \in [Upload -> Label]
    /\ verdict \in [Upload -> Verdict]
    /\ fd \in [Upload -> Inode \cup {NoFile}]
    /\ \A u \in Upload : pc[u] \in {"copy", "detached", "flush"} => fd[u] # NoFile
    /\ \A u \in Upload :
          IsProbe(target[u]) => pc[u] \in {"new", "mkdir", "open", "copy", "done"}
    /\ sent \in [Upload -> 0..MaxBlocks]
    /\ sweepAt \in Dir \cup {"none"}
    /\ sweepDirs \in SUBSET Dir
    /\ sweepFiles \in [Dir -> SUBSET Name]
    /\ victim \in Name \cup {NoFile}
    /\ sweepAge \in [Inode -> 0..MaxAge]

(* README: "Once a file is finalised it is immutable."  From the step that *)
(* gives a clip its final name on, no step of any transfer or of the sweep *)
(* changes its bytes or puts another file in its place; the only other     *)
(* thing that can happen to it is removal.                                 *)
FinalImmutable ==
    [][\A c \in Clip :
          entry[c] # NoFile =>
             \/ entry'[c] = NoFile
             \/ entry'[c] = entry[c] /\ data'[entry[c]] = data[entry[c]]]_vars

(* Encrypted uploads go on when the check of the final name fails, and may *)
(* then truncate a clip that a crash left with its staging name.  A clip   *)
(* whose staging name has gone, or names another file, is out of their     *)
(* reach all the same: whatever the check said, it is never altered or     *)
(* replaced, as long as no sweep takes the staging name from under them.   *)
SettledClipsImmutable ==
    [][\A c \in Clip :
          entry[c] # NoFile /\ entry[StagingPath(c)] # entry[c] =>
             \/ entry'[c] = NoFile
             \/ entry'[c] = entry[c] /\ data'[entry[c]] = data[entry[c]]]_vars

(* append.rs: "A store may only begin exactly at the current end of the    *)
(* staging file."  Hence a finalised clip is a whole prefix of what the    *)
(* camera sent, however often it was interrupted and resumed: block k of   *)
(* the file is block k of the clip.                                        *)
ClipsWhole ==
    \A c \in Clip : entry[c] # NoFile =>
        \A k \in DOMAIN data[entry[c]] : data[entry[c]][k] = k

(* A transfer that is told its upload succeeded has its own bytes, all of  *)
(* them and up to the last, under the final name at that moment.           *)
AcknowledgedIsStored ==
    [][\A u \in Upload :
          (pc[u] = "link" /\ verdict'[u] = "ok") =>
             /\ entry'[FinalOf(u)] = fd[u]
             /\ Len(data[fd[u]]) = start[u] + sent[u]]_vars

(* Footage is only ever deleted by age: a clip that loses its name was     *)
(* last written more than the retention period ago.                        *)
OnlyExpiredClipsGo ==
    [][\A c \in Clip :
          entry[c] # NoFile /\ entry'[c] = NoFile => age[entry[c]] > Retention]_vars

(* server.rs, ensure_home_dirs: each camera's home is created "so path     *)
(* containment (canonicalize) works".  No upload is refused for want of    *)
(* its home directory.                                                     *)
UploadsFindTheirHome == \A u \in Upload : verdict[u] # "notFound"

(* Nothing stays for ever where the cleanup command gets through again and *)
(* again: a clip past retention, a probe in quarantine, and a staging file *)
(* orphaned by a crash, a dropped session or a failed flush are all swept, *)
(* although files come, go and are written to under the pass and a file    *)
(* that vanishes aborts it.  That passes complete is the premise: the code *)
(* itself neither runs the command nor retries an aborted pass.            *)
PassCompletes == sweepAt = "home" /\ SweepLeave
EverythingExpires ==
    []<><<PassCompletes>>_vars => \A n \in Name : entry[n] # NoFile ~> entry[n] = NoFile

(* Why finalised clips stay as they are, when one path has one writer at a *)
(* time: a file is only ever known by the final or the staging name of the *)
(* transfer that created it; an open handle is on a file of the same path; *)
(* two transfers in flight have different paths; and a transfer past the   *)
(* check of its final name finds that name free until it links it itself,  *)
(* however old the check is by then.                                       *)
OwnedNames ==
    \A n \in Name : entry[n] # NoFile =>
        n \in {FinalOf(entry[n]), StagingOf(entry[n])}
OwnedHandles == \A u \in Upload : fd[u] # NoFile => FinalOf(fd[u]) = FinalOf(u)
OneWriter ==
    \A u, v \in Upload :
        u # v /\ InFlight(u) /\ InFlight(v) /\ ~IsProbe(target[u]) => FinalOf(u) # FinalOf(v)
CheckStaysTrue ==
    \A u \in Upload :
        ~IsProbe(target[u]) /\ InFlight(u) /\ pc[u] \notin {"check", "unlink"} =>
            entry[FinalOf(u)] = NoFile
PathsApart == OwnedNames /\ OwnedHandles /\ OneWriter
StoreInv == PathsApart /\ CheckStaysTrue

(* The check of the final name can be relied on: store_stream stops when   *)
(* it fails, store_encrypted does not.                                     *)
CheckSafe == ~(Encryption /\ CheckErrors)

(* No stored path is the staging name of another one. *)
CleanTargets == \A t1, t2 \in Target : Final(t1) # StagingPath(Final(t2))

(* The archive as its clients see it: what each clip name holds. *)
ClipsSeen == [c \in Clip |-> IF entry[c] = NoFile THEN NoFile ELSE data[entry[c]]]
ClipsExpired == {c \in Clip : entry[c] # NoFile /\ age[entry[c]] > Retention}
Abstract == INSTANCE AppendOnlyArchive
                WITH Absent <- NoFile, clips <- ClipsSeen, expired <- ClipsExpired

(* The staged, crash-prone implementation behaves like the append-only     *)
(* archive: clips are published whole by one step, never altered, and gone *)
(* only when they are past retention.                                      *)
ImplementsAppendOnly == Abstract!Spec
=============================================================================
