------------------------- MODULE ArchiveDataProofs -------------------------
(***************************************************************************)
(* Proofs about what the files of Archive.tla hold: finalised clips are    *)
(* whole, an acknowledged upload is stored, and the archive implements     *)
(* AppendOnlyArchive.  For any number of transfers, paths, offsets and     *)
(* blocks, with and without encryption.                                    *)
(***************************************************************************)
EXTENDS ArchiveProofs

(* No clip is stored in the quarantine or under a name with the staging    *)
(* suffix: the sweep judges what is by another age.                        *)
PlainTargets == \A c \in Clip : c.in # "quarantine" /\ ~IsStaging(c)

(* The sweep's ages are never beyond the real ones, and the file it is     *)
(* about to remove under a clip's name has expired.                        *)
SweepInv ==
    /\ \A i \in Inode : sweepAge[i] <= age[i]
    /\ victim \in Clip /\ victim # NoFile =>
          entry[victim] \in Inode /\ sweepAge[entry[victim]] > Retention

LEMMA SweepInvStep ==
    ASSUME CleanTargets, PlainTargets
    PROVE  ArchiveTypeOK /\ ArchiveTypeOK' /\ StoreInv /\ SweepInv /\ [Next]_vars => SweepInv'
<1> SUFFICES ASSUME ArchiveTypeOK, ArchiveTypeOK', StoreInv, SweepInv, [Next]_vars
             PROVE  SweepInv'
  OBVIOUS
<1> USE TargetAssumption, BoundAssumption
<1>1. /\ age \in [Inode -> 0..MaxAge] /\ sweepAge \in [Inode -> 0..MaxAge]
      /\ entry \in [Name -> Inode \cup {NoFile}]
      /\ \A i \in Inode : age[i] \in Nat /\ sweepAge[i] \in Nat
  BY DEF ArchiveTypeOK
<1>2. CASE UNCHANGED <<entry, age, sweepAge, victim>>
  BY <1>2 DEF SweepInv
<1>3. ASSUME NEW u \in Upload, Step(u) PROVE SweepInv'
  <2>1. victim' = victim
    BY <1>3 DEF Step, Put, CheckFinal, CheckFails, StatStaging, CreateParent, OpenFile, OpenFails,
                WriteBlock, EndOfInput, CopyError, Flush, HardLink, RemoveStaging,
                Abandon, DetachedEnds, sweepVars
  <2>2. ASSUME victim \in Clip, victim # NoFile
        PROVE  entry'[victim] \in Inode /\ sweepAge'[entry'[victim]] > Retention
    <3>1. entry[victim] \in Inode /\ sweepAge[entry[victim]] > Retention
      BY <2>2 DEF SweepInv
    <3>2. entry[victim] # NoFile
      BY <3>1 DEF Inode
    <3>3. ClipUntouched(victim)
      BY <1>3, <2>2, <3>2, ClipUpload
    <3> QED BY <3>1, <3>3 DEF ClipUntouched
  <2>3. \A i \in Inode : sweepAge'[i] <= age'[i]
    <3>1. CASE OpenFile(u)
      <4>1. \E j, f : /\ age' = [age EXCEPT ![j] = IF f THEN 0 ELSE @]
                      /\ sweepAge' = [sweepAge EXCEPT ![j] = IF f THEN 0 ELSE @]
        BY <3>1 DEF OpenFile
      <4> QED BY <1>1, <4>1 DEF SweepInv
    <3>2. CASE WriteBlock(u)
      BY <1>1, <3>2 DEF WriteBlock, SweepInv
    <3>3. CASE ~OpenFile(u) /\ ~WriteBlock(u)
      <4>1. age' = age /\ sweepAge' = sweepAge
        BY <1>3, <3>3 DEF Step, Put, CheckFinal, CheckFails, StatStaging, CreateParent, OpenFails,
                EndOfInput, CopyError, Flush, HardLink, RemoveStaging,
                Abandon, DetachedEnds, sweepVars, fsVars
      <4> QED BY <4>1 DEF SweepInv
    <3> QED BY <3>1, <3>2, <3>3
  <2> QED BY <2>1, <2>2, <2>3 DEF SweepInv
<1>4. ASSUME NEW d \in Dir, Mkd(d) PROVE SweepInv'
  BY <1>2, <1>4 DEF Mkd, sweepVars
<1>5. CASE EnsureHomeDirs \/ Restart
  BY <1>2, <1>5 DEF EnsureHomeDirs, Restart, sweepVars
<1>6. CASE Tick
  <2>1. \A i \in Inode : age'[i] >= age[i]
    BY <1>1, <1>6 DEF Tick, Older
  <2>2. \A i \in Inode : age'[i] \in Nat
    BY DEF ArchiveTypeOK
  <2> QED BY <1>1, <1>6, <2>1, <2>2 DEF Tick, sweepVars, SweepInv
<1>7. CASE Sweep
  <2>1. CASE SweepStart
    BY <1>1, <2>1 DEF SweepStart, SweepInv, fsVars
  <2>2. ASSUME NEW d \in Dir, SweepEnter(d) PROVE SweepInv'
    BY <1>2, <2>2 DEF SweepEnter, fsVars
  <2>3. ASSUME NEW n \in Name, SweepExamine(n) PROVE SweepInv'
    <3>1. /\ UNCHANGED <<entry, age, sweepAge>>
          /\ victim' = IF OlderThan(n) THEN n ELSE NoFile
      BY <2>3 DEF SweepExamine, fsVars
    <3>2. ASSUME n \in Clip, OlderThan(n)
          PROVE  entry[n] \in Inode /\ sweepAge[entry[n]] > Retention
      <4>1. TtlOf(n) = Retention
        BY <3>2 DEF TtlOf, PlainTargets
      <4> QED BY <1>1, <3>2, <4>1 DEF OlderThan
    <3> QED BY <3>1, <3>2 DEF SweepInv
  <2>4. CASE SweepRemove
    BY <2>4 DEF SweepRemove, SweepInv
  <2>5. SweepEnds /\ age' = age => SweepInv'
    BY <1>1 DEF SweepEnds, SweepInv
  <2>6. CASE SweepAborts
    BY <2>5, <2>6 DEF SweepAborts, fsVars
  <2>7. CASE SweepLeave
    BY <1>2, <2>5, <2>7 DEF SweepLeave
  <2> QED BY <1>7, <2>1, <2>2, <2>3, <2>4, <2>6, <2>7 DEF Sweep
<1>8. CASE UNCHANGED vars
  BY <1>2, <1>8 DEF vars, fsVars, sweepVars
<1> QED BY <1>3, <1>4, <1>5, <1>6, <1>7, <1>8 DEF Next

LEMMA SweepInvariant ==
    ASSUME CleanTargets, PlainTargets, ExclusiveUploads, CheckSafe
    PROVE  Spec => []SweepInv
<1>1. Init => SweepInv
  BY DEF Init, SweepInv
<1>2. ArchiveTypeOK /\ ArchiveTypeOK' /\ StoreInv /\ SweepInv /\ [Next]_vars => SweepInv'
  BY SweepInvStep
<1> QED BY <1>1, <1>2, ArchiveTypeCorrect, StoreInvariant, PTL DEF Spec

(* The clip the sweep removes is past retention. *)
LEMMA VictimExpired ==
    ASSUME ArchiveTypeOK, SweepInv, victim \in Clip, SweepRemove
    PROVE  age[entry[victim]] > Retention
<1>1. entry[victim] \in Inode /\ sweepAge[entry[victim]] > Retention
  BY DEF SweepRemove, SweepInv
<1>2. sweepAge[entry[victim]] <= age[entry[victim]]
  BY <1>1 DEF SweepInv
<1>3. sweepAge[entry[victim]] \in Nat /\ age[entry[victim]] \in Nat /\ Retention \in Nat
  BY <1>1, BoundAssumption DEF ArchiveTypeOK
<1> QED BY <1>1, <1>2, <1>3

(* Footage is only ever deleted by age: a clip that loses its name was     *)
(* last written more than the retention period ago, although the sweep     *)
(* judges a name and then removes whatever the name is bound to.           *)
THEOREM OnlyExpiredFootageGoes ==
    ASSUME CleanTargets, PlainTargets, ExclusiveUploads, CheckSafe
    PROVE  Spec => OnlyExpiredClipsGo
<1>1. ArchiveTypeOK /\ StoreInv /\ SweepInv /\ [Next]_vars =>
        [\A c \in Clip :
            entry[c] # NoFile /\ entry'[c] = NoFile => age[entry[c]] > Retention]_vars
  <2> SUFFICES ASSUME ArchiveTypeOK, StoreInv, SweepInv, [Next]_vars,
                      NEW c \in Clip, entry[c] # NoFile, entry'[c] = NoFile
               PROVE  age[entry[c]] > Retention
    OBVIOUS
  <2>1. SweepRemove /\ victim = c
    BY ClipStep DEF ClipKept
  <2> QED BY <2>1, VictimExpired
<1> QED
  BY <1>1, ArchiveTypeCorrect, StoreInvariant, SweepInvariant, PTL
  DEF Spec, OnlyExpiredClipsGo
-----------------------------------------------------------------------------
(* A resumed transfer and the sweep do not meet: a staging file removed    *)
(* between the stat and the open of store_stream would restart at an       *)
(* offset that no longer exists.                                           *)
ResumeSafe == ~Cleanup \/ Offset \subseteq {0}

Early == {"new", "check", "stat", "mkdir", "open"}
Busy == {"copy", "detached", "flush", "link"}

(* A transfer that has not opened its file has created none. *)
Unborn ==
    \A u \in Upload : pc[u] \in Early =>
        /\ sent[u] = 0
        /\ \A n \in Name : entry[n] # u
        /\ \A v \in Upload : fd[v] # u

(* Only a transfer on its way out has an answer. *)
Unanswered == \A u \in Upload : pc[u] \notin {"unlink", "done"} => verdict[u] = "none"

(* store_encrypted starts at offset 0. *)
EncryptedFromStart(u) == Encryption /\ InFlight(u) => start[u] = 0

(* What classify_offset saw is still so when the file is opened. *)
StagedSize(u) == IF entry[StagingOf(u)] = NoFile THEN 0 ELSE Len(data[entry[StagingOf(u)]])
OffsetStaysRight(u) == ~Encryption /\ pc[u] \in {"mkdir", "open"} => StagedSize(u) = start[u]

(* A transfer that writes has the staging file to itself and has written   *)
(* all of it from its offset on; the name is bound to that file or gone.   *)
SoleWriter(u) ==
    pc[u] \in Busy =>
        /\ fd[u] \in Inode
        /\ entry[StagingOf(u)] \in {NoFile, fd[u]}
        /\ Len(data[fd[u]]) = start[u] + sent[u]

TransferOK(u) ==
    ~IsProbe(target[u]) => EncryptedFromStart(u) /\ OffsetStaysRight(u) /\ SoleWriter(u)

(* Block k of every file of a clip, staged or final, is block k. *)
WholeFiles ==
    \A i \in Inode : ~IsProbe(target[i]) => \A k \in DOMAIN data[i] : data[i][k] = k

NoSweepNoVictim == ~Cleanup => sweepAt = "none" /\ victim = NoFile

DataInv ==
    /\ Unborn /\ Unanswered /\ (\A u \in Upload : TransferOK(u))
    /\ WholeFiles /\ NoSweepNoVictim

(* A step of one transfer does not touch the files of another one's path,  *)
(* if that other one is in flight.                                         *)
LEMMA Bystander ==
    ASSUME CleanTargets, ArchiveTypeOK, PathsApart, NEW u \in Upload, NEW v \in Upload,
           u # v, ~IsProbe(target[u]), InFlight(u), Step(v)
    PROVE  /\ pc'[u] = pc[u] /\ fd'[u] = fd[u] /\ sent'[u] = sent[u]
           /\ UNCHANGED <<target, start>>
           /\ entry'[StagingOf(u)] = entry[StagingOf(u)]
           /\ \A j \in Upload : FinalOf(j) = FinalOf(u) => data'[j] = data[j]
<1> USE TargetAssumption
<1>1. UNCHANGED <<target, start>>
  BY DEF Step, Put, CheckFinal, CheckFails, StatStaging, CreateParent, OpenFile, OpenFails, WriteBlock,
         EndOfInput, CopyError, Flush, HardLink, RemoveStaging, Abandon, DetachedEnds,
         requestVars
<1>2. pc'[u] = pc[u]
  BY DEF Step, Put, CheckFinal, CheckFails, StatStaging, CreateParent, OpenFile, OpenFails, WriteBlock,
         EndOfInput, CopyError, Flush, HardLink, RemoveStaging, Abandon, DetachedEnds,
         Goto, GotoWith, Finish, ArchiveTypeOK
<1>3. fd'[u] = fd[u] /\ sent'[u] = sent[u]
  BY DEF Step, Put, CheckFinal, CheckFails, StatStaging, CreateParent, OpenFile, OpenFails, WriteBlock,
         EndOfInput, CopyError, Flush, HardLink, RemoveStaging, Abandon, DetachedEnds,
         ArchiveTypeOK
<1>4. /\ StagingOf(u) \in Name /\ FinalOf(v) \in Name
      /\ FinalOf(v) # StagingOf(u)
      /\ InFlight(v) => FinalOf(v) # FinalOf(u) /\ StagingOf(v) # StagingOf(u)
  <2>1. StagingOf(u) \in Name /\ FinalOf(v) \in Name
    BY FinalName DEF StagingOf, FinalOf, ArchiveTypeOK
  <2>2. InFlight(v) => FinalOf(v) # FinalOf(u)
    BY DEF PathsApart, OneWriter
  <2> QED BY <2>1, <2>2, NameFacts
<1>5. CASE OpenFile(v)
  <2> DEFINE n == OpenName(v)
             j == IF entry[n] = NoFile THEN v ELSE entry[n]
  <2>1. /\ entry' = [entry EXCEPT ![n] = j] /\ InFlight(v)
        /\ \E b : data' = [data EXCEPT ![j] = b]
    BY <1>5 DEF OpenFile, InFlight
  <2>2. n = (IF IsProbe(target[v]) THEN FinalOf(v) ELSE StagingOf(v)) /\ n \in Name
    BY FinalName DEF OpenName, FinalOf, StagingOf, ArchiveTypeOK
  <2>3. j \in Upload /\ n \in {FinalOf(j), StagingOf(j)}
    BY <2>2 DEF PathsApart, OwnedNames, ArchiveTypeOK, Inode
  <2>4. n # StagingOf(u)
    BY <1>4, <2>1, <2>2
  <2> HIDE DEF n, j
  <2>5. FinalOf(j) = FinalOf(v)
    BY <2>2, <2>3, NameFacts
  <2> QED BY <1>1, <1>2, <1>3, <1>4, <2>1, <2>3, <2>4, <2>5 DEF ArchiveTypeOK, Inode
<1>6. CASE WriteBlock(v)
  <2>1. /\ entry' = entry /\ InFlight(v) /\ pc[v] \in {"copy", "detached"}
        /\ \E b : data' = [data EXCEPT ![fd[v]] = b]
    BY <1>6 DEF WriteBlock, InFlight
  <2>2. FinalOf(fd[v]) = FinalOf(v)
    BY <2>1 DEF ArchiveTypeOK, PathsApart, OwnedHandles
  <2> QED BY <1>1, <1>2, <1>3, <1>4, <2>1, <2>2 DEF ArchiveTypeOK, Inode
<1>7. CASE HardLink(v)
  <2>1. data' = data /\ (entry' = entry \/ \E b : entry' = [entry EXCEPT ![FinalOf(v)] = b])
    BY <1>7 DEF HardLink
  <2> QED BY <1>1, <1>2, <1>3, <1>4, <2>1 DEF ArchiveTypeOK
<1>8. CASE RemoveStaging(v)
  <2>1. data' = data /\ InFlight(v) /\ entry' = [entry EXCEPT ![StagingOf(v)] = NoFile]
    BY <1>8 DEF RemoveStaging, InFlight
  <2> QED BY <1>1, <1>2, <1>3, <1>4, <2>1 DEF ArchiveTypeOK
<1>9. CASE ~(OpenFile(v) \/ WriteBlock(v) \/ HardLink(v) \/ RemoveStaging(v))
  <2>1. data' = data /\ entry' = entry
    BY <1>9 DEF Step, Put, CheckFinal, CheckFails, StatStaging, CreateParent, OpenFails,
                EndOfInput, CopyError, Flush, Abandon, DetachedEnds, fsVars
  <2> QED BY <1>1, <1>2, <1>3, <2>1
<1> QED BY <1>5, <1>6, <1>7, <1>8, <1>9

(* The file a staging name is bound to, and the file a transfer has open,  *)
(* are files of that path.                                                 *)
LEMMA OwnFiles ==
    ASSUME CleanTargets, ArchiveTypeOK, PathsApart, NEW u \in Upload, ~IsProbe(target[u])
    PROVE  /\ StagingOf(u) \in Name
           /\ entry[StagingOf(u)] # NoFile =>
                 entry[StagingOf(u)] \in Upload /\ FinalOf(entry[StagingOf(u)]) = FinalOf(u)
           /\ fd[u] # NoFile => fd[u] \in Upload /\ FinalOf(fd[u]) = FinalOf(u)
<1>1. StagingOf(u) \in Name
  BY FinalName DEF StagingOf, FinalOf, ArchiveTypeOK
<1>2. ASSUME NEW j \in Upload, j = entry[StagingOf(u)] PROVE FinalOf(j) = FinalOf(u)
  <2>1. StagingOf(u) \in {FinalOf(j), StagingOf(j)}
    BY <1>1, <1>2, TargetAssumption DEF PathsApart, OwnedNames
  <2> QED BY <2>1, NameFacts
<1> QED BY <1>1, <1>2 DEF ArchiveTypeOK, Inode, PathsApart, OwnedHandles

LEMMA BystanderOK ==
    ASSUME CleanTargets, ArchiveTypeOK, PathsApart, NEW u \in Upload, NEW v \in Upload,
           u # v, Step(v), TransferOK(u)
    PROVE  TransferOK(u)'
<1>1. UNCHANGED <<target, start>> /\ pc'[u] = pc[u]
  BY DEF Step, Put, CheckFinal, CheckFails, StatStaging, CreateParent, OpenFile, OpenFails, WriteBlock,
         EndOfInput, CopyError, Flush, HardLink, RemoveStaging, Abandon, DetachedEnds,
         Goto, GotoWith, Finish, ArchiveTypeOK, requestVars
<1>2. CASE IsProbe(target[u])
  BY <1>1, <1>2 DEF TransferOK
<1>3. CASE ~InFlight(u)
  BY <1>1, <1>3 DEF TransferOK, EncryptedFromStart, OffsetStaysRight, SoleWriter, InFlight,
                    Busy
<1>4. CASE ~IsProbe(target[u]) /\ InFlight(u)
  <2>1. /\ fd'[u] = fd[u] /\ sent'[u] = sent[u]
        /\ entry'[StagingOf(u)] = entry[StagingOf(u)]
        /\ \A j \in Upload : FinalOf(j) = FinalOf(u) => data'[j] = data[j]
    BY <1>4, Bystander
  <2>2. StagingOf(u)' = StagingOf(u)
    BY <1>1 DEF StagingOf
  <2>3. StagedSize(u)' = StagedSize(u)
    BY <1>4, <2>1, <2>2, OwnFiles DEF StagedSize
  <2>4. SoleWriter(u)'
    <3> SUFFICES ASSUME pc[u] \in Busy
                 PROVE  /\ fd[u] \in Inode /\ entry[StagingOf(u)] \in {NoFile, fd[u]}
                        /\ Len(data'[fd[u]]) = start[u] + sent[u]
      BY <1>1, <2>1, <2>2 DEF SoleWriter
    <3>1. SoleWriter(u)
      BY <1>4 DEF TransferOK
    <3>2. fd[u] \in Inode /\ data'[fd[u]] = data[fd[u]]
      BY <1>4, <2>1, <3>1, OwnFiles, TargetAssumption DEF SoleWriter, Inode
    <3> QED BY <3>1, <3>2 DEF SoleWriter
  <2>5. EncryptedFromStart(u)' /\ OffsetStaysRight(u)'
    BY <1>1, <1>4, <2>3 DEF TransferOK, EncryptedFromStart, OffsetStaysRight, InFlight
  <2> QED BY <2>4, <2>5 DEF TransferOK
<1> QED BY <1>2, <1>3, <1>4

(* The steps that move a transfer on without touching a file. *)
LEMMA MoveOK ==
    ASSUME ArchiveTypeOK, NEW u \in Upload, NEW l, TransferOK(u),
           pc' = [pc EXCEPT ![u] = l],
           UNCHANGED <<entry, data, requestVars, fd, sent>>,
           Encryption /\ ~IsProbe(target[u]) /\ l \notin {"new", "done"} =>
               InFlight(u) \/ start[u] = 0,
           ~Encryption /\ l \in {"mkdir", "open"} =>
               pc[u] \in {"mkdir", "open"} \/ StagedSize(u) = start[u] \/ IsProbe(target[u]),
           l \in Busy => pc[u] \in Busy
    PROVE  TransferOK(u)'
<1>1. pc'[u] = l /\ UNCHANGED <<target, start>>
  BY DEF ArchiveTypeOK, requestVars
<1>2. StagingOf(u)' = StagingOf(u) /\ StagedSize(u)' = StagedSize(u)
  BY <1>1 DEF StagingOf, StagedSize
<1>3. CASE IsProbe(target[u])
  BY <1>1, <1>3 DEF TransferOK
<1>4. CASE ~IsProbe(target[u])
  <2>1. EncryptedFromStart(u)'
    BY <1>1, <1>4 DEF TransferOK, EncryptedFromStart, InFlight
  <2>2. OffsetStaysRight(u)'
    BY <1>1, <1>2, <1>4 DEF TransferOK, OffsetStaysRight
  <2>3. SoleWriter(u)'
    BY <1>1, <1>2, <1>4 DEF TransferOK, SoleWriter
  <2> QED BY <2>1, <2>2, <2>3 DEF TransferOK
<1> QED BY <1>3, <1>4

Whole(f) == \A k \in DOMAIN f : f[k] = k

(* Writing block n + 1 behind the n blocks of a file, by an append or at   *)
(* that position, is the same thing, and keeps the file whole.             *)
LEMMA BlockWritten ==
    ASSUME NEW f \in Seq(Nat), NEW n \in Nat, Len(f) = n,
           NEW g, g = Append(f, n + 1) \/ g = WriteAt(f, n + 1, n + 1)
    PROVE  Len(g) = n + 1 /\ (Whole(f) => Whole(g))
<1>1. DOMAIN f = 1..n
  BY LenProperties
<1>2. CASE g = Append(f, n + 1)
  <2>1. /\ Len(g) = n + 1 /\ DOMAIN g = 1..(n + 1)
        /\ \A k \in 1..n : g[k] = f[k]
        /\ g[n + 1] = n + 1
    BY <1>1, <1>2
  <2> QED BY <1>1, <2>1 DEF Whole
<1>3. CASE g = WriteAt(f, n + 1, n + 1)
  <2>1. g \in Seq(Nat)
    BY <1>3, WriteAtType
  <2>2. g = [i \in 1..(n + 1) |-> IF i = n + 1 THEN n + 1 ELSE IF i <= n THEN f[i] ELSE 0]
    BY <1>3 DEF WriteAt
  <2>3. DOMAIN g = 1..(n + 1) /\ n + 1 \in Nat
    BY <2>2
  <2>4. Len(g) = n + 1
    BY <2>1, <2>3, LenProperties
  <2>5. Whole(f) => Whole(g)
    BY <1>1, <2>2 DEF Whole
  <2> QED BY <2>4, <2>5
<1> QED BY <1>2, <1>3

(* Opening: the file is new, truncated, or as long as the offset. *)
LEMMA OpenOK ==
    ASSUME CleanTargets, ArchiveTypeOK, PathsApart, Unborn, NEW u \in Upload, TransferOK(u),
           OpenFile(u)
    PROVE  TransferOK(u)'
<1> USE TargetAssumption
<1> DEFINE n == OpenName(u)
           i == IF entry[n] = NoFile THEN u ELSE entry[n]
           fresh == i = u \/ Truncates(u)
<1>1. /\ entry' = [entry EXCEPT ![n] = i]
      /\ fd' = [fd EXCEPT ![u] = i]
      /\ data' = [data EXCEPT ![i] = IF fresh THEN <<>> ELSE @]
      /\ pc[u] = "open" /\ pc' = [pc EXCEPT ![u] = "copy"]
      /\ target' = target /\ start' = start /\ sent' = sent
  BY DEF OpenFile, Goto, requestVars
<1>2. pc'[u] = "copy" /\ sent[u] = 0 /\ start[u] \in Nat
  BY <1>1, BoundAssumption DEF ArchiveTypeOK, Unborn, Early
<1>3. CASE IsProbe(target[u])
  BY <1>1, <1>3 DEF TransferOK
<1>4. CASE ~IsProbe(target[u])
  <2>1. n = StagingOf(u) /\ n \in Name /\ StagingOf(u)' = StagingOf(u)
    BY <1>1, <1>4, OwnFiles DEF OpenName, StagingOf
  <2>2. i \in Upload
    BY <2>1 DEF ArchiveTypeOK, Inode
  <2>3. EncryptedFromStart(u) /\ OffsetStaysRight(u)
    BY <1>4 DEF TransferOK
  <2>4. Len(data'[i]) = start[u]
    <3>1. CASE Encryption
      <4>1. start[u] = 0
        BY <1>1, <2>3, <3>1 DEF EncryptedFromStart, InFlight
      <4>2. data'[i] = <<>>
        BY <1>1, <2>2, <3>1 DEF Truncates, ArchiveTypeOK, Inode
      <4> QED BY <4>1, <4>2
    <3>2. CASE ~Encryption
      <4>1. StagedSize(u) = start[u]
        BY <1>1, <2>3, <3>2 DEF OffsetStaysRight
      <4>2. CASE entry[n] = NoFile
        <5>1. data'[i] = <<>>
          BY <1>1, <2>2, <4>2 DEF ArchiveTypeOK, Inode
        <5>2. start[u] = 0
          BY <2>1, <4>1, <4>2 DEF StagedSize
        <5> QED BY <5>1, <5>2
      <4>3. CASE entry[n] # NoFile
        <5>1. i = entry[n] /\ i # u /\ ~fresh
          BY <1>1, <1>4, <2>1, <3>2, <4>3 DEF Unborn, Early, Truncates
        <5>2. data'[i] = data[i]
          BY <1>1, <2>2, <5>1 DEF ArchiveTypeOK, Inode
        <5>3. StagedSize(u) = Len(data[i])
          BY <2>1, <4>3, <5>1 DEF StagedSize
        <5> QED BY <4>1, <5>2, <5>3
      <4> QED BY <4>2, <4>3
    <3> QED BY <3>1, <3>2
  <2> HIDE DEF i, n
  <2>5. fd'[u] = i /\ entry'[StagingOf(u)] = i
    BY <1>1, <2>1 DEF ArchiveTypeOK
  <2>6. SoleWriter(u)'
    BY <1>1, <1>2, <2>1, <2>2, <2>4, <2>5 DEF SoleWriter, Inode
  <2>7. EncryptedFromStart(u)' /\ OffsetStaysRight(u)'
    BY <1>1, <1>2, <2>3 DEF EncryptedFromStart, OffsetStaysRight, InFlight
  <2> QED BY <2>6, <2>7 DEF TransferOK
<1> QED BY <1>3, <1>4

(* Writing a block, as the only writer of the file. *)
LEMMA WriteOK ==
    ASSUME ArchiveTypeOK, NEW u \in Upload, ~IsProbe(target[u]), TransferOK(u), WriteBlock(u)
    PROVE  /\ TransferOK(u)'
           /\ Whole(data[fd[u]]) => Whole(data'[fd[u]])
<1> DEFINE f == data[fd[u]]
           n == start[u] + sent[u]
<1>1. /\ pc[u] \in {"copy", "detached"} /\ sent' = [sent EXCEPT ![u] = @ + 1]
      /\ data' = [data EXCEPT ![fd[u]] = IF Truncates(u) THEN WriteAt(f, sent[u] + 1, sent[u] + 1)
                                         ELSE Append(f, start[u] + sent[u] + 1)]
      /\ UNCHANGED <<entry, target, start, pc, fd>>
  BY DEF WriteBlock, requestVars
<1>2. /\ fd[u] \in Inode /\ entry[StagingOf(u)] \in {NoFile, fd[u]} /\ Len(f) = n
      /\ EncryptedFromStart(u) /\ OffsetStaysRight(u)
  BY <1>1 DEF TransferOK, SoleWriter, Busy
<1>3. f \in Seq(Nat) /\ sent[u] \in Nat /\ start[u] \in Nat /\ n \in Nat
  <2>1. sent[u] \in 0..MaxBlocks /\ start[u] \in Offset
    BY DEF ArchiveTypeOK
  <2>2. sent[u] \in Nat /\ start[u] \in Nat
    BY <2>1, CountsAreNaturals
  <2>3. f \in Seq(Nat)
    BY <1>2 DEF ArchiveTypeOK
  <2> QED BY <2>2, <2>3
<1>4. data'[fd[u]] = Append(f, n + 1) \/ data'[fd[u]] = WriteAt(f, n + 1, n + 1)
  <2>1. CASE Truncates(u)
    <3>1. start[u] = 0
      BY <1>1, <1>2, <2>1 DEF Truncates, EncryptedFromStart, InFlight
    <3>2. n = sent[u]
      BY <1>3, <3>1
    <3>3. data'[fd[u]] = WriteAt(f, sent[u] + 1, sent[u] + 1)
      BY <1>1, <1>2, <2>1 DEF ArchiveTypeOK
    <3> QED BY <3>2, <3>3
  <2>2. CASE ~Truncates(u)
    BY <1>1, <1>2, <2>2 DEF ArchiveTypeOK
  <2> QED BY <2>1, <2>2
<1> HIDE DEF f
<1>5. Len(data'[fd[u]]) = n + 1 /\ (Whole(f) => Whole(data'[fd[u]]))
  <2> HIDE DEF n
  <2> QED BY <1>2, <1>3, <1>4, BlockWritten
<1>6. SoleWriter(u)'
  <2>1. sent'[u] = sent[u] + 1
    BY <1>1 DEF ArchiveTypeOK
  <2>2. Len(data'[fd[u]]) = start[u] + sent'[u]
    <3>1. n + 1 = start[u] + (sent[u] + 1)
      BY <1>3
    <3> HIDE DEF n
    <3> QED BY <1>5, <2>1, <3>1
  <2> QED BY <1>1, <1>2, <2>2 DEF SoleWriter, StagingOf
<1>7. EncryptedFromStart(u)' /\ OffsetStaysRight(u)'
  BY <1>1, <1>2 DEF EncryptedFromStart, OffsetStaysRight, InFlight
<1> QED BY <1>1, <1>5, <1>6, <1>7 DEF TransferOK, f

LEMMA ActingOK ==
    ASSUME CleanTargets, ArchiveTypeOK, PathsApart, Unborn, NEW u \in Upload, TransferOK(u),
           Step(u)
    PROVE  TransferOK(u)'
<1> USE DEF Goto, Finish, GotoWith
<1>1. CASE Put(u)
  BY <1>1, MoveOK DEF Put, fsVars, Busy
<1>2. CASE CheckFinal(u)
  BY <1>2, MoveOK DEF CheckFinal, fsVars, Busy, InFlight
<1>2a. CASE CheckFails(u)
  BY <1>2a, MoveOK DEF CheckFails, fsVars, Busy, InFlight
<1>3. CASE StatStaging(u)
  <2>1. CASE ClassifyOffset(start[u], StagedSize(u)) = "ok"
    <3>1. pc' = [pc EXCEPT ![u] = "mkdir"]
      BY <1>3, <2>1 DEF StatStaging, StagedSize
    <3>2. start[u] = StagedSize(u)
      BY <2>1 DEF ClassifyOffset
    <3> QED BY <1>3, <3>1, <3>2, MoveOK DEF StatStaging, fsVars, Busy, InFlight
  <2>2. CASE ClassifyOffset(start[u], StagedSize(u)) # "ok"
    <3>1. pc' = [pc EXCEPT ![u] = "unlink"]
      BY <1>3, <2>2 DEF StatStaging, StagedSize
    <3> QED BY <1>3, <3>1, MoveOK DEF StatStaging, fsVars, Busy, InFlight
  <2> QED BY <2>1, <2>2
<1>4. CASE CreateParent(u)
  BY <1>4, MoveOK DEF CreateParent, Busy, InFlight
<1>5. CASE OpenFile(u)
  BY <1>5, OpenOK
<1>6. CASE OpenFails(u)
  BY <1>6, MoveOK DEF OpenFails, fsVars, Busy
<1>7. CASE WriteBlock(u)
  <2>1. CASE IsProbe(target[u])
    BY <1>7, <2>1 DEF WriteBlock, requestVars, TransferOK
  <2>2. CASE ~IsProbe(target[u])
    BY <1>7, <2>2, WriteOK
  <2> QED BY <2>1, <2>2
<1>8. CASE EndOfInput(u)
  BY <1>8, MoveOK DEF EndOfInput, fsVars, Busy, InFlight
<1>9. CASE CopyError(u)
  BY <1>9, MoveOK DEF CopyError, fsVars, Busy, InFlight
<1>10. CASE Flush(u)
  BY <1>10, MoveOK DEF Flush, fsVars, Busy, InFlight
<1>11. CASE HardLink(u) \/ RemoveStaging(u)
  <2>1. /\ pc[u] \in {"link", "unlink"} /\ UNCHANGED <<target, start>>
        /\ pc' = [pc EXCEPT ![u] = "unlink"] \/ pc' = [pc EXCEPT ![u] = "done"]
    BY <1>11 DEF HardLink, RemoveStaging, requestVars
  <2>2. pc'[u] \in {"unlink", "done"} /\ InFlight(u)
    BY <2>1 DEF ArchiveTypeOK, InFlight
  <2> QED BY <2>1, <2>2 DEF TransferOK, EncryptedFromStart, OffsetStaysRight, SoleWriter, Busy
<1>12. CASE Abandon(u)
  BY <1>12, MoveOK DEF Abandon, fsVars, Busy, InFlight
<1>13. CASE DetachedEnds(u)
  BY <1>13, MoveOK DEF DetachedEnds, fsVars, Busy, InFlight
<1> HIDE DEF Goto, Finish, GotoWith
<1> QED
  BY <1>1, <1>2, <1>2a, <1>3, <1>4, <1>5, <1>6, <1>7, <1>8, <1>9, <1>10, <1>11, <1>12,
     <1>13 DEF Step

(* A transfer takes the answer with the step that sends it out. *)
LEMMA AnswerStep ==
    ASSUME ArchiveTypeOK, Unanswered, NEW u \in Upload, Step(u)
    PROVE  Unanswered'
<1>1. ASSUME NEW l \in Label, pc' = [pc EXCEPT ![u] = l], verdict' = verdict,
             pc[u] # "done", pc[u] = "unlink" => l = "done"
      PROVE  Unanswered'
  <2> SUFFICES ASSUME NEW v \in Upload, pc'[v] \notin {"unlink", "done"}
               PROVE  verdict[v] = "none"
    BY <1>1 DEF Unanswered
  <2>1. pc[v] \notin {"unlink", "done"}
    BY <1>1 DEF ArchiveTypeOK
  <2> QED BY <2>1 DEF Unanswered
<1>2. CASE \E l \in {"unlink", "done"}, v \in Verdict : GotoWith(u, l, v)
  BY <1>2 DEF GotoWith, Unanswered, ArchiveTypeOK
<1> USE DEF Goto, Finish, Label, Verdict
<1>3. CASE Put(u)
  BY <1>1, <1>2, <1>3 DEF Put
<1>4. CASE CheckFinal(u) \/ CheckFails(u) \/ CreateParent(u)
  BY <1>1, <1>2, <1>4 DEF CheckFinal, CheckFails, CreateParent
<1>5. CASE StatStaging(u)
  BY <1>1, <1>2, <1>5 DEF StatStaging, ClassifyOffset
<1>6. CASE OpenFile(u)
  BY <1>1, <1>6 DEF OpenFile
<1>7. CASE OpenFails(u) \/ CopyError(u)
  BY <1>2, <1>7 DEF OpenFails, CopyError
<1>8. CASE WriteBlock(u)
  BY <1>8 DEF WriteBlock, Unanswered
<1>9. CASE EndOfInput(u) \/ Flush(u)
  BY <1>1, <1>2, <1>9 DEF EndOfInput, Flush
<1>10. CASE HardLink(u)
  BY <1>2, <1>10 DEF HardLink
<1>11. CASE RemoveStaging(u)
  BY <1>1, <1>11 DEF RemoveStaging
<1>12. CASE Abandon(u) \/ DetachedEnds(u)
  BY <1>1, <1>2, <1>12 DEF Abandon, DetachedEnds, InFlight
<1> HIDE DEF Goto, Finish, Label, Verdict
<1> QED
  BY <1>3, <1>4, <1>5, <1>6, <1>7, <1>8, <1>9, <1>10, <1>11, <1>12 DEF Step

(* Every transfer makes at most one file, and that by its own open. *)
LEMMA UnbornStep ==
    ASSUME ArchiveTypeOK, Unborn, NEW u \in Upload, Step(u)
    PROVE  Unborn'
<1> USE TargetAssumption
<1>1. ASSUME NEW w \in Upload, pc'[w] \in Early
      PROVE  /\ pc[w] \in Early
             /\ w = u => ~OpenFile(u)
             /\ w = u => ~WriteBlock(u)
  <2>1. CASE w # u
    BY <1>1, <2>1
    DEF Step, Put, CheckFinal, CheckFails, StatStaging, CreateParent, OpenFile, OpenFails, WriteBlock,
        EndOfInput, CopyError, Flush, HardLink, RemoveStaging, Abandon, DetachedEnds,
        Goto, GotoWith, Finish, ArchiveTypeOK
  <2>2. CASE w = u
    <3>1. CASE pc[u] \in Early
      BY <1>1, <2>2, <3>1 DEF OpenFile, WriteBlock, Goto, Early, ArchiveTypeOK
    <3>2. CASE pc[u] \notin Early
      BY <1>1, <2>2, <3>2
      DEF Step, Put, CheckFinal, CheckFails, StatStaging, CreateParent, OpenFile, OpenFails, WriteBlock,
          EndOfInput, CopyError, Flush, HardLink, RemoveStaging, Abandon, DetachedEnds,
          Goto, GotoWith, Finish, ArchiveTypeOK, Early
    <3> QED BY <3>1, <3>2
  <2> QED BY <2>1, <2>2
<1> SUFFICES ASSUME NEW w \in Upload, pc'[w] \in Early
             PROVE  /\ sent'[w] = 0
                    /\ \A n \in Name : entry'[n] # w
                    /\ \A v \in Upload : fd'[v] # w
  BY DEF Unborn
<1>2. /\ pc[w] \in Early /\ sent[w] = 0
      /\ \A n \in Name : entry[n] # w
      /\ \A v \in Upload : fd[v] # w
  BY <1>1 DEF Unborn
<1>3. CASE OpenFile(u)
  <2> DEFINE n == OpenName(u)
             i == IF entry[n] = NoFile THEN u ELSE entry[n]
  <2>1. /\ entry' = [entry EXCEPT ![n] = i] /\ fd' = [fd EXCEPT ![u] = i] /\ sent' = sent
    BY <1>3 DEF OpenFile
  <2>2. n \in Name
    BY FinalName DEF OpenName, FinalOf, StagingOf, ArchiveTypeOK
  <2>3. i # w
    BY <1>1, <1>2, <1>3, <2>2
  <2> HIDE DEF i
  <2> QED BY <1>2, <2>1, <2>3 DEF ArchiveTypeOK
<1>4. CASE WriteBlock(u)
  BY <1>1, <1>2, <1>4 DEF WriteBlock, ArchiveTypeOK
<1>5. CASE HardLink(u)
  <2>1. ~IsProbe(target[u])
    BY <1>5 DEF HardLink, ArchiveTypeOK
  <2>2. StagingOf(u) \in Name
    BY <2>1, FinalName DEF FinalOf, StagingOf, ArchiveTypeOK
  <2>3. /\ fd' = fd /\ sent' = sent
        /\ entry' = entry \/ entry' = [entry EXCEPT ![FinalOf(u)] = entry[StagingOf(u)]]
    BY <1>5 DEF HardLink
  <2> QED BY <1>2, <2>2, <2>3 DEF ArchiveTypeOK
<1>6. CASE RemoveStaging(u)
  BY <1>2, <1>6 DEF RemoveStaging, ArchiveTypeOK
<1>7. CASE ~(OpenFile(u) \/ WriteBlock(u) \/ HardLink(u) \/ RemoveStaging(u))
  <2>1. entry' = entry /\ fd' = fd /\ sent' = sent
    BY <1>7 DEF Step, Put, CheckFinal, CheckFails, StatStaging, CreateParent, OpenFails,
                EndOfInput, CopyError, Flush, Abandon, DetachedEnds, fsVars
  <2> QED BY <1>2, <2>1
<1> QED BY <1>3, <1>4, <1>5, <1>6, <1>7

LEMMA WholeStep ==
    ASSUME CleanTargets, ArchiveTypeOK, PathsApart, WholeFiles, NEW u \in Upload,
           TransferOK(u), Step(u)
    PROVE  WholeFiles'
<1> USE TargetAssumption
<1>1. target' = target
  BY DEF Step, Put, CheckFinal, CheckFails, StatStaging, CreateParent, OpenFile, OpenFails, WriteBlock,
         EndOfInput, CopyError, Flush, HardLink, RemoveStaging, Abandon, DetachedEnds,
         requestVars
<1> SUFFICES ASSUME NEW i \in Inode, ~IsProbe(target[i]) PROVE Whole(data'[i])
  BY <1>1 DEF WholeFiles, Whole
<1>2. Whole(data[i])
  BY DEF WholeFiles, Whole
<1>3. CASE OpenFile(u)
  <2>1. \E j, f : data' = [data EXCEPT ![j] = IF f THEN <<>> ELSE @]
    BY <1>3 DEF OpenFile
  <2>2. data'[i] = data[i] \/ data'[i] = <<>>
    BY <2>1 DEF ArchiveTypeOK
  <2> QED BY <1>2, <2>2 DEF Whole
<1>4. CASE WriteBlock(u)
  <2>1. /\ pc[u] \in {"copy", "detached"}
        /\ \E b : data' = [data EXCEPT ![fd[u]] = b]
    BY <1>4 DEF WriteBlock
  <2>2. CASE i = fd[u]
    <3>1. FinalOf(i) = FinalOf(u) /\ i \in Upload
      BY <2>1, <2>2 DEF ArchiveTypeOK, PathsApart, OwnedHandles, Inode
    <3>2. ~IsProbe(target[u])
      BY <3>1, NameFacts
    <3> QED BY <1>2, <1>4, <2>2, <3>2, WriteOK
  <2>3. CASE i # fd[u]
    BY <1>2, <2>1, <2>3 DEF ArchiveTypeOK
  <2> QED BY <2>2, <2>3
<1>5. CASE ~OpenFile(u) /\ ~WriteBlock(u)
  <2>1. data' = data
    BY <1>5 DEF Step, Put, CheckFinal, CheckFails, StatStaging, CreateParent, OpenFails,
         EndOfInput, CopyError, Flush, HardLink, RemoveStaging, Abandon, DetachedEnds, fsVars
  <2> QED BY <1>2, <2>1
<1> QED BY <1>3, <1>4, <1>5

(* Steps that leave the files and the transfers as they are. *)
LEMMA DataFrame ==
    ASSUME DataInv, UNCHANGED <<entry, data, requestVars, uploadVars>>
    PROVE  Unborn' /\ Unanswered' /\ (\A u \in Upload : TransferOK(u)') /\ WholeFiles'
<1>1. UNCHANGED <<entry, data, target, start, pc, verdict, fd, sent>>
  BY DEF requestVars, uploadVars
<1>2. Unborn' /\ Unanswered' /\ WholeFiles'
  BY <1>1 DEF DataInv, Unborn, Unanswered, WholeFiles
<1>3. ASSUME NEW u \in Upload PROVE TransferOK(u)'
  BY <1>1 DEF DataInv, TransferOK, EncryptedFromStart, OffsetStaysRight, SoleWriter,
              StagedSize, StagingOf, InFlight
<1> QED BY <1>2, <1>3

(* The sweep may take a staging file away, but then no transfer resumes. *)
LEMMA DataSweepRemove ==
    ASSUME ResumeSafe, ArchiveTypeOK, DataInv, SweepRemove
    PROVE  DataInv'
<1>1. /\ victim # NoFile /\ entry' = [entry EXCEPT ![victim] = NoFile] /\ victim' = NoFile
      /\ UNCHANGED <<data, target, start, pc, verdict, fd, sent>>
  BY DEF SweepRemove, requestVars, uploadVars
<1>2. Cleanup
  BY <1>1 DEF DataInv, NoSweepNoVictim
<1>3. \A n : n \in Name => entry'[n] = entry[n] \/ entry'[n] = NoFile
  BY <1>1 DEF ArchiveTypeOK
<1>4. Unborn'
  <2>1. \A u \in Upload : u # NoFile
    BY TargetAssumption
  <2> QED BY <1>1, <1>3, <2>1 DEF DataInv, Unborn
<1>5. Unanswered' /\ WholeFiles' /\ NoSweepNoVictim'
  BY <1>1, <1>2 DEF DataInv, Unanswered, WholeFiles, NoSweepNoVictim
<1>6. ASSUME NEW u \in Upload PROVE TransferOK(u)'
  <2>1. CASE IsProbe(target[u])
    BY <1>1, <2>1 DEF TransferOK
  <2>2. CASE ~IsProbe(target[u])
    <3>1. StagingOf(u) \in Name /\ StagingOf(u)' = StagingOf(u)
      BY <1>1, <2>2, FinalName DEF StagingOf, FinalOf, ArchiveTypeOK
    <3>2. entry'[StagingOf(u)] = entry[StagingOf(u)] \/ entry'[StagingOf(u)] = NoFile
      BY <1>3, <3>1
    <3>3. start[u] = 0
      BY <1>2 DEF ResumeSafe, ArchiveTypeOK
    <3>4. EncryptedFromStart(u) /\ OffsetStaysRight(u) /\ SoleWriter(u)
      BY <2>2 DEF DataInv, TransferOK
    <3>5. StagedSize(u)' = StagedSize(u) \/ StagedSize(u)' = 0
      BY <1>1, <3>1, <3>2 DEF StagedSize
    <3>6. EncryptedFromStart(u)' /\ OffsetStaysRight(u)'
      BY <1>1, <3>3, <3>4, <3>5 DEF EncryptedFromStart, OffsetStaysRight, InFlight
    <3>7. SoleWriter(u)'
      BY <1>1, <3>1, <3>2, <3>4 DEF SoleWriter
    <3> QED BY <3>6, <3>7 DEF TransferOK
  <2> QED BY <2>1, <2>2
<1> QED BY <1>4, <1>5, <1>6 DEF DataInv

LEMMA DataInductive ==
    ASSUME CleanTargets, ResumeSafe
    PROVE  ArchiveTypeOK /\ PathsApart /\ DataInv /\ [Next]_vars => DataInv'
<1> SUFFICES ASSUME ArchiveTypeOK, PathsApart, DataInv, [Next]_vars PROVE DataInv'
  OBVIOUS
<1>1. ASSUME NEW u \in Upload, Step(u) PROVE DataInv'
  <2>1. Unborn' /\ Unanswered' /\ WholeFiles'
    BY <1>1, UnbornStep, AnswerStep, WholeStep DEF DataInv
  <2>2. ASSUME NEW v \in Upload PROVE TransferOK(v)'
    BY <1>1, ActingOK, BystanderOK DEF DataInv
  <2>3. sweepAt' = sweepAt /\ victim' = victim
    BY <1>1 DEF Step, Put, CheckFinal, CheckFails, StatStaging, CreateParent, OpenFile, OpenFails,
                WriteBlock, EndOfInput, CopyError, Flush, HardLink, RemoveStaging,
                Abandon, DetachedEnds, sweepVars
  <2>4. NoSweepNoVictim'
    BY <2>3 DEF DataInv, NoSweepNoVictim
  <2> QED BY <2>1, <2>2, <2>4 DEF DataInv
<1>2. CASE UNCHANGED <<entry, data, requestVars, uploadVars>> /\ NoSweepNoVictim'
  BY <1>2, DataFrame DEF DataInv
<1>3. ASSUME NEW d \in Dir, Mkd(d) PROVE DataInv'
  BY <1>2, <1>3 DEF Mkd, sweepVars, DataInv, NoSweepNoVictim
<1>4. CASE EnsureHomeDirs \/ Tick
  BY <1>2, <1>4 DEF EnsureHomeDirs, Tick, sweepVars, DataInv, NoSweepNoVictim
<1>5. CASE Restart
  <2>1. /\ \A u \in Upload : IF InFlight(u) THEN pc'[u] = "done"
                             ELSE pc'[u] = pc[u] /\ verdict'[u] = verdict[u]
        /\ UNCHANGED <<entry, data, target, start, fd, sent, sweepAt, victim>>
    BY <1>5 DEF Restart, requestVars, sweepVars
  <2>2. Unborn' /\ Unanswered' /\ WholeFiles' /\ NoSweepNoVictim'
    BY <2>1 DEF DataInv, Unborn, Unanswered, WholeFiles, NoSweepNoVictim, Early, InFlight
  <2>3. \A u \in Upload : pc'[u] \in {"new", "done"}
    BY <2>1 DEF InFlight
  <2>4. \A u \in Upload : TransferOK(u)'
    BY <2>3 DEF TransferOK, EncryptedFromStart, OffsetStaysRight, SoleWriter, InFlight, Busy
  <2> QED BY <2>2, <2>4 DEF DataInv
<1>6. CASE Sweep
  <2>1. CASE SweepRemove
    BY <2>1, DataSweepRemove
  <2>2. CASE ~SweepRemove
    <3>1. UNCHANGED <<entry, data, requestVars, uploadVars>>
      BY <1>6, <2>2
      DEF Sweep, SweepStart, SweepEnter, SweepExamine, SweepAborts, SweepLeave, fsVars
    <3>2. Cleanup \/ sweepAt # "none" \/ victim # NoFile
      BY <1>6, <2>2 DEF Sweep, SweepStart, SweepEnter, SweepExamine, SweepAborts, SweepLeave
    <3>3. NoSweepNoVictim'
      BY <3>2 DEF DataInv, NoSweepNoVictim
    <3> QED BY <1>2, <3>1, <3>3
  <2> QED BY <2>1, <2>2
<1>7. CASE UNCHANGED vars
  BY <1>2, <1>7 DEF vars, fsVars, sweepVars, DataInv, NoSweepNoVictim
<1> QED BY <1>1, <1>3, <1>4, <1>5, <1>6, <1>7 DEF Next

(* The strengthening holds throughout: what classify_offset saw is still   *)
(* true at the open, a transfer is the only writer of its staging file and *)
(* knows its length, and every file of a clip is whole.                    *)
THEOREM DataInvariant ==
    ASSUME CleanTargets, ExclusiveUploads, ResumeSafe
    PROVE  Spec => []DataInv
<1>1. Init => DataInv
  <2> SUFFICES ASSUME Init PROVE DataInv
    OBVIOUS
  <2>1. \A u \in Upload : pc[u] = "new" /\ verdict[u] = "none" /\ sent[u] = 0 /\ fd[u] = NoFile
    BY DEF Init
  <2>2. Unborn /\ Unanswered
    BY <2>1, TargetAssumption DEF Init, Unborn, Unanswered
  <2>3. \A u \in Upload : TransferOK(u)
    BY <2>1 DEF TransferOK, EncryptedFromStart, OffsetStaysRight, SoleWriter, InFlight, Busy
  <2>4. WholeFiles /\ NoSweepNoVictim
    BY DEF Init, WholeFiles, NoSweepNoVictim
  <2> QED BY <2>2, <2>3, <2>4 DEF DataInv
<1>2. ArchiveTypeOK /\ PathsApart /\ DataInv /\ [Next]_vars => DataInv'
  BY DataInductive
<1> QED BY <1>1, <1>2, ArchiveTypeCorrect, PathsStayApart, PTL DEF Spec

(* The file under a clip's name is one a clip's transfer created. *)
LEMMA ClipFile ==
    ASSUME CleanTargets, ArchiveTypeOK, PathsApart, NEW c \in Clip, entry[c] # NoFile
    PROVE  entry[c] \in Inode /\ ~IsProbe(target[entry[c]])
<1> DEFINE i == entry[c]
<1>1. PICK t \in Target : c \in Name /\ ~IsProbe(t) /\ c = Final(t)
  BY ClipName
<1>2. i \in Upload /\ c \in {FinalOf(i), StagingOf(i)} /\ target[i] \in Target
  BY <1>1 DEF PathsApart, OwnedNames, ArchiveTypeOK, Inode
<1>3. c = FinalOf(i)
  BY <1>1, <1>2 DEF CleanTargets, StagingOf
<1>4. ~IsProbe(target[i])
  BY <1>1, <1>2, <1>3, ProbeApart DEF FinalOf
<1> QED BY <1>2, <1>4 DEF Inode

(* A finalised clip is a whole prefix of what the camera sent, however     *)
(* often it was interrupted and resumed, encrypted or not.                 *)
THEOREM FinalClipsWhole ==
    ASSUME CleanTargets, ExclusiveUploads, ResumeSafe
    PROVE  Spec => []ClipsWhole
<1>1. ArchiveTypeOK /\ PathsApart /\ DataInv => ClipsWhole
  BY ClipFile DEF DataInv, WholeFiles, ClipsWhole
<1> QED BY <1>1, ArchiveTypeCorrect, PathsStayApart, DataInvariant, PTL

(* An upload that is told it succeeded has its own file, with every block  *)
(* up to the last, under the final name at that moment.                    *)
THEOREM AcknowledgedUploadsStored ==
    ASSUME CleanTargets, ExclusiveUploads, ResumeSafe
    PROVE  Spec => AcknowledgedIsStored
<1>1. ArchiveTypeOK /\ PathsApart /\ DataInv /\ [Next]_vars =>
        [\A u \in Upload :
            (pc[u] = "link" /\ verdict'[u] = "ok") =>
               /\ entry'[FinalOf(u)] = fd[u]
               /\ Len(data[fd[u]]) = start[u] + sent[u]]_vars
  <2> SUFFICES ASSUME ArchiveTypeOK, PathsApart, DataInv, [Next]_vars,
                      NEW u \in Upload, pc[u] = "link", verdict'[u] = "ok"
               PROVE  /\ entry'[FinalOf(u)] = fd[u]
                      /\ Len(data[fd[u]]) = start[u] + sent[u]
    OBVIOUS
  <2>1. verdict[u] = "none"
    BY DEF DataInv, Unanswered
  <2>2. ~IsProbe(target[u])
    BY DEF ArchiveTypeOK
  <2>3. SoleWriter(u)
    BY <2>2 DEF DataInv, TransferOK
  <2>4. HardLink(u)
    <3>1. verdict' # verdict
      BY <2>1
    <3>2. ASSUME NEW v \in Upload, Step(v), v # u PROVE verdict'[u] = verdict[u]
      BY <3>2
      DEF Step, Put, CheckFinal, CheckFails, StatStaging, CreateParent, OpenFile, OpenFails, WriteBlock,
          EndOfInput, CopyError, Flush, HardLink, RemoveStaging, Abandon, DetachedEnds,
          Goto, GotoWith, Finish, ArchiveTypeOK
    <3>3. Step(u)
      <4>1. ASSUME NEW d \in Dir PROVE ~Mkd(d)
        BY <3>1 DEF Mkd, uploadVars
      <4>2. ~(EnsureHomeDirs \/ Tick \/ UNCHANGED vars)
        BY <3>1 DEF EnsureHomeDirs, Tick, uploadVars, vars
      <4>3. ~Sweep
        BY <3>1 DEF Sweep, SweepStart, SweepEnter, SweepExamine, SweepRemove, SweepAborts,
                    SweepLeave, uploadVars
      <4>4. ~Restart
        <5>1. Restart => verdict'[u] \in {"dropped", "none"}
          BY <2>1 DEF Restart
        <5> QED BY <5>1
      <4> QED BY <2>1, <3>2, <4>1, <4>2, <4>3, <4>4 DEF Next
    <3>4. ~Abandon(u)
      BY DEF Abandon, Goto, Finish, GotoWith, ArchiveTypeOK
    <3> QED
      BY <3>3, <3>4
      DEF Step, Put, CheckFinal, CheckFails, StatStaging, CreateParent, OpenFile, OpenFails, WriteBlock,
          EndOfInput, CopyError, Flush, RemoveStaging, DetachedEnds
  <2>5. FinalOf(u) \in Name
    BY FinalName DEF FinalOf, ArchiveTypeOK
  <2>6. entry' = [entry EXCEPT ![FinalOf(u)] = entry[StagingOf(u)]] /\ entry[StagingOf(u)] # NoFile
    BY <2>4 DEF HardLink, GotoWith, ArchiveTypeOK
  <2>7. entry[StagingOf(u)] = fd[u] /\ Len(data[fd[u]]) = start[u] + sent[u]
    BY <2>3, <2>6 DEF SoleWriter, Busy
  <2> QED BY <2>5, <2>6, <2>7 DEF ArchiveTypeOK
<1> QED
  BY <1>1, ArchiveTypeCorrect, PathsStayApart, DataInvariant, PTL
  DEF Spec, AcknowledgedIsStored
-----------------------------------------------------------------------------
(* The refinement.  A step of the detailed archive binds or unbinds at     *)
(* most one name, so at most one clip appears or goes.                     *)
LEMMA OneNameAtATime ==
    ASSUME ArchiveTypeOK, [Next]_vars
    PROVE  \E n : \A m \in Name : m # n => entry'[m] = entry[m]
<1>1. ASSUME NEW n, NEW i, entry' = [entry EXCEPT ![n] = i]
      PROVE  \E k : \A m \in Name : m # k => entry'[m] = entry[m]
  BY <1>1 DEF ArchiveTypeOK
<1>2. CASE entry' = entry
  BY <1>2
<1>3. ASSUME NEW u \in Upload, Step(u)
      PROVE  \E k : \A m \in Name : m # k => entry'[m] = entry[m]
  <2>1. CASE OpenFile(u)
    BY <1>1, <2>1 DEF OpenFile
  <2>2. CASE HardLink(u)
    BY <1>1, <1>2, <2>2 DEF HardLink
  <2>3. CASE RemoveStaging(u)
    BY <1>1, <2>3 DEF RemoveStaging
  <2>4. CASE ~(OpenFile(u) \/ HardLink(u) \/ RemoveStaging(u))
    BY <1>2, <1>3, <2>4
    DEF Step, Put, CheckFinal, CheckFails, StatStaging, CreateParent, OpenFails, WriteBlock, EndOfInput,
        CopyError, Flush, Abandon, DetachedEnds, fsVars
  <2> QED BY <2>1, <2>2, <2>3, <2>4
<1>4. ASSUME NEW d \in Dir, Mkd(d) PROVE entry' = entry
  BY <1>4 DEF Mkd
<1>5. CASE EnsureHomeDirs \/ Restart \/ Tick
  BY <1>2, <1>5 DEF EnsureHomeDirs, Restart, Tick
<1>6. CASE Sweep
  <2>1. CASE SweepRemove
    BY <1>1, <2>1 DEF SweepRemove
  <2>2. CASE ~SweepRemove
    BY <1>2, <1>6, <2>2
    DEF Sweep, SweepStart, SweepEnter, SweepExamine, SweepAborts, SweepLeave, fsVars
  <2> QED BY <2>1, <2>2
<1>7. CASE UNCHANGED vars
  BY <1>2, <1>7 DEF vars, fsVars
<1> QED BY <1>2, <1>3, <1>4, <1>5, <1>6, <1>7 DEF Next

(* A step of the archive publishes one clip, whole, lets one go, or        *)
(* changes nothing a client can see.                                       *)
LEMMA RefinementStep ==
    ASSUME CleanTargets, ArchiveTypeOK, StoreInv, SweepInv, [Next]_vars, ArchiveTypeOK',
           ClipsWhole'
    PROVE  [Abstract!Next]_ClipsSeen
<1>1. PICK n : \A m \in Name : m # n => entry'[m] = entry[m]
  BY OneNameAtATime
<1>2. ASSUME NEW c \in Clip, entry[c] = entry'[c] PROVE ClipsSeen'[c] = ClipsSeen[c]
  <2>1. CASE entry[c] = NoFile
    BY <1>2, <2>1 DEF ClipsSeen
  <2>2. CASE entry[c] # NoFile
    <3>1. ClipKept(c) /\ c \in Name
      BY <2>2, ClipStep, ClipName
    <3>2. data'[entry[c]] = data[entry[c]]
      BY <1>2, <2>2, <3>1 DEF ClipKept, SweepRemove, ArchiveTypeOK
    <3> QED BY <1>2, <2>2, <3>2 DEF ClipsSeen
  <2> QED BY <2>1, <2>2
<1>3. CASE \A c \in Clip : entry'[c] = entry[c]
  <2>1. ClipsSeen' = ClipsSeen
    BY <1>2, <1>3 DEF ClipsSeen
  <2> QED BY <2>1
<1>4. ASSUME NEW c \in Clip, entry'[c] # entry[c] PROVE Abstract!Next
  <2>1. \A d \in Clip : d # c => ClipsSeen'[d] = ClipsSeen[d]
    BY <1>1, <1>2, <1>4, ClipName
  <2>2. ClipsSeen' = [ClipsSeen EXCEPT ![c] = ClipsSeen'[c]]
    BY <2>1 DEF ClipsSeen
  <2>3. CASE entry[c] # NoFile
    <3>1. SweepRemove /\ victim = c /\ c \in Name
      BY <1>4, <2>3, ClipStep, ClipName DEF ClipKept
    <3>2. entry'[c] = NoFile
      BY <3>1 DEF SweepRemove, ArchiveTypeOK
    <3>3. ClipsSeen'[c] = NoFile
      BY <3>2 DEF ClipsSeen
    <3>4. c \in ClipsExpired
      BY <2>3, <3>1, VictimExpired DEF ClipsExpired, SweepRemove
    <3>5. Abstract!Expire(c)
      BY <2>2, <3>3, <3>4 DEF Abstract!Expire
    <3> QED BY <3>5 DEF Abstract!Next
  <2>4. CASE entry[c] = NoFile
    <3>1. entry'[c] # NoFile
      BY <1>4, <2>4
    <3>2. entry'[c] \in Inode
      BY <3>1, ClipName DEF ArchiveTypeOK
    <3>3. /\ data'[entry'[c]] \in Seq(Nat)
          /\ \A k \in DOMAIN data'[entry'[c]] : data'[entry'[c]][k] = k
      BY <3>1, <3>2 DEF ClipsWhole, ArchiveTypeOK
    <3>4. ClipsSeen[c] = NoFile /\ ClipsSeen'[c] = data'[entry'[c]]
      BY <2>4, <3>1 DEF ClipsSeen
    <3>5. Abstract!Whole(ClipsSeen'[c])
      BY <3>3, <3>4 DEF Abstract!Whole
    <3>6. Abstract!Publish(c)
      BY <2>2, <3>4, <3>5 DEF Abstract!Publish
    <3> QED BY <3>6 DEF Abstract!Next
  <2> QED BY <2>3, <2>4
<1> QED BY <1>3, <1>4

(* The staged, crash-prone archive implements the append-only one: to its  *)
(* clients a clip appears whole, by one step, is never altered, and goes   *)
(* only when it is past retention.  For encrypted uploads as long as the   *)
(* check of the final name does not fail.                                  *)
THEOREM ArchiveIsAppendOnly ==
    ASSUME CleanTargets, PlainTargets, ExclusiveUploads, CheckSafe, ResumeSafe
    PROVE  Spec => ImplementsAppendOnly
<1>1. Init => Abstract!Init
  <2> SUFFICES ASSUME Init PROVE Abstract!Init
    OBVIOUS
  <2>1. \A c \in Clip : entry[c] = NoFile
    BY ClipName DEF Init
  <2> QED BY <2>1 DEF Abstract!Init, ClipsSeen
<1>2. ArchiveTypeOK /\ StoreInv /\ SweepInv /\ [Next]_vars /\ ArchiveTypeOK' /\ ClipsWhole'
        => [Abstract!Next]_ClipsSeen
  BY RefinementStep
<1> QED
  BY <1>1, <1>2, ArchiveTypeCorrect, StoreInvariant, SweepInvariant, FinalClipsWhole, PTL
  DEF Spec, ImplementsAppendOnly, Abstract!Spec
=============================================================================
