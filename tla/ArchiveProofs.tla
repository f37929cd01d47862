--------------------------- MODULE ArchiveProofs ---------------------------
(***************************************************************************)
(* Proofs about Archive.tla, for any number of transfers, paths, offsets   *)
(* and blocks, with and without encryption and with the sweep running.     *)
(***************************************************************************)
EXTENDS Archive, SequenceTheorems, TLAPS

NameRecord == [in : Dir, stem : STRING, suffix : Seq(Suffix)]

(* Every name is a directory, a stem and a list of suffixes; where a       *)
(* target is stored keeps its stem.                                        *)
LEMMA FinalName ==
    ASSUME NEW t \in Target
    PROVE  /\ Final(t) \in NameRecord
           /\ Final(t).stem = t.stem
           /\ Final(t).in \in Dir
           /\ Final(t) \in Name
           /\ ~IsProbe(t) => Final(t) \in Clip /\ StagingPath(Final(t)) \in Name
<1>1. t \in NameRecord
  BY TargetAssumption DEF NameRecord
<1>2. Append(t.suffix, "age") \in Seq(Suffix)
  BY <1>1, AppendProperties DEF NameRecord, Suffix
<1>3. Final(t) \in NameRecord /\ Final(t).stem = t.stem /\ Final(t).in \in Dir
  BY <1>1, <1>2 DEF Final, AgeSuffix, NameRecord, Dir
<1>4. Final(t) \in Name /\ (~IsProbe(t) => Final(t) \in Clip)
  BY DEF Name, Clip
<1>5. ~IsProbe(t) => StagingPath(Final(t)) \in Name
  BY <1>4 DEF Name
<1> QED BY <1>3, <1>4, <1>5

(* A clip is stored under one of the names. *)
LEMMA ClipName ==
    ASSUME NEW c \in Clip
    PROVE  c \in Name /\ \E t \in Target : ~IsProbe(t) /\ c = Final(t)
BY DEF Clip, Name

(* Two names with the same staging path are the same name. *)
LEMMA StagingPathInjective ==
    ASSUME NEW m \in NameRecord, NEW n \in NameRecord, StagingPath(m) = StagingPath(n)
    PROVE  m = n
<1>1. Append(m.suffix, "partial") = Append(n.suffix, "partial")
  BY DEF StagingPath, NameRecord
<1>2. m.suffix = n.suffix
  BY <1>1, AppendProperties DEF NameRecord, Suffix
<1>3. m.in = n.in /\ m.stem = n.stem
  BY DEF StagingPath, NameRecord
<1> QED BY <1>2, <1>3 DEF NameRecord

(* A positioned write leaves a sequence of blocks. *)
LEMMA WriteAtType ==
    ASSUME NEW s \in Seq(Nat), NEW k \in Nat, NEW b \in Nat
    PROVE  WriteAt(s, k, b) \in Seq(Nat)
<1> DEFINE m == IF k > Len(s) THEN k ELSE Len(s)
           e(i) == IF i = k THEN b ELSE IF i <= Len(s) THEN s[i] ELSE 0
<1>1. m \in Nat
  BY LenProperties
<1>2. \A i \in 1..m : e(i) \in Nat
  BY LenProperties, ElementOfSeq
<1> HIDE DEF m, e
<1>3. [i \in 1..m |-> e(i)] \in Seq(Nat)
  BY <1>1, <1>2, IsASeq
<1> QED BY <1>3 DEF WriteAt, m, e

(* Offsets and block counts are natural numbers. *)
LEMMA CountsAreNaturals ==
    ASSUME NEW k \in 0..MaxBlocks, NEW pos \in Offset
    PROVE  k \in Nat /\ k + 1 \in Nat /\ pos \in Nat
BY BoundAssumption

LEMMA TypeInit == Init => ArchiveTypeOK
BY BoundAssumption DEF Init, ArchiveTypeOK, Dir, Label, Verdict

(* The steps that only move one transfer on: they change pc and verdict. *)
LEMMA TypeMove ==
    ASSUME ArchiveTypeOK, NEW u \in Upload, NEW l \in Label, NEW v \in Verdict,
           pc' = [pc EXCEPT ![u] = l],
           verdict' = verdict \/ verdict' = [verdict EXCEPT ![u] = v],
           l \in {"copy", "detached", "flush"} => fd[u] # NoFile,
           IsProbe(target[u]) => l \in {"new", "mkdir", "open", "copy", "done"},
           UNCHANGED <<fsVars, requestVars, fd, sent, sweepVars>>
    PROVE  ArchiveTypeOK'
BY DEF ArchiveTypeOK, fsVars, requestVars, sweepVars

LEMMA TypeStep ==
    ASSUME ArchiveTypeOK, NEW u \in Upload, Step(u)
    PROVE  ArchiveTypeOK'
<1> USE TargetAssumption, BoundAssumption
<1> USE DEF Label, Verdict, Goto, Finish, GotoWith
<1>0. /\ FinalOf(u) \in Name /\ FinalOf(u).in \in Dir
      /\ data \in [Inode -> Seq(Nat)] /\ u \in Inode
      /\ ~IsProbe(target[u]) => StagingOf(u) \in Name
  BY FinalName DEF FinalOf, StagingOf, ArchiveTypeOK, Inode
<1>1. CASE Put(u)
  BY <1>1, TypeMove DEF Put
<1>2. CASE CheckFinal(u)
  BY <1>2, TypeMove DEF CheckFinal, ArchiveTypeOK
<1>2a. CASE CheckFails(u)
  BY <1>2a, TypeMove DEF CheckFails, ArchiveTypeOK
<1>3. CASE StatStaging(u)
  BY <1>3, TypeMove DEF StatStaging, ClassifyOffset, ArchiveTypeOK
<1>4. CASE CreateParent(u)
  BY <1>0, <1>4 DEF CreateParent, CreateDirAll, ArchiveTypeOK, requestVars, sweepVars, Dir
<1>5. CASE OpenFile(u)
  <2> DEFINE i == IF entry[OpenName(u)] = NoFile THEN u ELSE entry[OpenName(u)]
             fresh == i = u \/ Truncates(u)
  <2>1. /\ entry' = [entry EXCEPT ![OpenName(u)] = i]
        /\ fd' = [fd EXCEPT ![u] = i]
        /\ data' = [data EXCEPT ![i] = IF fresh THEN <<>> ELSE @]
        /\ age' = [age EXCEPT ![i] = IF fresh THEN 0 ELSE @]
        /\ sweepAge' = [sweepAge EXCEPT ![i] = IF fresh THEN 0 ELSE @]
        /\ pc' = [pc EXCEPT ![u] = "copy"]
        /\ UNCHANGED <<verdict, dirs, target, start, sent, sweepAt, sweepDirs,
                       sweepFiles, victim>>
    BY <1>5 DEF OpenFile, requestVars
  <2>2. i \in Inode
    <3>1. CASE OpenName(u) \in Name
      BY <1>0, <3>1 DEF ArchiveTypeOK
    <3>2. CASE OpenName(u) \notin Name
      BY <1>0, <3>2 DEF OpenName, ArchiveTypeOK
    <3> QED BY <3>1, <3>2
  <2>3. \A s \in Seq(Nat) : (IF fresh THEN <<>> ELSE s) \in Seq(Nat)
    BY EmptySeq
  <2> HIDE DEF i, fresh
  <2>4. data' \in [Inode -> Seq(Nat)]
    BY <1>0, <2>1, <2>2, <2>3
  <2>5. /\ entry' \in [Name -> Inode \cup {NoFile}]
        /\ fd' \in [Upload -> Inode \cup {NoFile}]
    BY <2>1, <2>2 DEF ArchiveTypeOK
  <2>7. \A a \in 0..MaxAge : (IF fresh THEN 0 ELSE a) \in 0..MaxAge
    OBVIOUS
  <2>8. age \in [Inode -> 0..MaxAge] /\ sweepAge \in [Inode -> 0..MaxAge]
    BY DEF ArchiveTypeOK
  <2>9. age' \in [Inode -> 0..MaxAge] /\ sweepAge' \in [Inode -> 0..MaxAge]
    BY <2>1, <2>2, <2>7, <2>8
  <2>6. \A v \in Upload : pc'[v] \in {"copy", "detached", "flush"} => fd'[v] # NoFile
    BY <2>1, <2>2 DEF ArchiveTypeOK, Inode
  <2> QED BY <2>1, <2>4, <2>5, <2>6, <2>9 DEF ArchiveTypeOK
<1>6. CASE OpenFails(u)
  BY <1>6, TypeMove DEF OpenFails
<1>7. CASE WriteBlock(u)
  <2> DEFINE s == data[fd[u]]
             b == IF Truncates(u) THEN WriteAt(s, sent[u] + 1, sent[u] + 1)
                  ELSE Append(s, start[u] + sent[u] + 1)
  <2>0. fd[u] \in Inode
    BY <1>7 DEF WriteBlock, ArchiveTypeOK
  <2>1. sent[u] \in Nat /\ start[u] \in Nat /\ s \in Seq(Nat) /\ sent[u] + 1 \in Nat
    <3>1. sent[u] \in 0..MaxBlocks /\ start[u] \in Offset
      BY DEF ArchiveTypeOK
    <3>2. s \in Seq(Nat)
      BY <1>0, <2>0
    <3>3. sent[u] \in Nat /\ start[u] \in Nat /\ sent[u] + 1 \in Nat
      BY <3>1, CountsAreNaturals
    <3> QED BY <3>2, <3>3
  <2>2. b \in Seq(Nat)
    <3> HIDE DEF s
    <3>1. WriteAt(s, sent[u] + 1, sent[u] + 1) \in Seq(Nat)
      BY <2>1, WriteAtType
    <3>2. Append(s, start[u] + sent[u] + 1) \in Seq(Nat)
      BY <2>1, AppendProperties
    <3> QED BY <3>1, <3>2
  <2>3. data' = [data EXCEPT ![fd[u]] = b]
    BY <1>7 DEF WriteBlock
  <2> HIDE DEF b
  <2>4. data' \in [Inode -> Seq(Nat)]
    BY <1>0, <2>0, <2>2, <2>3
  <2>5. sent' \in [Upload -> 0..MaxBlocks]
    BY <1>7 DEF WriteBlock, ArchiveTypeOK
  <2> QED BY <1>7, <2>0, <2>4, <2>5 DEF WriteBlock, ArchiveTypeOK, requestVars
<1>8. CASE EndOfInput(u)
  <2>1. fd[u] # NoFile
    BY <1>8 DEF EndOfInput, ArchiveTypeOK
  <2> QED BY <1>8, <2>1, TypeMove DEF EndOfInput
<1>9. CASE CopyError(u)
  BY <1>9, TypeMove DEF CopyError, Truncates
<1>10. CASE Flush(u)
  BY <1>10, TypeMove DEF Flush, ArchiveTypeOK
<1>11. CASE HardLink(u)
  <2>1. CASE entry' = entry
    <3>1. UNCHANGED <<fsVars, requestVars, fd, sent, sweepVars>>
      BY <1>11, <2>1 DEF HardLink, fsVars
    <3>2. pc[u] = "link" /\ ~IsProbe(target[u])
      BY <1>11 DEF HardLink, ArchiveTypeOK
    <3>3. \E v \in Verdict : GotoWith(u, "unlink", v)
      BY <1>11 DEF HardLink
    <3> QED BY <3>1, <3>2, <3>3, TypeMove
  <2>2. CASE entry' = [entry EXCEPT ![FinalOf(u)] = entry[StagingOf(u)]]
             /\ GotoWith(u, "unlink", "ok") /\ entry[StagingOf(u)] # NoFile
    <3>1. entry[StagingOf(u)] \in Inode
      BY <1>0, <1>11, <2>2 DEF HardLink, ArchiveTypeOK
    <3>2. entry' \in [Name -> Inode \cup {NoFile}]
      BY <1>0, <2>2, <3>1 DEF ArchiveTypeOK
    <3>3. pc[u] = "link" /\ ~IsProbe(target[u])
      BY <1>11 DEF HardLink, ArchiveTypeOK
    <3> QED
      BY <1>11, <2>2, <3>2, <3>3 DEF HardLink, ArchiveTypeOK, requestVars, sweepVars
  <2> QED BY <1>11, <2>1, <2>2 DEF HardLink
<1>12. CASE RemoveStaging(u)
  BY <1>12 DEF RemoveStaging, ArchiveTypeOK, requestVars, sweepVars
<1>13. CASE Abandon(u)
  BY <1>13, TypeMove DEF Abandon, ArchiveTypeOK
<1>14. CASE DetachedEnds(u)
  BY <1>14, TypeMove DEF DetachedEnds, ArchiveTypeOK
<1> QED
  BY <1>1, <1>2, <1>2a, <1>3, <1>4, <1>5, <1>6, <1>7, <1>8, <1>9, <1>10, <1>11, <1>12,
     <1>13, <1>14 DEF Step

(* Directory requests, restarts, time and the sweep. *)
LEMMA TypeOther ==
    ASSUME ArchiveTypeOK,
           (\E d \in Dir : Mkd(d)) \/ EnsureHomeDirs \/ Restart \/ Tick \/ Sweep
    PROVE  ArchiveTypeOK'
<1> USE BoundAssumption
<1>1. ASSUME NEW d \in Dir, Mkd(d) PROVE ArchiveTypeOK'
  BY <1>1 DEF Mkd, CreateDirAll, Dir, ArchiveTypeOK, requestVars, uploadVars, sweepVars
<1>2. CASE EnsureHomeDirs
  BY <1>2 DEF EnsureHomeDirs, Dir, ArchiveTypeOK, requestVars, uploadVars, sweepVars
<1>3. CASE Restart
  <2>1. /\ pc' = [u \in Upload |-> IF InFlight(u) THEN "done" ELSE pc[u]]
        /\ verdict' = [u \in Upload |-> IF InFlight(u) THEN "dropped" ELSE verdict[u]]
        /\ dirs' = dirs \cup {"home"}
        /\ UNCHANGED <<entry, data, age, target, start, fd, sent, sweepVars>>
    BY <1>3 DEF Restart, requestVars
  <2>2. pc' \in [Upload -> Label] /\ verdict' \in [Upload -> Verdict]
    BY <2>1 DEF ArchiveTypeOK, Label, Verdict
  <2>3. \A u \in Upload : pc'[u] = pc[u] \/ pc'[u] = "done"
    BY <2>1
  <2> QED BY <2>1, <2>2, <2>3 DEF ArchiveTypeOK, Dir, sweepVars
<1>4. CASE Tick
  <2>1. \A i \in Inode : age[i] \in 0..MaxAge /\ Older(age[i]) \in 0..MaxAge
    BY DEF ArchiveTypeOK, Older
  <2>2. age' \in [Inode -> 0..MaxAge]
    BY <1>4, <2>1 DEF Tick
  <2> QED BY <1>4, <2>2 DEF Tick, ArchiveTypeOK, requestVars, uploadVars, sweepVars
<1>5. CASE Sweep
  <2> USE DEF ArchiveTypeOK, fsVars, requestVars, uploadVars
  <2>1. CASE SweepStart
    BY <2>1 DEF SweepStart, SubDirs, FilesIn, Dir
  <2>2. ASSUME NEW d \in Dir, SweepEnter(d) PROVE ArchiveTypeOK'
    BY <2>2 DEF SweepEnter, FilesIn
  <2>3. ASSUME NEW n \in Name, SweepExamine(n) PROVE ArchiveTypeOK'
    BY <2>3 DEF SweepExamine
  <2>4. CASE SweepRemove
    BY <2>4 DEF SweepRemove
  <2>5. SweepEnds => /\ sweepAt' \in Dir \cup {"none"} /\ sweepDirs' \in SUBSET Dir
                     /\ sweepFiles' \in [Dir -> SUBSET Name]
                     /\ victim' \in Name \cup {NoFile}
                     /\ sweepAge' \in [Inode -> 0..MaxAge]
    BY DEF SweepEnds
  <2>6. CASE SweepAborts
    BY <2>5, <2>6 DEF SweepAborts
  <2>7. CASE SweepLeave
    <3>1. dirs' \in SUBSET Dir
      BY <2>7 DEF SweepLeave
    <3>2. /\ sweepAt' \in Dir \cup {"none"} /\ sweepDirs' \in SUBSET Dir
          /\ sweepFiles' \in [Dir -> SUBSET Name]
          /\ victim' \in Name \cup {NoFile}
          /\ sweepAge' \in [Inode -> 0..MaxAge]
      BY <2>5, <2>7 DEF SweepLeave, Dir
    <3> QED BY <2>7, <3>1, <3>2 DEF SweepLeave
  <2> QED BY <1>5, <2>1, <2>2, <2>3, <2>4, <2>6, <2>7 DEF Sweep
<1> QED BY <1>1, <1>2, <1>3, <1>4, <1>5

LEMMA TypeInductive == ArchiveTypeOK /\ [Next]_vars => ArchiveTypeOK'
<1>1. ArchiveTypeOK /\ UNCHANGED vars => ArchiveTypeOK'
  BY DEF ArchiveTypeOK, vars, fsVars, requestVars, uploadVars, sweepVars
<1> QED BY <1>1, TypeStep, TypeOther DEF Next

(* The state of the archive model keeps its types; in particular a copy    *)
(* always has an open file and a probe never enters the staging path.      *)
THEOREM ArchiveTypeCorrect == Spec => []ArchiveTypeOK
BY TypeInit, TypeInductive, PTL DEF Spec
-----------------------------------------------------------------------------
(* From here on: one writer per path, and no path is another's staging     *)
(* name.                                                                   *)

(* A probe and a clip are never stored under one name. *)
LEMMA ProbeApart ==
    ASSUME NEW s \in Target, NEW t \in Target, IsProbe(s), ~IsProbe(t)
    PROVE  Final(s) # Final(t)
BY FinalName DEF IsProbe

(* The facts about names that the steps below use. *)
LEMMA NameFacts ==
    ASSUME ArchiveTypeOK, CleanTargets, NEW u \in Upload, NEW v \in Upload
    PROVE  /\ target[u] \in Target
           /\ FinalOf(u) # StagingOf(v)
           /\ StagingOf(u) = StagingOf(v) => FinalOf(u) = FinalOf(v)
           /\ IsProbe(target[u]) /\ ~IsProbe(target[v]) => FinalOf(u) # FinalOf(v)
<1>1. target[u] \in Target /\ target[v] \in Target
  BY DEF ArchiveTypeOK
<1>2. FinalOf(u) # StagingOf(v)
  BY <1>1 DEF CleanTargets, FinalOf, StagingOf
<1>3. StagingOf(u) = StagingOf(v) => FinalOf(u) = FinalOf(v)
  BY <1>1, FinalName, StagingPathInjective DEF FinalOf, StagingOf
<1>4. IsProbe(target[u]) /\ ~IsProbe(target[v]) => FinalOf(u) # FinalOf(v)
  BY <1>1, ProbeApart DEF FinalOf
<1> QED BY <1>1, <1>2, <1>3, <1>4

(* What a step does to PathsApart when it moves a transfer in flight and   *)
(* touches no name and no handle.                                          *)
LEMMA PathsMove ==
    ASSUME ArchiveTypeOK, PathsApart, NEW u \in Upload, NEW l, InFlight(u),
           pc' = [pc EXCEPT ![u] = l],
           UNCHANGED <<entry, fd, target>>
    PROVE  PathsApart' /\ \A v \in Upload : InFlight(v)' => InFlight(v)
<1>1. OwnedNames' /\ OwnedHandles'
  BY DEF PathsApart, OwnedNames, OwnedHandles, FinalOf, StagingOf
<1>2. \A v \in Upload : InFlight(v)' => InFlight(v)
  BY DEF InFlight, ArchiveTypeOK
<1>3. OneWriter'
  BY <1>2 DEF PathsApart, OneWriter, FinalOf
<1> QED BY <1>1, <1>2, <1>3 DEF PathsApart

(* Removing a name keeps it, as long as no transfer starts. *)
LEMMA PathsUnbind ==
    ASSUME ArchiveTypeOK, PathsApart, NEW n,
           entry' = [entry EXCEPT ![n] = NoFile],
           \A v \in Upload : pc'[v] = pc[v] \/ pc'[v] = "done",
           UNCHANGED <<fd, target>>
    PROVE  PathsApart'
<1>1. \A m \in Name : entry'[m] = entry[m] \/ entry'[m] = NoFile
  BY DEF ArchiveTypeOK
<1>2. OwnedNames' /\ OwnedHandles'
  BY <1>1 DEF PathsApart, OwnedNames, OwnedHandles, FinalOf, StagingOf
<1>3. OneWriter'
  BY DEF PathsApart, OneWriter, FinalOf, InFlight
<1> QED BY <1>2, <1>3 DEF PathsApart

(* Steps that touch neither names, handles nor transfers. *)
LEMMA StoreFrame ==
    ASSUME UNCHANGED <<entry, fd, target, pc>>
    PROVE  (PathsApart => PathsApart') /\ (CheckStaysTrue => CheckStaysTrue')
BY DEF PathsApart, OwnedNames, OwnedHandles, OneWriter, CheckStaysTrue, FinalOf,
       StagingOf, InFlight

(* put's first step. *)
LEMMA PutMoves ==
    ASSUME ArchiveTypeOK, ExclusiveUploads, NEW u \in Upload, Put(u)
    PROVE  /\ entry' = entry /\ fd' = fd /\ target' = target
           /\ pc[u] = "new"
           /\ \E l \in {"mkdir", "done", "check"} :
                 pc' = [pc EXCEPT ![u] = l] /\ (l = "mkdir" => IsProbe(target[u]))
           /\ ~IsProbe(target[u]) =>
                 \A v \in Upload : InFlight(v) => FinalOf(v) # FinalOf(u)
           /\ \A v \in Upload : v # u => pc'[v] = pc[v]
BY DEF Put, fsVars, requestVars, Goto, Finish, GotoWith, ArchiveTypeOK

(* A transfer starts only when no other one is in flight for its path. *)
LEMMA PathsPut ==
    ASSUME ArchiveTypeOK, PathsApart, CleanTargets, ExclusiveUploads,
           NEW u \in Upload, Put(u)
    PROVE  PathsApart'
<1>1. /\ entry' = entry /\ fd' = fd /\ target' = target
      /\ ~IsProbe(target[u]) => \A v \in Upload : InFlight(v) => FinalOf(v) # FinalOf(u)
      /\ \A v \in Upload : v # u => pc'[v] = pc[v]
  BY PutMoves
<1>2. OwnedNames' /\ OwnedHandles'
  BY <1>1 DEF PathsApart, OwnedNames, OwnedHandles, FinalOf, StagingOf
<1>3. OneWriter'
  <2> SUFFICES ASSUME NEW v \in Upload, NEW w \in Upload, v # w, InFlight(v)',
                      InFlight(w)', ~IsProbe(target[v])
               PROVE  FinalOf(v) # FinalOf(w)
    BY <1>1 DEF OneWriter, FinalOf
  <2>1. CASE v = u
    BY <1>1, <2>1 DEF InFlight
  <2>2. CASE w = u
    <3>1. InFlight(v)
      BY <1>1, <2>2 DEF InFlight
    <3>2. CASE IsProbe(target[u])
      BY <2>2, <3>2, NameFacts
    <3>3. CASE ~IsProbe(target[u])
      BY <1>1, <2>2, <3>1, <3>3
    <3> QED BY <3>2, <3>3
  <2>3. CASE v # u /\ w # u
    BY <1>1, <2>3 DEF PathsApart, OneWriter, InFlight
  <2> QED BY <2>1, <2>2, <2>3
<1> QED BY <1>2, <1>3 DEF PathsApart

(* Opening: the handle is on a file of the transfer's own path. *)
LEMMA PathsOpen ==
    ASSUME ArchiveTypeOK, PathsApart, CleanTargets, NEW u \in Upload, OpenFile(u)
    PROVE  PathsApart'
<1> USE TargetAssumption
<1> DEFINE n == OpenName(u)
           i == IF entry[n] = NoFile THEN u ELSE entry[n]
<1>1. /\ entry' = [entry EXCEPT ![n] = i]
      /\ fd' = [fd EXCEPT ![u] = i]
      /\ pc[u] = "open" /\ pc' = [pc EXCEPT ![u] = "copy"]
      /\ target' = target
  BY DEF OpenFile, Goto, requestVars
<1>2. n = (IF IsProbe(target[u]) THEN FinalOf(u) ELSE StagingOf(u)) /\ n \in Name
  BY FinalName DEF OpenName, FinalOf, StagingOf, ArchiveTypeOK
<1>3. i \in Upload
  BY <1>2 DEF ArchiveTypeOK, Inode
<1> HIDE DEF n
<1>4. n \in {FinalOf(i), StagingOf(i)}
  <2>1. CASE entry[n] = NoFile
    BY <1>2, <2>1
  <2>2. CASE entry[n] # NoFile
    BY <1>2, <2>2 DEF PathsApart, OwnedNames
  <2> QED BY <2>1, <2>2
<1>5. FinalOf(i) = FinalOf(u)
  BY <1>2, <1>3, <1>4, NameFacts
<1> HIDE DEF i
<1>6. OwnedNames'
  <2> SUFFICES ASSUME NEW m \in Name, entry'[m] # NoFile
               PROVE  m \in {FinalOf(entry'[m]), StagingOf(entry'[m])}
    BY <1>1 DEF OwnedNames, FinalOf, StagingOf
  <2> QED BY <1>1, <1>2, <1>4 DEF PathsApart, OwnedNames, ArchiveTypeOK
<1>7. OwnedHandles'
  BY <1>1, <1>5 DEF PathsApart, OwnedHandles, FinalOf, ArchiveTypeOK
<1>8. \A v \in Upload : InFlight(v)' => InFlight(v)
  BY <1>1 DEF InFlight, ArchiveTypeOK
<1>9. OneWriter'
  BY <1>1, <1>8 DEF PathsApart, OneWriter, FinalOf
<1> QED BY <1>6, <1>7, <1>9 DEF PathsApart

(* Linking: the file that gets the final name is one of the same path. *)
LEMMA PathsLink ==
    ASSUME ArchiveTypeOK, PathsApart, CleanTargets, NEW u \in Upload, HardLink(u)
    PROVE  PathsApart' /\ \A v \in Upload : InFlight(v)' => InFlight(v)
<1> USE TargetAssumption
<1> DEFINE i == entry[StagingOf(u)]
<1>0. pc[u] = "link" /\ InFlight(u) /\ ~IsProbe(target[u])
  BY DEF HardLink, InFlight, ArchiveTypeOK
<1>1. pc' = [pc EXCEPT ![u] = "unlink"] /\ UNCHANGED <<fd, target>>
  BY DEF HardLink, GotoWith, requestVars
<1>2. CASE entry' = entry
  BY <1>0, <1>1, <1>2, PathsMove
<1>3. CASE i # NoFile /\ entry' = [entry EXCEPT ![FinalOf(u)] = i]
  <2>1. StagingOf(u) \in Name /\ FinalOf(u) \in Name
    BY <1>0, FinalName DEF FinalOf, StagingOf, ArchiveTypeOK
  <2>2. i \in Upload /\ StagingOf(u) \in {FinalOf(i), StagingOf(i)}
    BY <1>3, <2>1 DEF PathsApart, OwnedNames, ArchiveTypeOK, Inode
  <2> HIDE DEF i
  <2>3. FinalOf(u) = FinalOf(i)
    BY <2>2, NameFacts
  <2>4. OwnedNames'
    <3> SUFFICES ASSUME NEW m \in Name, entry'[m] # NoFile
                 PROVE  m \in {FinalOf(entry'[m]), StagingOf(entry'[m])}
      BY <1>1 DEF OwnedNames, FinalOf, StagingOf
    <3> QED BY <1>3, <2>1, <2>3 DEF PathsApart, OwnedNames, ArchiveTypeOK
  <2>5. OwnedHandles'
    BY <1>1 DEF PathsApart, OwnedHandles, FinalOf
  <2>6. \A v \in Upload : InFlight(v)' => InFlight(v)
    BY <1>0, <1>1 DEF InFlight, ArchiveTypeOK
  <2>7. OneWriter'
    BY <1>1, <2>6 DEF PathsApart, OneWriter, FinalOf
  <2> QED BY <2>4, <2>5, <2>6, <2>7 DEF PathsApart
<1> QED BY <1>2, <1>3 DEF HardLink

LEMMA PathsInductive ==
    ASSUME CleanTargets, ExclusiveUploads
    PROVE  ArchiveTypeOK /\ PathsApart /\ [Next]_vars => PathsApart'
<1> SUFFICES ASSUME ArchiveTypeOK, PathsApart, [Next]_vars PROVE PathsApart'
  OBVIOUS
<1>1. ASSUME NEW u \in Upload, Step(u) PROVE PathsApart'
  <2>1. CASE Put(u)
    BY <2>1, PathsPut
  <2>2. CASE OpenFile(u)
    BY <2>2, PathsOpen
  <2>3. CASE WriteBlock(u)
    BY <2>3, StoreFrame DEF WriteBlock, requestVars
  <2>4. CASE HardLink(u)
    BY <2>4, PathsLink
  <2>5. CASE RemoveStaging(u)
    <3>1. \A v \in Upload : pc'[v] = pc[v] \/ pc'[v] = "done"
      BY <2>5 DEF RemoveStaging, Goto, ArchiveTypeOK
    <3> QED BY <2>5, <3>1, PathsUnbind DEF RemoveStaging, requestVars
  <2>6. CASE ~(Put(u) \/ OpenFile(u) \/ WriteBlock(u) \/ HardLink(u) \/ RemoveStaging(u))
    <3>1. /\ InFlight(u) /\ UNCHANGED <<entry, fd, target>>
          /\ \E l : pc' = [pc EXCEPT ![u] = l]
      BY <1>1, <2>6
      DEF Step, CheckFinal, CheckFails, StatStaging, CreateParent, OpenFails, EndOfInput,
          CopyError, Flush, Abandon, DetachedEnds, Goto, GotoWith, Finish, InFlight,
          fsVars, requestVars
    <3> QED BY <3>1, PathsMove
  <2> QED BY <2>1, <2>2, <2>3, <2>4, <2>5, <2>6
<1>2. ASSUME NEW d \in Dir, Mkd(d) PROVE PathsApart'
  BY <1>2, StoreFrame DEF Mkd, requestVars, uploadVars
<1>3. CASE EnsureHomeDirs \/ Tick
  BY <1>3, StoreFrame DEF EnsureHomeDirs, Tick, requestVars, uploadVars
<1>4. CASE Restart
  <2>1. UNCHANGED <<entry, fd, target>> /\ \A v \in Upload : InFlight(v)' => InFlight(v)
    BY <1>4 DEF Restart, requestVars, InFlight
  <2> QED BY <2>1 DEF PathsApart, OwnedNames, OwnedHandles, OneWriter, FinalOf, StagingOf
<1>5. CASE Sweep
  <2>1. CASE SweepRemove
    BY <2>1, PathsUnbind DEF SweepRemove, requestVars, uploadVars
  <2>2. CASE ~SweepRemove
    BY <1>5, <2>2, StoreFrame
    DEF Sweep, SweepStart, SweepEnter, SweepExamine, SweepAborts, SweepLeave, fsVars,
        requestVars, uploadVars
  <2> QED BY <2>1, <2>2
<1>6. CASE UNCHANGED vars
  BY <1>6, StoreFrame DEF vars, fsVars, requestVars, uploadVars
<1> QED BY <1>1, <1>2, <1>3, <1>4, <1>5, <1>6 DEF Next

(* No name is bound and no transfer comes past its check: what the checks  *)
(* found stays true.                                                       *)
LEMMA CheckMove ==
    ASSUME ArchiveTypeOK, CheckStaysTrue,
           \A n \in Name : entry'[n] = entry[n] \/ entry'[n] = NoFile,
           target' = target,
           \A v \in Upload : ~IsProbe(target[v]) /\ InFlight(v)' =>
               \/ pc'[v] \in {"check", "unlink"}
               \/ InFlight(v) /\ pc[v] \notin {"check", "unlink"}
               \/ entry[FinalOf(v)] = NoFile
    PROVE  CheckStaysTrue'
<1>1. \A v \in Upload : FinalOf(v) \in Name
  BY FinalName DEF FinalOf, ArchiveTypeOK
<1> QED BY <1>1 DEF CheckStaysTrue, FinalOf

LEMMA CheckOpen ==
    ASSUME ArchiveTypeOK, CheckStaysTrue, CleanTargets, NEW u \in Upload, OpenFile(u)
    PROVE  CheckStaysTrue'
<1>1. /\ \E i : entry' = [entry EXCEPT ![OpenName(u)] = i]
      /\ pc[u] = "open" /\ pc' = [pc EXCEPT ![u] = "copy"]
      /\ target' = target
  BY DEF OpenFile, Goto, requestVars
<1> SUFFICES ASSUME NEW v \in Upload, ~IsProbe(target[v]), InFlight(v)',
                    pc'[v] \notin {"check", "unlink"}
             PROVE  entry'[FinalOf(v)] = NoFile
  BY <1>1 DEF CheckStaysTrue, FinalOf
<1>2. FinalOf(v) # OpenName(u)
  BY NameFacts DEF OpenName
<1>3. InFlight(v) /\ pc[v] \notin {"check", "unlink"}
  BY <1>1 DEF ArchiveTypeOK, InFlight
<1>4. entry[FinalOf(v)] = NoFile
  BY <1>3 DEF CheckStaysTrue
<1>5. FinalOf(v) \in Name
  BY FinalName DEF FinalOf, ArchiveTypeOK
<1> QED BY <1>1, <1>2, <1>4, <1>5 DEF ArchiveTypeOK

(* The other transfers in flight wait for other names than the one linked. *)
LEMMA CheckLink ==
    ASSUME ArchiveTypeOK, StoreInv, CleanTargets, NEW u \in Upload, HardLink(u)
    PROVE  CheckStaysTrue'
<1>1. /\ pc' = [pc EXCEPT ![u] = "unlink"] /\ target' = target
      /\ entry' = entry \/ \E i : entry' = [entry EXCEPT ![FinalOf(u)] = i]
      /\ InFlight(u) /\ ~IsProbe(target[u])
  BY DEF HardLink, GotoWith, requestVars, InFlight, ArchiveTypeOK
<1> SUFFICES ASSUME NEW v \in Upload, ~IsProbe(target[v]), InFlight(v)',
                    pc'[v] \notin {"check", "unlink"}
             PROVE  entry'[FinalOf(v)] = NoFile
  BY <1>1 DEF CheckStaysTrue, FinalOf
<1>2. v # u /\ pc'[v] = pc[v] /\ InFlight(v)
  BY <1>1 DEF ArchiveTypeOK, InFlight
<1>3. FinalOf(v) # FinalOf(u)
  BY <1>1, <1>2 DEF StoreInv, PathsApart, OneWriter
<1>4. entry[FinalOf(v)] = NoFile
  BY <1>2 DEF StoreInv, CheckStaysTrue
<1>5. FinalOf(v) \in Name
  BY FinalName DEF FinalOf, ArchiveTypeOK
<1> QED BY <1>1, <1>3, <1>4, <1>5 DEF ArchiveTypeOK

LEMMA CheckInductive ==
    ASSUME CleanTargets, ExclusiveUploads, CheckSafe
    PROVE  ArchiveTypeOK /\ StoreInv /\ [Next]_vars => CheckStaysTrue'
<1> SUFFICES ASSUME ArchiveTypeOK, StoreInv, [Next]_vars PROVE CheckStaysTrue'
  OBVIOUS
<1>0. PathsApart /\ CheckStaysTrue
  BY DEF StoreInv
<1>1. ASSUME NEW u \in Upload, Step(u) PROVE CheckStaysTrue'
  <2>1. CASE Put(u)
    <3>1. \A v \in Upload : ~IsProbe(target[v]) /\ InFlight(v)' =>
            pc'[v] = "check" \/ (InFlight(v) /\ pc[v] = pc'[v])
      <4>1. PICK l \in {"mkdir", "done", "check"} :
               pc' = [pc EXCEPT ![u] = l] /\ (l = "mkdir" => IsProbe(target[u]))
        BY <2>1, PutMoves
      <4>2. pc'[u] = l /\ \A v \in Upload : v # u => pc'[v] = pc[v]
        BY <4>1 DEF ArchiveTypeOK
      <4> SUFFICES ASSUME NEW v \in Upload, ~IsProbe(target[v]), InFlight(v)'
                   PROVE  pc'[v] = "check" \/ (InFlight(v) /\ pc[v] = pc'[v])
        OBVIOUS
      <4>3. CASE v = u
        BY <4>1, <4>2, <4>3 DEF InFlight
      <4>4. CASE v # u
        BY <4>2, <4>4 DEF InFlight
      <4> QED BY <4>3, <4>4
    <3>2. entry' = entry /\ target' = target
      BY <2>1, PutMoves
    <3> QED BY <1>0, <3>1, <3>2, CheckMove
  <2>2. CASE CheckFinal(u) \/ CheckFails(u)
    <3>1. /\ entry' = entry /\ target' = target
          /\ \A v \in Upload : InFlight(v)' =>
                InFlight(v) /\ (v = u => entry[FinalOf(u)] = NoFile) /\ (v # u => pc'[v] = pc[v])
      BY <2>2 DEF CheckFinal, CheckFails, CheckSafe, Goto, Finish, GotoWith, InFlight,
                  ArchiveTypeOK, fsVars, requestVars
    <3> QED BY <1>0, <3>1, CheckMove
  <2>3. CASE OpenFile(u)
    BY <1>0, <2>3, CheckOpen
  <2>4. CASE WriteBlock(u)
    BY <1>0, <2>4, StoreFrame DEF WriteBlock, requestVars
  <2>5. CASE HardLink(u)
    BY <2>5, CheckLink
  <2>6. CASE RemoveStaging(u)
    <3>1. /\ \A n \in Name : entry'[n] = entry[n] \/ entry'[n] = NoFile
          /\ target' = target
          /\ \A v \in Upload : InFlight(v)' => InFlight(v) /\ pc'[v] = pc[v]
      BY <2>6 DEF RemoveStaging, Goto, InFlight, ArchiveTypeOK, requestVars
    <3> QED BY <1>0, <3>1, CheckMove
  <2>7. CASE ~(\/ Put(u) \/ CheckFinal(u) \/ CheckFails(u) \/ OpenFile(u) \/ WriteBlock(u)
               \/ HardLink(u) \/ RemoveStaging(u))
    <3>1. /\ entry' = entry /\ target' = target
          /\ \A v \in Upload : InFlight(v)' =>
                InFlight(v) /\ (pc'[v] = pc[v] \/ pc[v] \notin {"check", "unlink"})
      BY <1>1, <2>7
      DEF Step, StatStaging, CreateParent, OpenFails, EndOfInput, CopyError, Flush, Abandon,
          DetachedEnds, Goto, GotoWith, Finish, InFlight, ArchiveTypeOK, fsVars, requestVars
    <3> QED BY <1>0, <3>1, CheckMove
  <2> QED BY <2>1, <2>2, <2>3, <2>4, <2>5, <2>6, <2>7
<1>2. ASSUME NEW d \in Dir, Mkd(d) PROVE CheckStaysTrue'
  BY <1>0, <1>2, StoreFrame DEF Mkd, requestVars, uploadVars
<1>3. CASE EnsureHomeDirs \/ Tick
  BY <1>0, <1>3, StoreFrame DEF EnsureHomeDirs, Tick, requestVars, uploadVars
<1>4. CASE Restart
  <2>1. /\ entry' = entry /\ target' = target
        /\ \A v \in Upload : InFlight(v)' => InFlight(v) /\ pc'[v] = pc[v]
    BY <1>4 DEF Restart, InFlight, requestVars
  <2> QED BY <1>0, <2>1, CheckMove
<1>5. CASE Sweep
  <2>1. CASE SweepRemove
    <3>1. /\ \A n \in Name : entry'[n] = entry[n] \/ entry'[n] = NoFile
          /\ target' = target /\ pc' = pc
      BY <2>1 DEF SweepRemove, requestVars, uploadVars, ArchiveTypeOK
    <3>2. \A v \in Upload : InFlight(v)' <=> InFlight(v)
      BY <3>1 DEF InFlight
    <3> QED BY <1>0, <3>1, <3>2, CheckMove
  <2>2. CASE ~SweepRemove
    BY <1>0, <1>5, <2>2, StoreFrame
    DEF Sweep, SweepStart, SweepEnter, SweepExamine, SweepAborts, SweepLeave, fsVars,
        requestVars, uploadVars
  <2> QED BY <2>1, <2>2
<1>6. CASE UNCHANGED vars
  BY <1>0, <1>6, StoreFrame DEF vars, fsVars, requestVars, uploadVars
<1> QED BY <1>1, <1>2, <1>3, <1>4, <1>5, <1>6 DEF Next

(* A finalised clip keeps its name, its bytes and its age. *)
ClipUntouched(c) ==
    /\ entry'[c] = entry[c]
    /\ data'[entry[c]] = data[entry[c]]
    /\ age'[entry[c]] = age[entry[c]]
    /\ sweepAge'[entry[c]] = sweepAge[entry[c]]

(* No step of a transfer touches a clip that is final. *)
LEMMA ClipUpload ==
    ASSUME CleanTargets, ArchiveTypeOK, StoreInv, NEW u \in Upload, Step(u),
           NEW c \in Clip, entry[c] # NoFile
    PROVE  ClipUntouched(c)
<1> USE TargetAssumption
<1> DEFINE i == entry[c]
<1>1. PICK t \in Target : ~IsProbe(t) /\ c = Final(t)
  BY DEF Clip
<1>2. c \in Name /\ i \in Upload /\ c \in {FinalOf(i), StagingOf(i)}
  BY <1>1, FinalName DEF StoreInv, PathsApart, OwnedNames, ArchiveTypeOK, Inode
<1>3. \A v \in Upload : target[v] \in Target /\ c # StagingOf(v)
  BY <1>1 DEF CleanTargets, ArchiveTypeOK, StagingOf
<1>4. c = FinalOf(i)
  BY <1>2, <1>3
<1> HIDE DEF i
<1>5. ASSUME FinalOf(u) = c, InFlight(u)
      PROVE  pc[u] \in {"check", "unlink"}
  <2>1. ~IsProbe(target[u])
    BY <1>1, <1>3, <1>5, ProbeApart DEF FinalOf
  <2> QED BY <1>5, <2>1 DEF StoreInv, CheckStaysTrue
<1>6. CASE entry' = entry /\ data' = data /\ age' = age /\ sweepAge' = sweepAge
  BY <1>6 DEF ClipUntouched
<1>7. CASE OpenFile(u)
  <2> DEFINE n == OpenName(u)
             j == IF entry[n] = NoFile THEN u ELSE entry[n]
  <2>1. /\ entry' = [entry EXCEPT ![n] = j] /\ pc[u] = "open"
        /\ \E b : data' = [data EXCEPT ![j] = b]
        /\ \E b : age' = [age EXCEPT ![j] = b]
        /\ \E b : sweepAge' = [sweepAge EXCEPT ![j] = b]
    BY <1>7 DEF OpenFile
  <2>2. n = (IF IsProbe(target[u]) THEN FinalOf(u) ELSE StagingOf(u)) /\ n \in Name
    BY <1>3, FinalName DEF OpenName, FinalOf, StagingOf
  <2>3. FinalOf(u) # c
    BY <1>5, <2>1 DEF InFlight
  <2>4. n # c
    BY <1>3, <2>2, <2>3
  <2>5. j \in Upload /\ n \in {FinalOf(j), StagingOf(j)}
    BY <2>2 DEF StoreInv, PathsApart, OwnedNames, ArchiveTypeOK, Inode
  <2> HIDE DEF n, j
  <2>6. FinalOf(j) = FinalOf(u)
    BY <2>2, <2>5, NameFacts
  <2>7. j # i
    BY <1>4, <2>3, <2>6
  <2> QED BY <1>2, <2>1, <2>4, <2>7 DEF ClipUntouched, ArchiveTypeOK, Inode, i
<1>8. CASE WriteBlock(u)
  <2>1. /\ entry' = entry /\ pc[u] \in {"copy", "detached"}
        /\ \E b : data' = [data EXCEPT ![fd[u]] = b]
        /\ \E b : age' = [age EXCEPT ![fd[u]] = b]
        /\ \E b : sweepAge' = [sweepAge EXCEPT ![fd[u]] = b]
    BY <1>8 DEF WriteBlock
  <2>2. fd[u] # NoFile /\ FinalOf(fd[u]) = FinalOf(u)
    BY <2>1 DEF ArchiveTypeOK, StoreInv, PathsApart, OwnedHandles
  <2>3. fd[u] # i
    BY <1>4, <1>5, <2>1, <2>2 DEF InFlight
  <2> QED BY <1>2, <2>1, <2>3 DEF ClipUntouched, ArchiveTypeOK, Inode, i
<1>9. CASE HardLink(u)
  <2>1. /\ data' = data /\ age' = age /\ sweepAge' = sweepAge
        /\ \/ entry' = entry
           \/ /\ entry[FinalOf(u)] = NoFile
              /\ \E b : entry' = [entry EXCEPT ![FinalOf(u)] = b]
    BY <1>9 DEF HardLink, sweepVars
  <2> QED BY <1>2, <2>1 DEF ClipUntouched, ArchiveTypeOK
<1>10. CASE RemoveStaging(u)
  BY <1>2, <1>3, <1>10 DEF RemoveStaging, ClipUntouched, ArchiveTypeOK, sweepVars
<1>11. CASE Put(u) \/ CheckFinal(u) \/ CheckFails(u) \/ StatStaging(u) \/ OpenFails(u)
  BY <1>6, <1>11 DEF Put, CheckFinal, CheckFails, StatStaging, OpenFails, fsVars, sweepVars
<1>12. CASE CreateParent(u) \/ EndOfInput(u) \/ CopyError(u) \/ Flush(u)
  BY <1>6, <1>12 DEF CreateParent, EndOfInput, CopyError, Flush, fsVars, sweepVars
<1>13. CASE Abandon(u) \/ DetachedEnds(u)
  BY <1>6, <1>13 DEF Abandon, DetachedEnds, fsVars, sweepVars
<1> QED BY <1>7, <1>8, <1>9, <1>10, <1>11, <1>12, <1>13 DEF Step

(* The only step that touches a clip that is final is the removal by the   *)
(* sweep.                                                                  *)
ClipKept(c) ==
    \/ SweepRemove /\ victim = c
    \/ entry'[c] = entry[c] /\ data'[entry[c]] = data[entry[c]]

LEMMA ClipStep ==
    ASSUME CleanTargets, ArchiveTypeOK, StoreInv, [Next]_vars,
           NEW c \in Clip, entry[c] # NoFile
    PROVE  ClipKept(c)
<1>1. c \in Name
  BY ClipName
<1>2. CASE entry' = entry /\ data' = data
  BY <1>2 DEF ClipKept
<1>3. ASSUME NEW u \in Upload, Step(u) PROVE ClipKept(c)
  BY <1>3, ClipUpload DEF ClipKept, ClipUntouched
<1>4. ASSUME NEW d \in Dir, Mkd(d) PROVE ClipKept(c)
  BY <1>2, <1>4 DEF Mkd
<1>5. CASE EnsureHomeDirs \/ Restart \/ Tick
  BY <1>2, <1>5 DEF EnsureHomeDirs, Restart, Tick
<1>6. CASE Sweep
  <2>1. CASE SweepRemove
    BY <1>1, <2>1 DEF SweepRemove, ClipKept, ArchiveTypeOK
  <2>2. CASE ~SweepRemove
    BY <1>2, <1>6, <2>2
    DEF Sweep, SweepStart, SweepEnter, SweepExamine, SweepAborts, SweepLeave, fsVars
  <2> QED BY <2>1, <2>2
<1>7. CASE UNCHANGED vars
  BY <1>2, <1>7 DEF vars, fsVars
<1> QED BY <1>3, <1>4, <1>5, <1>6, <1>7 DEF Next

(* Every file belongs to one path and every path has one writer, if none   *)
(* is stored to twice at a time and none is the staging name of another,   *)
(* whatever the check of the final name does.                              *)
LEMMA PathsStayApart ==
    ASSUME CleanTargets, ExclusiveUploads
    PROVE  Spec => []PathsApart
<1>1. Init => PathsApart
  BY DEF Init, PathsApart, OwnedNames, OwnedHandles, OneWriter, InFlight
<1>2. ArchiveTypeOK /\ PathsApart /\ [Next]_vars => PathsApart'
  BY PathsInductive
<1> QED BY <1>1, <1>2, ArchiveTypeCorrect, PTL DEF Spec

(* The strengthening holds throughout, for plain uploads and for encrypted *)
(* ones whose check of the final name does not fail (CheckSafe): with one  *)
(* writer per path and no stored name the staging name of another, what    *)
(* the check found is still true when it is acted upon.                    *)
THEOREM StoreInvariant ==
    ASSUME CleanTargets, ExclusiveUploads, CheckSafe
    PROVE  Spec => []StoreInv
<1>1. Init => StoreInv
  BY DEF Init, StoreInv, PathsApart, OwnedNames, OwnedHandles, OneWriter, CheckStaysTrue,
         InFlight
<1>2. ArchiveTypeOK /\ StoreInv /\ [Next]_vars => StoreInv'
  BY PathsInductive, CheckInductive DEF StoreInv
<1> QED BY <1>1, <1>2, ArchiveTypeCorrect, PTL DEF Spec

(* "Once a file is finalised it is immutable" (README), for any number of  *)
(* transfers and any interleaving with crashes, dropped sessions and the   *)
(* sweep, if no path is stored to twice at the same time, none has the     *)
(* staging suffix of another, and, for encrypted uploads, the check of the *)
(* final name does not fail: store_encrypted would go on and truncate.     *)
THEOREM FinalClipsImmutable ==
    ASSUME CleanTargets, ExclusiveUploads, CheckSafe
    PROVE  Spec => FinalImmutable
<1>1. ArchiveTypeOK /\ StoreInv /\ [Next]_vars =>
        [\A c \in Clip : entry[c] # NoFile =>
             \/ entry'[c] = NoFile
             \/ entry'[c] = entry[c] /\ data'[entry[c]] = data[entry[c]]]_vars
  <2> SUFFICES ASSUME ArchiveTypeOK, StoreInv, [Next]_vars,
                      NEW c \in Clip, entry[c] # NoFile
               PROVE  \/ entry'[c] = NoFile
                      \/ entry'[c] = entry[c] /\ data'[entry[c]] = data[entry[c]]
    OBVIOUS
  <2>1. ClipKept(c) /\ c \in Name
    BY ClipStep, ClipName
  <2> QED BY <2>1 DEF ClipKept, SweepRemove, ArchiveTypeOK
<1> QED BY <1>1, ArchiveTypeCorrect, StoreInvariant, PTL DEF Spec, FinalImmutable
=============================================================================
