-------------------------- MODULE OperationsProofs --------------------------
(***************************************************************************)
(* Theorems about Operations: the types, that sealed footage can always be *)
(* opened, and that decrypt leaves no partial plaintext behind.            *)
(***************************************************************************)
EXTENDS Operations, TLAPS

(* What a decrypt command relies on while it copies: one command at a time *)
(* is at the viewer's files, its input stays and its output is there.      *)
CopyInv ==
    /\ batch \in [Job -> Seq(LocalName)]
    /\ \A i, j \in Job : Decrypting(i) /\ Decrypting(j) => i = j
    /\ \A j \in Job : step[j] = "copy" =>
          /\ batch[j] # <<>>
          /\ Head(batch[j]).age
          /\ local[Head(batch[j])] \in ClipFile
          /\ local[OutPath(j)] \in ClipFile

(* The way of a public key: its secret key out in a file or printed, then  *)
(* shown, then in the config file, then in the server, then on a clip.  A  *)
(* key whose file another genkey took is on record.                        *)
Safe(k) == Kept(k) \/ k \in overwritten
KeyInv ==
    /\ file = [lines |-> file.lines, end |-> file.end, recipients |-> file.recipients]
    /\ server # None => server = [accounts |-> server.accounts, recipients |-> server.recipients]
    /\ \A k \in shown : Safe(k)
    /\ file.recipients \subseteq shown
    /\ server # None => server.recipients \subseteq shown /\ server.recipients # {}
    /\ \A c \in Clip : archive[c] # None => archive[c] \subseteq shown /\ archive[c] # {}
    /\ \A j \in Job : step[j] \in {"create", "write"} => path[j] \in IdentityPath /\ pair[j] \in Key
    /\ \A j \in Job : step[j] \in {"print", "show"} => pair[j] \in Key
    /\ \A j \in Job : step[j] = "show" => Safe(pair[j])

OperationsInv == OperationsTypeOK /\ CopyInv /\ KeyInv
-----------------------------------------------------------------------------
(* The first of the files to go is one of the viewer's files. *)
LEMMA HeadIsName ==
    ASSUME batch \in [Job -> Seq(LocalName)], NEW j \in Job, batch[j] # <<>>
    PROVE  Head(batch[j]) \in LocalName /\ Tail(batch[j]) \in Seq(LocalName)
  OBVIOUS

(* So is the output for it, and the two differ by the suffix. *)
LEMMA OutPathIsName ==
    ASSUME batch \in [Job -> Seq(LocalName)], output \in [Job -> {None, "out"}],
           NEW j \in Job, batch[j] # <<>>
    PROVE  OutPath(j) \in LocalName /\ OutPath(j).age = FALSE
  BY HeadIsName DEF OutPath, LocalName

(* A copy that is shorter than its input has room for a block. *)
LEMMA OneMoreBlock ==
    ASSUME NEW out \in ClipFile, NEW input \in ClipFile, out.blocks < input.blocks
    PROVE  [out EXCEPT !.blocks = @ + 1] \in ClipFile
  BY OperationsAssumption DEF ClipFile

(* What a command that writes its table leaves alone. *)
LEMMA WritesDoes ==
    ASSUME OperationsInv, NEW j \in Job, Writes(j)
    PROVE  /\ file' = [lines |-> file'.lines, end |-> file'.end, recipients |-> file'.recipients]
           /\ file'.end \in [at : Ends, by : Job \cup {None}, own : BOOLEAN]
           /\ file'.recipients = file.recipients
           /\ step[j] \in {"append", "line", "rest"}
           /\ \E label \in {"append", "line", "rest", "done"} : step' = [step EXCEPT ![j] = label]
           /\ short' \in 0..MaxShort /\ lost' \subseteq Job
           /\ UNCHANGED <<told, serverVars, keyVars, decryptVars>>
<1>1. ASSUME NEW n, NEW end \in Ends, NEW lines, NEW own \in BOOLEAN, Wrote(j, n, end, lines, own)
      PROVE  /\ file' = [lines |-> file'.lines, end |-> file'.end, recipients |-> file'.recipients]
             /\ file'.end \in [at : Ends, by : Job \cup {None}, own : BOOLEAN]
             /\ file'.recipients = file.recipients
             /\ \E label \in {"append", "line", "rest", "done"} : step' = [step EXCEPT ![j] = label]
             /\ short' \in 0..MaxShort
             /\ UNCHANGED <<told, serverVars, keyVars, decryptVars>>
  <2> DEFINE e == IF end = "inside" THEN Inside(j, own) ELSE EndsAt(end)
  <2>1. e \in [at : Ends, by : Job \cup {None}, own : BOOLEAN] BY DEF Inside, EndsAt, Ends
  <2>2. file' = [file EXCEPT !.lines = lines, !.end = e] BY <1>1 DEF Wrote
  <2>3. file = [lines |-> file.lines, end |-> file.end, recipients |-> file.recipients]
    BY DEF OperationsInv, KeyInv
  <2> HIDE DEF e
  <2>4. file' = [lines |-> lines, end |-> e, recipients |-> file.recipients] BY <2>2, <2>3
  <2>5. \E label \in {"append", "line", "rest", "done"} : step' = [step EXCEPT ![j] = label]
    BY <1>1 DEF Wrote, Goto, Ends
  <2>6. short' \in 0..MaxShort
    BY <1>1, OperationsAssumption DEF Wrote, OperationsInv, OperationsTypeOK
  <2>7. UNCHANGED <<told, serverVars, keyVars, decryptVars>>
    BY <1>1 DEF Wrote
  <2>8. /\ file' = [lines |-> file'.lines, end |-> file'.end, recipients |-> file'.recipients]
        /\ file'.end = e /\ file'.recipients = file.recipients
    BY <2>4
  <2> QED BY <2>1, <2>5, <2>6, <2>7, <2>8
<1>2. lost \subseteq Job BY DEF OperationsInv, OperationsTypeOK
<1>3. ASSUME NEW n, NEW end \in Ends, WriteAll(j, n, end)
      PROVE  /\ \E lines, own : own \in BOOLEAN /\ Wrote(j, n, end, lines, own)
             /\ step[j] \in {"append", "line", "rest"} /\ lost' \subseteq Job
  BY <1>2, <1>3 DEF WriteAll
<1>4. ASSUME SpliceInside(j)
      PROVE  /\ \E lines, own : own \in BOOLEAN /\ Wrote(j, 0, "inside", lines, own)
             /\ step[j] \in {"append", "line", "rest"} /\ lost' \subseteq Job
  BY <1>2, <1>4 DEF SpliceInside
<1>5. ASSUME NEW n, NEW end \in Ends, NEW s, Splice(j, n, end, s)
      PROVE  /\ \E lines, own : own \in BOOLEAN /\ Wrote(j, n, end, lines, own)
             /\ step[j] \in {"append", "line", "rest"} /\ lost' \subseteq Job
  BY <1>2, <1>5 DEF Splice
<1>6. "inside" \in Ends BY DEF Ends
<1> QED BY <1>1, <1>3, <1>4, <1>5, <1>6 DEF Writes

(* What the operator's repair leaves alone. *)
LEMMA RepairDoes ==
    ASSUME OperationsInv, RepairFile
    PROVE  /\ file' = [lines |-> file'.lines, end |-> file'.end, recipients |-> file'.recipients]
           /\ file'.end \in [at : Ends, by : Job \cup {None}, own : BOOLEAN]
           /\ file'.recipients = file.recipients
           /\ UNCHANGED <<todo, told, short, lost, serverVars, step, keyVars, decryptVars>>
<1>1. PICK n : file' = [file EXCEPT !.lines = SubSeq(@, 1, n), !.end = EndsAt("newline")]
  BY DEF RepairFile
<1>2. file = [lines |-> file.lines, end |-> file.end, recipients |-> file.recipients]
  BY DEF OperationsInv, KeyInv
<1>3. EndsAt("newline") \in [at : Ends, by : Job \cup {None}, own : BOOLEAN]
  BY DEF EndsAt, Ends
<1>4. file' = [lines |-> SubSeq(file.lines, 1, n), end |-> EndsAt("newline"), recipients |-> file.recipients]
  BY <1>1, <1>2
<1>5. UNCHANGED <<todo, told, short, lost, serverVars, step, keyVars, decryptVars>>
  BY DEF RepairFile
<1> QED BY <1>3, <1>4, <1>5

(* Types are kept. *)
LEMMA TypeStep ==
    ASSUME OperationsInv, [Next]_vars
    PROVE  OperationsTypeOK'
<1> USE OperationsAssumption DEF OperationsInv, OperationsTypeOK, Goto, Label,
           vars, configVars, serverVars, keyVars, decryptVars
<1>1. ASSUME NEW j \in Job, NEW r \in Request, AddAccount(j, r)
      PROVE  OperationsTypeOK'
  BY <1>1 DEF AddAccount
<1>2. ASSUME NEW j \in Job, Writes(j) PROVE OperationsTypeOK'
  BY <1>2, WritesDoes
<1>3. ASSUME NEW j \in Job, NEW k \in Key, NEW p \in IdentityPath \cup {None}, Genkey(j, k, p)
      PROVE  OperationsTypeOK'
  BY <1>3 DEF Genkey
<1>4. ASSUME NEW j \in Job, CreateIdentity(j)
      PROVE  OperationsTypeOK'
  <2>1. path[j] \in IdentityPath BY <1>4 DEF CreateIdentity, KeyInv
  <2>2. identity' = [identity EXCEPT ![path[j]] = None]
    BY <1>4 DEF CreateIdentity, PutIdentity
  <2>3. overwritten' = overwritten \cup ({identity[path[j]]} \ {None})
    BY <1>4 DEF CreateIdentity, PutIdentity
  <2>4. identity' \in [IdentityPath -> Key \cup {None}] /\ overwritten' \subseteq Key
    BY <2>1, <2>2, <2>3
  <2> QED BY <1>4, <2>4 DEF CreateIdentity, PutIdentity
<1>5. ASSUME NEW j \in Job, WriteIdentity(j)
      PROVE  OperationsTypeOK'
  <2>1. path[j] \in IdentityPath /\ pair[j] \in Key BY <1>5 DEF WriteIdentity, KeyInv
  <2>2. identity' = [identity EXCEPT ![path[j]] = pair[j]]
    BY <1>5 DEF WriteIdentity, PutIdentity
  <2>3. overwritten' = overwritten \cup ({identity[path[j]]} \ {None})
    BY <1>5 DEF WriteIdentity, PutIdentity
  <2>4. identity' \in [IdentityPath -> Key \cup {None}] /\ overwritten' \subseteq Key
    BY <2>1, <2>2, <2>3
  <2> QED BY <1>5, <2>4 DEF WriteIdentity, PutIdentity
<1>6. ASSUME NEW j \in Job, ShowRecipient(j)
      PROVE  OperationsTypeOK'
  BY <1>6 DEF ShowRecipient, KeyInv
<1>7. ASSUME NEW j \in Job, NEW k \in Key, NEW o \in {None, "out"}, NEW files \in Batch,
          Decrypt(j, k, o, files)
      PROVE  OperationsTypeOK'
  BY <1>7 DEF Decrypt
<1>8. ASSUME NEW j \in Job, NextInput(j)
      PROVE  OperationsTypeOK'
  <2>1. batch[j] # <<>> => Plaintext(Head(batch[j]).clip, 0) \in ClipFile
    <3> HAVE batch[j] # <<>>
    <3>1. Head(batch[j]) \in LocalName
      BY HeadIsName DEF CopyInv
    <3>2. QED BY <3>1 DEF CopyInv, LocalName, ClipFile, Plaintext
  <2>2. QED BY <1>8, <2>1 DEF NextInput
<1>9. ASSUME NEW j \in Job, CopyBlock(j)
      PROVE  OperationsTypeOK'
  <2>1. [local[OutPath(j)] EXCEPT !.blocks = @ + 1] \in ClipFile
    BY <1>9, OneMoreBlock DEF CopyBlock, CopyInv
  <2>2. QED BY <1>9, <2>1 DEF CopyBlock
<1>10. ASSUME NEW j \in Job, EndOfClip(j)
      PROVE  OperationsTypeOK'
  BY <1>10 DEF EndOfClip
<1>11. ASSUME NEW j \in Job, DecryptError(j)
      PROVE  OperationsTypeOK'
  BY <1>11 DEF DecryptError
<1>12. ASSUME NEW j \in Job, Kill(j)
      PROVE  OperationsTypeOK'
  BY <1>12 DEF Kill
<1>13. ASSUME Start
      PROVE  OperationsTypeOK'
  BY <1>13 DEF Start, Process
<1>14. ASSUME Stop
      PROVE  OperationsTypeOK'
  BY <1>14 DEF Stop
<1>15. ASSUME Sighup
      PROVE  OperationsTypeOK'
  BY <1>15 DEF Sighup
<1>16. ASSUME Reload
      PROVE  OperationsTypeOK'
  BY <1>16 DEF Reload, KeyInv
<1>17. ASSUME NEW c \in Clip, Store(c)
      PROVE  OperationsTypeOK'
  BY <1>17 DEF Store, LoggedIn
<1>18. ASSUME NEW c \in Clip, NEW n \in 0..Blocks, Download(c, n)
      PROVE  OperationsTypeOK'
  BY <1>18 DEF Download, LocalName, Ciphertext, ClipFile
<1>19. ASSUME NEW keys \in SUBSET shown, EditRecipients(keys)
      PROVE  OperationsTypeOK'
  BY <1>19 DEF EditRecipients, KeyInv
<1>20. ASSUME RepairFile
      PROVE  OperationsTypeOK'
  BY <1>20, RepairDoes
<1>21. ASSUME UNCHANGED vars
      PROVE  OperationsTypeOK'
  BY <1>21
<1>22. ASSUME NEW j \in Job, PrintSecret(j)
      PROVE  OperationsTypeOK'
  BY <1>22 DEF PrintSecret, KeyInv
<1> HIDE DEF OperationsInv, OperationsTypeOK, Goto, Label,
           vars, configVars, serverVars, keyVars, decryptVars
<1>23. QED BY <1>1, <1>2, <1>3, <1>4, <1>5, <1>6, <1>7, <1>8, <1>9, <1>10, <1>11,
           <1>12, <1>13, <1>14, <1>15, <1>16, <1>17, <1>18, <1>19, <1>20, <1>21, <1>22
       DEF Next, Command, Serve

(* Decrypt keeps its files. *)
LEMMA CopyStep ==
    ASSUME OperationsInv, [Next]_vars
    PROVE  CopyInv'
<1> USE OperationsAssumption DEF OperationsInv, CopyInv, Goto, Decrypting,
           vars, configVars, serverVars, keyVars, decryptVars, OutPath, OperationsTypeOK
<1>1. ASSUME NEW j \in Job, NEW r \in Request, AddAccount(j, r)
      PROVE  CopyInv'
  BY <1>1 DEF AddAccount
<1>2. ASSUME NEW j \in Job, Writes(j) PROVE CopyInv'
  <2>1. PICK label \in {"append", "line", "rest", "done"} : step' = [step EXCEPT ![j] = label]
    BY <1>2, WritesDoes
  <2>2. step[j] \in {"append", "line", "rest"} /\ UNCHANGED decryptVars
    BY <1>2, WritesDoes
  <2> QED BY <2>1, <2>2
<1>3. ASSUME NEW j \in Job, NEW k \in Key, NEW p \in IdentityPath \cup {None}, Genkey(j, k, p)
      PROVE  CopyInv'
  BY <1>3 DEF Genkey
<1>4. ASSUME NEW j \in Job, CreateIdentity(j)
      PROVE  CopyInv'
  BY <1>4 DEF CreateIdentity, PutIdentity
<1>5. ASSUME NEW j \in Job, WriteIdentity(j)
      PROVE  CopyInv'
  BY <1>5 DEF WriteIdentity, PutIdentity
<1>6. ASSUME NEW j \in Job, ShowRecipient(j)
      PROVE  CopyInv'
  BY <1>6 DEF ShowRecipient
<1>7. ASSUME NEW j \in Job, NEW k \in Key, NEW o \in {None, "out"}, NEW files \in Batch,
          Decrypt(j, k, o, files)
      PROVE  CopyInv'
  BY <1>7 DEF Decrypt
<1>8. ASSUME NEW j \in Job, NextInput(j)
      PROVE  CopyInv'
  <2>1. CASE step'[j] # "copy"
    <3>1. step[j] = "next" /\ UNCHANGED <<batch, output, local>>
      BY <1>8, <2>1 DEF NextInput
    <3>2. /\ step' = [step EXCEPT ![j] = step'[j]]
          /\ step'[j] \in {"done", "failed"}
      BY <1>8, <2>1 DEF NextInput
    <3>3. \A i \in Job : (Decrypting(i)' => Decrypting(i)) /\ (step'[i] = "copy" => step[i] = "copy")
      BY <3>1, <3>2
    <3> QED BY <3>1, <3>3
  <2>2. CASE step'[j] = "copy"
    <3>1. /\ batch[j] # <<>> /\ Head(batch[j]).age /\ local[Head(batch[j])] # None
          /\ step' = [step EXCEPT ![j] = "copy"] /\ UNCHANGED <<batch, output>>
          /\ local' = [local EXCEPT ![OutPath(j)] = Plaintext(Head(batch[j]).clip, 0)]
      BY <1>8, <2>2 DEF NextInput
    <3>2. /\ Head(batch[j]) \in LocalName /\ OutPath(j) \in LocalName
          /\ OutPath(j) # Head(batch[j])
      BY <3>1, HeadIsName, OutPathIsName
    <3>3. Plaintext(Head(batch[j]).clip, 0) \in ClipFile
      BY <3>2 DEF Plaintext, ClipFile, LocalName
    <3>4. \A i \in Job : i # j => step[i] # "copy"
      BY <1>8 DEF NextInput
    <3>5. /\ local'[Head(batch[j])] = local[Head(batch[j])]
          /\ local'[OutPath(j)] \in ClipFile
      BY <3>1, <3>2, <3>3
    <3>6. local[Head(batch[j])] \in ClipFile
      BY <3>1, <3>2
    <3>7. \A i \in Job : step'[i] \in {"next", "copy"} => i = j
      BY <1>8, <3>1 DEF NextInput
    <3>8. OutPath(j)' = OutPath(j)
      BY <3>1
    <3>9. QED BY <3>1, <3>5, <3>6, <3>7, <3>8
  <2>3. QED BY <2>1, <2>2
<1>9. ASSUME NEW j \in Job, CopyBlock(j)
      PROVE  CopyInv'
  <2>1. /\ Head(batch[j]) \in LocalName /\ OutPath(j) \in LocalName
        /\ OutPath(j) # Head(batch[j])
    BY <1>9, HeadIsName, OutPathIsName DEF CopyBlock
  <2>2. [local[OutPath(j)] EXCEPT !.blocks = @ + 1] \in ClipFile
    BY <1>9, OneMoreBlock DEF CopyBlock
  <2>3. \A i \in Job : i # j => step[i] # "copy"
    BY <1>9 DEF CopyBlock
  <2>4. QED BY <1>9, <2>1, <2>2, <2>3 DEF CopyBlock
<1>10. ASSUME NEW j \in Job, EndOfClip(j)
      PROVE  CopyInv'
  BY <1>10 DEF EndOfClip
<1>11. ASSUME NEW j \in Job, DecryptError(j)
      PROVE  CopyInv'
  BY <1>11 DEF DecryptError
<1>12. ASSUME NEW j \in Job, Kill(j)
      PROVE  CopyInv'
  BY <1>12 DEF Kill
<1>13. ASSUME Start
      PROVE  CopyInv'
  BY <1>13 DEF Start
<1>14. ASSUME Stop
      PROVE  CopyInv'
  BY <1>14 DEF Stop
<1>15. ASSUME Sighup
      PROVE  CopyInv'
  BY <1>15 DEF Sighup
<1>16. ASSUME Reload
      PROVE  CopyInv'
  BY <1>16 DEF Reload
<1>17. ASSUME NEW c \in Clip, Store(c)
      PROVE  CopyInv'
  BY <1>17 DEF Store
<1>18. ASSUME NEW c \in Clip, NEW n \in 0..Blocks, Download(c, n)
      PROVE  CopyInv'
  <2>1. ASSUME NEW i \in Job, step[i] = "copy"
        PROVE  /\ Head(batch[i]) \in LocalName /\ OutPath(i) \in LocalName
               /\ local[Head(batch[i])] \in ClipFile /\ OutPath(i).age = FALSE
    BY <2>1, HeadIsName, OutPathIsName
  <2>2. Ciphertext(c, archive[c], n) \in ClipFile
    BY <1>18 DEF Download, Ciphertext, ClipFile
  <2>3. QED BY <1>18, <2>1, <2>2 DEF Download
<1>19. ASSUME NEW keys \in SUBSET shown, EditRecipients(keys)
      PROVE  CopyInv'
  BY <1>19 DEF EditRecipients
<1>20. ASSUME RepairFile
      PROVE  CopyInv'
  BY <1>20 DEF RepairFile
<1>21. ASSUME UNCHANGED vars
      PROVE  CopyInv'
  BY <1>21
<1>22. ASSUME NEW j \in Job, PrintSecret(j)
      PROVE  CopyInv'
  BY <1>22 DEF PrintSecret
<1> HIDE DEF OperationsInv, CopyInv, Goto, Decrypting,
           vars, configVars, serverVars, keyVars, decryptVars, OutPath, OperationsTypeOK
<1>23. QED BY <1>1, <1>2, <1>3, <1>4, <1>5, <1>6, <1>7, <1>8, <1>9, <1>10, <1>11,
           <1>12, <1>13, <1>14, <1>15, <1>16, <1>17, <1>18, <1>19, <1>20, <1>21, <1>22
       DEF Next, Command, Serve

(* validate refuses an [encryption] section without recipients. *)
LEMMA LoadsForSomebody ==
    ASSUME NEW f, Loads(f)
    PROVE  f.recipients # {}
  BY DEF Loads, Validate, ParseStr

(* Keys take their way. *)
LEMMA KeyStep ==
    ASSUME OperationsInv, [Next]_vars
    PROVE  KeyInv'
<1> USE OperationsAssumption DEF OperationsInv, KeyInv, Goto, OperationsTypeOK, Safe, Kept,
           vars, configVars, serverVars, keyVars, decryptVars
<1>1. ASSUME NEW j \in Job, NEW r \in Request, AddAccount(j, r)
      PROVE  KeyInv'
  BY <1>1 DEF AddAccount
<1>2. ASSUME NEW j \in Job, Writes(j) PROVE KeyInv'
  <2>1. /\ file' = [lines |-> file'.lines, end |-> file'.end, recipients |-> file'.recipients]
        /\ file'.recipients = file.recipients
    BY <1>2, WritesDoes
  <2>2. /\ UNCHANGED <<server, archive, pair, path, identity, printed, shown, overwritten>>
        /\ \A i \in Job : step'[i] \in {"create", "write", "print", "show"} => step'[i] = step[i]
    BY <1>2, WritesDoes
  <2> QED BY <2>1, <2>2
<1>3. ASSUME NEW j \in Job, NEW k \in Key, NEW p \in IdentityPath \cup {None}, Genkey(j, k, p)
      PROVE  KeyInv'
  BY <1>3, SMTT(20) DEF Genkey
<1>4. ASSUME NEW j \in Job, CreateIdentity(j)
      PROVE  KeyInv'
  <2>1. path[j] \in IdentityPath BY <1>4 DEF CreateIdentity
  <2>2. /\ identity' = [identity EXCEPT ![path[j]] = None]
        /\ overwritten' = overwritten \cup ({identity[path[j]]} \ {None})
        /\ UNCHANGED printed
    BY <1>4 DEF CreateIdentity, PutIdentity
  <2>3. \A k \in Key : Safe(k) => Safe(k)' BY <2>1, <2>2
  <2>4. UNCHANGED <<file, server, archive, shown, pair, path>>
    BY <1>4 DEF CreateIdentity, PutIdentity
  <2>5. step[j] = "create" /\ step' = [step EXCEPT ![j] = "write"] BY <1>4 DEF CreateIdentity
  <2> HIDE DEF Safe
  <2> QED BY <2>3, <2>4, <2>5
<1>5. ASSUME NEW j \in Job, WriteIdentity(j)
      PROVE  KeyInv'
  <2>1. path[j] \in IdentityPath /\ pair[j] \in Key BY <1>5 DEF WriteIdentity
  <2>2. /\ identity' = [identity EXCEPT ![path[j]] = pair[j]]
        /\ overwritten' = overwritten \cup ({identity[path[j]]} \ {None})
        /\ UNCHANGED printed
    BY <1>5 DEF WriteIdentity, PutIdentity
  <2>3. \A k \in Key : Safe(k) => Safe(k)' BY <2>1, <2>2
  <2>4. UNCHANGED <<file, server, archive, shown, pair, path>>
    BY <1>5 DEF WriteIdentity, PutIdentity
  <2>5. step[j] = "write" /\ step' = [step EXCEPT ![j] = "show"] BY <1>5 DEF WriteIdentity
  <2>6. Safe(pair[j])' BY <2>1, <2>2, <2>4
  <2>7. \A i \in Job : step'[i] = "show" => Safe(pair[i])'
    BY <2>3, <2>4, <2>5, <2>6
  <2> HIDE DEF Safe
  <2> QED BY <2>3, <2>4, <2>5, <2>7
<1>6. ASSUME NEW j \in Job, ShowRecipient(j)
      PROVE  KeyInv'
  BY <1>6 DEF ShowRecipient
<1>7. ASSUME NEW j \in Job, NEW k \in Key, NEW o \in {None, "out"}, NEW files \in Batch,
          Decrypt(j, k, o, files)
      PROVE  KeyInv'
  BY <1>7 DEF Decrypt
<1>8. ASSUME NEW j \in Job, NextInput(j)
      PROVE  KeyInv'
  BY <1>8 DEF NextInput
<1>9. ASSUME NEW j \in Job, CopyBlock(j)
      PROVE  KeyInv'
  BY <1>9 DEF CopyBlock
<1>10. ASSUME NEW j \in Job, EndOfClip(j)
      PROVE  KeyInv'
  BY <1>10 DEF EndOfClip
<1>11. ASSUME NEW j \in Job, DecryptError(j)
      PROVE  KeyInv'
  BY <1>11 DEF DecryptError
<1>12. ASSUME NEW j \in Job, Kill(j)
      PROVE  KeyInv'
  BY <1>12 DEF Kill
<1>13. ASSUME Start
      PROVE  KeyInv'
  BY <1>13, LoadsForSomebody DEF Start, Process
<1>14. ASSUME Stop
      PROVE  KeyInv'
  BY <1>14 DEF Stop
<1>15. ASSUME Sighup
      PROVE  KeyInv'
  BY <1>15 DEF Sighup
<1>16. ASSUME Reload
      PROVE  KeyInv'
  BY <1>16 DEF Reload
<1>17. ASSUME NEW c \in Clip, Store(c)
      PROVE  KeyInv'
  BY <1>17 DEF Store, LoggedIn
<1>18. ASSUME NEW c \in Clip, NEW n \in 0..Blocks, Download(c, n)
      PROVE  KeyInv'
  BY <1>18 DEF Download
<1>19. ASSUME NEW keys \in SUBSET shown, EditRecipients(keys)
      PROVE  KeyInv'
  BY <1>19 DEF EditRecipients
<1>20. ASSUME RepairFile
      PROVE  KeyInv'
  BY <1>20, RepairDoes
<1>21. ASSUME UNCHANGED vars
      PROVE  KeyInv'
  BY <1>21
<1>22. ASSUME NEW j \in Job, PrintSecret(j)
      PROVE  KeyInv'
  BY <1>22 DEF PrintSecret
<1> HIDE DEF OperationsInv, KeyInv, Goto, OperationsTypeOK, Safe, Kept,
           vars, configVars, serverVars, keyVars, decryptVars
<1>23. QED BY <1>1, <1>2, <1>3, <1>4, <1>5, <1>6, <1>7, <1>8, <1>9, <1>10, <1>11,
           <1>12, <1>13, <1>14, <1>15, <1>16, <1>17, <1>18, <1>19, <1>20, <1>21, <1>22
       DEF Next, Command, Serve

(* No step leaves a partial plaintext behind. *)
LEMMA PlaintextStep ==
    ASSUME OperationsInv, NoPartialPlaintext, [Next]_vars
    PROVE  NoPartialPlaintext'
<1> USE OperationsAssumption DEF OperationsInv, CopyInv, Goto, OperationsTypeOK, NoPartialPlaintext,
           vars, configVars, serverVars, keyVars, decryptVars, OutPath
<1>1. ASSUME NEW j \in Job, NEW r \in Request, AddAccount(j, r)
      PROVE  NoPartialPlaintext'
  BY <1>1 DEF AddAccount
<1>2. ASSUME NEW j \in Job, Writes(j) PROVE NoPartialPlaintext'
  <2>1. PICK label \in {"append", "line", "rest", "done"} : step' = [step EXCEPT ![j] = label]
    BY <1>2, WritesDoes
  <2>2. step[j] \in {"append", "line", "rest"} /\ UNCHANGED decryptVars
    BY <1>2, WritesDoes
  <2> QED BY <2>1, <2>2
<1>3. ASSUME NEW j \in Job, NEW k \in Key, NEW p \in IdentityPath \cup {None}, Genkey(j, k, p)
      PROVE  NoPartialPlaintext'
  BY <1>3 DEF Genkey
<1>4. ASSUME NEW j \in Job, CreateIdentity(j)
      PROVE  NoPartialPlaintext'
  BY <1>4 DEF CreateIdentity, PutIdentity
<1>5. ASSUME NEW j \in Job, WriteIdentity(j)
      PROVE  NoPartialPlaintext'
  BY <1>5 DEF WriteIdentity, PutIdentity
<1>6. ASSUME NEW j \in Job, ShowRecipient(j)
      PROVE  NoPartialPlaintext'
  BY <1>6 DEF ShowRecipient
<1>7. ASSUME NEW j \in Job, NEW k \in Key, NEW o \in {None, "out"}, NEW files \in Batch,
          Decrypt(j, k, o, files)
      PROVE  NoPartialPlaintext'
  BY <1>7 DEF Decrypt
<1>8. ASSUME NEW j \in Job, NextInput(j)
      PROVE  NoPartialPlaintext'
  BY <1>8 DEF NextInput
<1>9. ASSUME NEW j \in Job, CopyBlock(j)
      PROVE  NoPartialPlaintext'
  BY <1>9 DEF CopyBlock
<1>10. ASSUME NEW j \in Job, EndOfClip(j)
      PROVE  NoPartialPlaintext'
  <2>1. /\ step[j] = "copy" /\ step' = [step EXCEPT ![j] = "next"]
        /\ batch' = [batch EXCEPT ![j] = Tail(@)]
        /\ local[OutPath(j)].blocks = Blocks
        /\ UNCHANGED <<local, output>>
    BY <1>10 DEF EndOfClip
  <2>2. ASSUME NEW n \in LocalName, local[n] # None, ~n.age, local[n].blocks # Blocks
        PROVE  \E i \in Job : /\ step'[i] \in {"copy", "killed"}
                              /\ batch'[i] # <<>> /\ OutPath(i)' = n
    <3>1. PICK i \in Job : step[i] \in {"copy", "killed"} /\ batch[i] # <<>> /\ OutPath(i) = n
      BY <2>2
    <3>2. i # j
      BY <2>1, <2>2, <3>1
    <3>3. step'[i] = step[i] /\ batch'[i] = batch[i] /\ output'[i] = output[i]
      BY <2>1, <3>2
    <3>4. QED BY <3>1, <3>3
  <2>3. QED BY <2>1, <2>2
<1>11. ASSUME NEW j \in Job, DecryptError(j)
      PROVE  NoPartialPlaintext'
  BY <1>11 DEF DecryptError
<1>12. ASSUME NEW j \in Job, Kill(j)
      PROVE  NoPartialPlaintext'
  BY <1>12 DEF Kill
<1>13. ASSUME Start
      PROVE  NoPartialPlaintext'
  BY <1>13 DEF Start
<1>14. ASSUME Stop
      PROVE  NoPartialPlaintext'
  BY <1>14 DEF Stop
<1>15. ASSUME Sighup
      PROVE  NoPartialPlaintext'
  BY <1>15 DEF Sighup
<1>16. ASSUME Reload
      PROVE  NoPartialPlaintext'
  BY <1>16 DEF Reload
<1>17. ASSUME NEW c \in Clip, Store(c)
      PROVE  NoPartialPlaintext'
  BY <1>17 DEF Store
<1>18. ASSUME NEW c \in Clip, NEW n \in 0..Blocks, Download(c, n)
      PROVE  NoPartialPlaintext'
  BY <1>18 DEF Download
<1>19. ASSUME NEW keys \in SUBSET shown, EditRecipients(keys)
      PROVE  NoPartialPlaintext'
  BY <1>19 DEF EditRecipients
<1>20. ASSUME RepairFile
      PROVE  NoPartialPlaintext'
  BY <1>20 DEF RepairFile
<1>21. ASSUME UNCHANGED vars
      PROVE  NoPartialPlaintext'
  BY <1>21
<1>22. ASSUME NEW j \in Job, PrintSecret(j)
      PROVE  NoPartialPlaintext'
  BY <1>22 DEF PrintSecret
<1> HIDE DEF OperationsInv, CopyInv, Goto, OperationsTypeOK, NoPartialPlaintext,
           vars, configVars, serverVars, keyVars, decryptVars, OutPath
<1>23. QED BY <1>1, <1>2, <1>3, <1>4, <1>5, <1>6, <1>7, <1>8, <1>9, <1>10, <1>11,
           <1>12, <1>13, <1>14, <1>15, <1>16, <1>17, <1>18, <1>19, <1>20, <1>21, <1>22
       DEF Next, Command, Serve

(* The initial state: one key, in its file, shown and configured. *)
LEMMA InvInit == Init => OperationsInv /\ NoPartialPlaintext
<1> SUFFICES ASSUME Init PROVE OperationsInv /\ NoPartialPlaintext
  OBVIOUS
<1> USE OperationsAssumption DEF Init
<1>1. OperationsTypeOK
  <2>1. file.recipients \in SUBSET Key /\ file.end = EndsAt("newline")
    BY DEF FirstFile
  <2>2. file.end \in [at : Ends, by : Job \cup {None}, own : BOOLEAN]
    BY <2>1 DEF EndsAt, Ends
  <2>3. 0 \in 0..MaxShort OBVIOUS
  <2>4. local \in [LocalName -> {None} \cup ClipFile] OBVIOUS
  <2>5. identity \in [IdentityPath -> Key \cup {None}] OBVIOUS
  <2> QED BY <2>1, <2>2, <2>3, <2>4, <2>5 DEF OperationsTypeOK, Label
<1>2. CopyInv
  BY DEF CopyInv, Decrypting
<1>3. KeyInv
  BY DEF KeyInv, FirstFile, Safe, Kept
<1>4. NoPartialPlaintext
  BY DEF NoPartialPlaintext
<1>5. QED BY <1>1, <1>2, <1>3, <1>4 DEF OperationsInv

(* The invariant is inductive. *)
LEMMA InvStep == OperationsInv /\ [Next]_vars => OperationsInv'
  BY TypeStep, CopyStep, KeyStep DEF OperationsInv

(* The types of files, keys, jobs and server hold whatever commands, kills,*)
(* restarts and reloads meet.                                              *)
THEOREM OperationsTypeCorrect == Spec => []OperationsTypeOK
<1>1. OperationsInv => OperationsTypeOK
  BY DEF OperationsInv
<1>2. QED BY <1>1, InvInit, InvStep, PTL DEF Spec

(* Every clip encrypt_stream sealed opens with a secret key that genkey put *)
(* into an identity file or printed, unless a genkey was given that very    *)
(* file later: genkey shows a public key after its secret one is out, and   *)
(* neither start nor reload takes up an empty list of recipients.           *)
THEOREM SealedFootageOpens == Spec => []FootageRecoverable
<1>1. OperationsInv => FootageRecoverable
  BY DEF OperationsInv, KeyInv, FootageRecoverable, Safe
<1>2. QED BY <1>1, InvInit, InvStep, PTL DEF Spec

(* decrypt leaves a plaintext that is not whole only where it is at work on *)
(* it or was killed at it: with any key, any list of files and downloads    *)
(* of any length.                                                           *)
THEOREM PlaintextsWhole == Spec => []NoPartialPlaintext
<1>1. OperationsInv /\ NoPartialPlaintext /\ [Next]_vars => NoPartialPlaintext'
  BY PlaintextStep
<1>2. QED BY <1>1, InvInit, InvStep, PTL DEF Spec
=============================================================================
