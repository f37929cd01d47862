------------------------- MODULE FtpSessionsProofs -------------------------
(***************************************************************************)
(* Proofs about FtpSessions.tla: the login path, the presence events, the  *)
(* reload and the reaper around the tracker, for every finite set of       *)
(* accounts and connections, every set of config files and every TTL.      *)
(***************************************************************************)
EXTENDS FtpSessions, SessionTrackerProofs, FunctionTheorems

(* A connection that has got past authenticate carries an account name. *)
KnownUsers == \A s \in Session : conn[s].phase # "closed" => conn[s].user \in Account

(* reload_config between its two writes: the caps are those of the account *)
(* map, except after accounts.store, when the file being loaded is known   *)
(* to be the one the map was built from.  ConfigCoherent alone is not      *)
(* inductive: it does not say what set_limits is about to write.           *)
ReloadHalfway ==
    IF reload.step = "stored"
    THEN accounts = reload.cfg
    ELSE maxGlobal = accounts.limit.global /\ maxPerAccount = accounts.limit.perAccount

SessionInv == SessionsTypeOK /\ GlobalIsSum /\ KnownUsers /\ ReloadHalfway

(* What a configuration holds. *)
LEMMA ConfigFacts ==
    ASSUME NEW c \in Config
    PROVE  c.accounts \subseteq Account /\ c.limit \in Limit
BY SessionsAssumption

LEMMA SessionInvInit == Init => SessionInv /\ TrackerInit
<1> SUFFICES ASSUME NEW c \in Config,
                    perAccount = [a \in Account |-> <<>>], global = 0,
                    maxGlobal = c.limit.global, maxPerAccount = c.limit.perAccount,
                    conn = [s \in Session |-> Closed], accounts = c, file = c,
                    hup = FALSE, reload = Idle
             PROVE  SessionInv /\ TrackerInit
  BY DEF Init
<1>1. TrackerInit
  BY ConfigFacts DEF TrackerInit
<1>2. TrackerTypeOK /\ GlobalIsSum
  BY <1>1, TrackerInvInit DEF TrackerInv
<1>3. Closed \in [phase : Phase, user : Account \cup {Nobody}, age : Age]
  BY TrackerAssumption DEF Closed, Phase, Age
<1>4. SessionsTypeOK
  BY <1>2, <1>3 DEF SessionsTypeOK
<1> QED BY <1>1, <1>2, <1>4 DEF SessionInv, KnownUsers, ReloadHalfway, Closed, Idle

(* What the steps of a connection do: one connection moves, and the        *)
(* reload is not touched.                                                  *)
LEMMA ConnectionMove ==
    ASSUME SessionInv, TrackerInv', NEW s \in Session, NEW c,
           c \in [phase : Phase, user : Account \cup {Nobody}, age : Age],
           c.phase # "closed" => c.user \in Account,
           conn' = [conn EXCEPT ![s] = c],
           UNCHANGED <<maxGlobal, maxPerAccount, accounts, file, hup, reload>>
    PROVE  SessionInv'
<1>1. SessionsTypeOK' /\ GlobalIsSum'
  BY DEF SessionInv, SessionsTypeOK, TrackerInv
<1>2. KnownUsers'
  BY DEF SessionInv, SessionsTypeOK, KnownUsers
<1>3. ReloadHalfway'
  BY DEF SessionInv, ReloadHalfway
<1> QED BY <1>1, <1>2, <1>3 DEF SessionInv

(* Every step of the composed system is one of the tracker's, or none. *)
LEMMA TrackerStep ==
    ASSUME SessionInv, [Next]_vars
    PROVE  [TrackerNext]_trackerVars
<1>1. ASSUME NEW s \in Session, conn[s].phase # "closed"
      PROVE  conn[s].user \in Account
  BY <1>1 DEF SessionInv, KnownUsers
<1>2. ASSUME NEW s \in Session, NEW u, NEW secure, Authenticate(s, u, secure)
      PROVE  UNCHANGED trackerVars
  BY <1>2 DEF Authenticate
<1>3. ASSUME NEW s \in Session, Admit(s) PROVE TrackerNext
  <2>1. conn[s].user \in Account /\ TryAdmit(conn[s].user)
    BY <1>1, <1>3 DEF Admit
  <2> QED BY <2>1 DEF TrackerNext
<1>4. ASSUME NEW s \in Session, LoggedOut(s) PROVE TrackerNext
  <2>1. conn[s].user \in Account /\ OnLogout(conn[s].user)
    BY <1>1, <1>4 DEF LoggedOut
  <2> QED BY <2>1 DEF TrackerNext
<1>5. ASSUME NEW s \in Session,
             RefuseAtCapacity(s) \/ ProvideUserDetail(s) \/ CloseCleanly(s) \/ Drop(s)
      PROVE  UNCHANGED trackerVars
  BY <1>5 DEF RefuseAtCapacity, ProvideUserDetail, CloseCleanly, Drop
<1>6. ASSUME NEW f, EditFile(f) PROVE UNCHANGED trackerVars
  BY <1>6 DEF EditFile
<1>7. CASE Sighup \/ ReloadLoad \/ ReloadStore
  BY <1>7 DEF Sighup, ReloadLoad, ReloadStore
<1>8. CASE ReloadLimits
  <2>1. reload \in [step : {"loaded", "stored"}, cfg : Config]
    BY <1>8 DEF ReloadLimits, SessionInv, SessionsTypeOK, Idle
  <2>2. reload.cfg.limit \in Limit
    BY <2>1, ConfigFacts
  <2> QED BY <1>8, <2>2 DEF ReloadLimits, TrackerNext
<1>9. CASE Reaper \/ TimePasses
  BY <1>9 DEF Reaper, TimePasses, TrackerNext
<1>10. CASE UNCHANGED vars
  BY <1>10 DEF vars
<1> QED
  BY <1>2, <1>3, <1>4, <1>5, <1>6, <1>7, <1>8, <1>9, <1>10 DEF Next

LEMMA SessionInvStep == SessionInv /\ [Next]_vars => SessionInv'
<1> SUFFICES ASSUME SessionInv, [Next]_vars PROVE SessionInv'
  OBVIOUS
<1> DEFINE Conn == [phase : Phase, user : Account \cup {Nobody}, age : Age]
<1>1. TrackerInv /\ TrackerInv'
  BY TrackerStep, TrackerInvStep DEF SessionInv, SessionsTypeOK, TrackerInv
<1>2. TrackerTypeOK' /\ GlobalIsSum'
  BY <1>1 DEF TrackerInv
<1>3. Closed \in Conn /\ Closed.phase = "closed"
  BY TrackerAssumption DEF Closed, Phase, Age
<1>4. conn \in [Session -> Conn]
  BY DEF SessionInv, SessionsTypeOK
<1>5. ASSUME NEW s \in Session, conn[s].phase # "closed"
      PROVE  conn[s].user \in Account
  BY <1>5 DEF SessionInv, KnownUsers
<1>6. ASSUME NEW s \in Session, NEW u \in Account, NEW secure, Authenticate(s, u, secure)
      PROVE  SessionInv'
  <2> DEFINE c == [phase |-> "verified", user |-> u, age |-> 0]
  <2>1. c \in Conn /\ c.user \in Account
    BY TrackerAssumption DEF Phase, Age
  <2> QED BY <1>1, <1>6, <2>1, ConnectionMove DEF Authenticate, trackerVars
<1>7. ASSUME NEW s \in Session, NEW p \in Phase,
             conn[s].phase # "closed",
             conn' = [conn EXCEPT ![s].phase = p],
             UNCHANGED <<maxGlobal, maxPerAccount, accounts, file, hup, reload>>
      PROVE  SessionInv'
  <2> DEFINE c == [conn[s] EXCEPT !.phase = p]
  <2>1. c \in Conn /\ c.user = conn[s].user /\ conn' = [conn EXCEPT ![s] = c]
    BY <1>4, <1>7
  <2> QED BY <1>1, <1>5, <1>7, <2>1, ConnectionMove
<1>8. ASSUME NEW s \in Session, conn' = [conn EXCEPT ![s] = Closed],
             UNCHANGED <<maxGlobal, maxPerAccount, accounts, file, hup, reload>>
      PROVE  SessionInv'
  BY <1>1, <1>3, <1>8, ConnectionMove
<1>9. ASSUME NEW s \in Session, Admit(s) \/ CloseCleanly(s) PROVE SessionInv'
  BY <1>7, <1>9 DEF Admit, CloseCleanly, TryAdmit, trackerVars, Phase
<1>10. ASSUME NEW s \in Session, RefuseAtCapacity(s) \/ LoggedOut(s) \/ Drop(s)
       PROVE  SessionInv'
  BY <1>8, <1>10 DEF RefuseAtCapacity, LoggedOut, OnLogout, Drop, trackerVars
<1>11. ASSUME NEW s \in Session, ProvideUserDetail(s) PROVE SessionInv'
  <2>1. CASE conn[s].user \in accounts.accounts
    <3>1. conn' = [conn EXCEPT ![s].phase = "live"]
      BY <1>4, <1>11, <2>1 DEF ProvideUserDetail
    <3> QED BY <1>7, <1>11, <3>1 DEF ProvideUserDetail, trackerVars, Phase
  <2>2. CASE conn[s].user \notin accounts.accounts
    BY <1>8, <1>11, <2>2 DEF ProvideUserDetail, trackerVars
  <2> QED BY <2>1, <2>2
<1>12. ASSUME NEW f \in Config \cup {BadFile}, EditFile(f) PROVE SessionInv'
  BY <1>2, <1>12 DEF EditFile, trackerVars, SessionInv, SessionsTypeOK, KnownUsers,
                     ReloadHalfway
<1>13. CASE Sighup
  BY <1>2, <1>13 DEF Sighup, trackerVars, SessionInv, SessionsTypeOK, KnownUsers,
                     ReloadHalfway
<1>14. CASE ReloadLoad
  <2>1. reload' \in {Idle} \cup [step : {"loaded", "stored"}, cfg : Config]
    BY <1>14 DEF ReloadLoad, SessionInv, SessionsTypeOK
  <2>2. SessionsTypeOK' /\ KnownUsers'
    BY <1>2, <1>14, <2>1 DEF ReloadLoad, SessionInv, SessionsTypeOK, KnownUsers
  <2>3. reload.step # "stored" /\ reload'.step # "stored"
    BY <1>14 DEF ReloadLoad, Idle
  <2>4. ReloadHalfway'
    BY <1>14, <2>3 DEF ReloadLoad, SessionInv, ReloadHalfway, trackerVars
  <2> QED BY <1>2, <2>2, <2>4 DEF SessionInv
<1>15. CASE ReloadStore
  <2>1. reload \in [step : {"loaded", "stored"}, cfg : Config]
    BY <1>15 DEF ReloadStore, SessionInv, SessionsTypeOK, Idle
  <2>2. /\ reload' \in [step : {"loaded", "stored"}, cfg : Config]
        /\ reload'.step = "stored" /\ reload'.cfg = reload.cfg
    BY <1>15, <2>1 DEF ReloadStore
  <2>3. SessionsTypeOK' /\ KnownUsers'
    BY <1>2, <1>15, <2>1, <2>2 DEF ReloadStore, SessionInv, SessionsTypeOK, KnownUsers
  <2>4. ReloadHalfway'
    BY <1>15, <2>2 DEF ReloadStore, ReloadHalfway
  <2> QED BY <1>2, <2>3, <2>4 DEF SessionInv
<1>16. CASE ReloadLimits
  <2>1. reload' = Idle /\ Idle.step = "idle"
    BY <1>16 DEF ReloadLimits, Idle
  <2>2. SessionsTypeOK' /\ KnownUsers'
    BY <1>2, <1>16, <2>1 DEF ReloadLimits, SessionInv, SessionsTypeOK, KnownUsers
  <2>3. ReloadHalfway'
    BY <1>16, <2>1 DEF ReloadLimits, SetLimits, SessionInv, ReloadHalfway
  <2> QED BY <1>2, <2>2, <2>3 DEF SessionInv
<1>17. CASE Reaper
  BY <1>2, <1>17 DEF Reaper, Reap, sessionVars, SessionInv, SessionsTypeOK, KnownUsers,
                     ReloadHalfway
<1>18. CASE TimePasses
  <2>1. ASSUME NEW s \in Session
        PROVE  /\ conn'[s] \in Conn /\ conn'[s].user = conn[s].user
               /\ conn'[s].phase = conn[s].phase
    <3>1. conn[s].age \in Age /\ Older(conn[s].age) \in Age
      BY <1>4, TrackerAssumption DEF Older, Age
    <3> QED BY <1>4, <1>18, <3>1 DEF TimePasses
  <2>2. conn' \in [Session -> Conn]
    BY <1>18, <2>1 DEF TimePasses
  <2>3. SessionsTypeOK' /\ KnownUsers'
    BY <1>2, <1>18, <2>1, <2>2 DEF TimePasses, SessionInv, SessionsTypeOK, KnownUsers
  <2>4. ReloadHalfway'
    BY <1>18 DEF TimePasses, Tick, SessionInv, ReloadHalfway
  <2> QED BY <1>2, <2>3, <2>4 DEF SessionInv
<1>19. CASE UNCHANGED vars
  BY <1>2, <1>19 DEF vars, trackerVars, sessionVars, SessionInv, SessionsTypeOK,
                     KnownUsers, ReloadHalfway
<1> QED
  BY <1>6, <1>9, <1>10, <1>11, <1>12, <1>13, <1>14, <1>15, <1>16, <1>17, <1>18,
     <1>19 DEF Next

LEMMA SessionInvariant == Spec => []SessionInv
BY SessionInvInit, SessionInvStep, PTL DEF Spec

(* Connections, account map, config file and reload keep their types. *)
THEOREM SessionsTypeCorrect == Spec => []SessionsTypeOK
<1>1. SessionInv => SessionsTypeOK
  BY DEF SessionInv
<1> QED BY <1>1, SessionInvariant, PTL

(* Whenever reload_config is not under way the account map and the caps    *)
(* in use come from the same file, however edits, signals and failed loads *)
(* are interleaved with logins.                                            *)
THEOREM ReloadCoherent == Spec => []ConfigCoherent
<1>1. SessionInv => ConfigCoherent
  BY DEF SessionInv, ReloadHalfway, ConfigCoherent
<1> QED BY <1>1, SessionInvariant, PTL

(* The composed system implements the tracker's own specification: login   *)
(* path, presence events, reload and reaper use nothing but its methods,   *)
(* with arguments it is specified for.                                     *)
THEOREM ImplementsTracker == Spec => TrackerSpec
<1>1. SessionInv /\ [Next]_vars => [TrackerNext]_trackerVars
  BY TrackerStep
<1> QED BY <1>1, SessionInvInit, SessionInvariant, PTL DEF Spec, TrackerSpec

(* So what was proved of the tracker alone holds of it in the server: the  *)
(* count is exact and the lists are in admission order.                    *)
THEOREM TrackerCorrectInServer == Spec => [](GlobalIsSum /\ OldestFirst)
BY ImplementsTracker, GlobalCountCorrect, AdmissionOrderKept, PTL
-----------------------------------------------------------------------------
(* From here on: no session lasts as long as the TTL.                      *)

FreshSessions(a, k) == {s \in SessionsOf(a) : conn[s].age <= k}
FreshSlots(a, k) == {i \in DOMAIN perAccount[a] : perAccount[a][i] <= k}

(* No connection is as old as the TTL. *)
NoneOverdue == \A s \in Session : conn[s].age < TTL

(* Slots and sessions are finitely many, so they can be compared. *)
LEMMA FreshFinite ==
    ASSUME SessionsTypeOK, NEW a \in Account, NEW k \in Int
    PROVE  /\ IsFiniteSet(FreshSessions(a, k)) /\ IsFiniteSet(SessionsOf(a))
           /\ IsFiniteSet(FreshSlots(a, k))
           /\ Cardinality(FreshSessions(a, k)) \in Nat
           /\ Cardinality(SessionsOf(a)) \in Nat
           /\ Cardinality(FreshSlots(a, k)) \in Nat
           /\ perAccount[a] \in Seq(Age) /\ Len(perAccount[a]) \in Nat
           /\ DOMAIN perAccount[a] = 1..Len(perAccount[a])
           /\ \A i \in 1..Len(perAccount[a]) : perAccount[a][i] \in Age
<1>1. IsFiniteSet(Session)
  BY SessionsAssumption
<1>2. FreshSessions(a, k) \in SUBSET Session /\ SessionsOf(a) \in SUBSET Session
  BY DEF FreshSessions, SessionsOf
<1>3. /\ perAccount[a] \in Seq(Age) /\ Len(perAccount[a]) \in Nat
      /\ DOMAIN perAccount[a] = 1..Len(perAccount[a])
      /\ \A i \in 1..Len(perAccount[a]) : perAccount[a][i] \in Age
  BY LenProperties, ElementOfSeq DEF SessionsTypeOK, TrackerTypeOK
<1>4. IsFiniteSet(1..Len(perAccount[a])) /\ FreshSlots(a, k) \in SUBSET (1..Len(perAccount[a]))
  BY <1>3, FS_Interval DEF FreshSlots
<1>5. /\ IsFiniteSet(FreshSessions(a, k)) /\ IsFiniteSet(SessionsOf(a))
      /\ IsFiniteSet(FreshSlots(a, k))
  BY <1>1, <1>2, <1>4, FS_Subset
<1> QED BY <1>3, <1>5, FS_CardinalityType

(* FreshSessionsCounted, in these words. *)
LEMMA FreshSame ==
    FreshSessionsCounted <=>
        \A a \in Account : \A k \in 0..(TTL - 1) :
            Cardinality(FreshSessions(a, k)) <= Cardinality(FreshSlots(a, k))
BY DEF FreshSessionsCounted, FreshSessions, FreshSlots

(* Steps after which no more sessions are in progress and none is younger. *)
LEMMA FreshFrame ==
    ASSUME SessionsTypeOK, SessionsTypeOK', FreshSessionsCounted,
           perAccount' = perAccount,
           \A s \in Session : InSession(s)' =>
               /\ InSession(s) /\ conn'[s].user = conn[s].user
               /\ conn'[s].age = conn[s].age
    PROVE  FreshSessionsCounted'
<1> SUFFICES ASSUME NEW a \in Account, NEW k \in 0..(TTL - 1)
             PROVE  Cardinality(FreshSessions(a, k)') <= Cardinality(FreshSlots(a, k)')
  BY DEF FreshSessionsCounted, FreshSessions, FreshSlots
<1>0. k \in Int
  BY TrackerAssumption
<1>1. FreshSessions(a, k)' \in SUBSET FreshSessions(a, k)
  BY DEF FreshSessions, SessionsOf
<1>2. FreshSlots(a, k)' = FreshSlots(a, k)
  BY DEF FreshSlots
<1>3. /\ IsFiniteSet(FreshSessions(a, k)) /\ Cardinality(FreshSessions(a, k)) \in Nat
      /\ Cardinality(FreshSlots(a, k)) \in Nat
  BY <1>0, FreshFinite
<1>4. Cardinality(FreshSessions(a, k)) <= Cardinality(FreshSlots(a, k))
  BY FreshSame
<1>5. /\ Cardinality(FreshSessions(a, k)') <= Cardinality(FreshSessions(a, k))
      /\ Cardinality(FreshSessions(a, k)') \in Nat
  BY <1>1, <1>3, FS_Subset, FS_CardinalityType
<1> QED BY <1>2, <1>3, <1>4, <1>5

(* try_admit: one session more, and one slot of age 0 more. *)
LEMMA FreshAdmit ==
    ASSUME SessionInv, SessionsTypeOK', FreshSessionsCounted, NEW t \in Session, Admit(t)
    PROVE  FreshSessionsCounted'
<1> SUFFICES ASSUME NEW a \in Account, NEW k \in 0..(TTL - 1)
             PROVE  Cardinality(FreshSessions(a, k)') <= Cardinality(FreshSlots(a, k)')
  BY DEF FreshSessionsCounted, FreshSessions, FreshSlots
<1> DEFINE u == conn[t].user
           n == Len(perAccount[u]) + 1
<1>0. k \in Int /\ k >= 0 /\ SessionsTypeOK /\ u \in Account
  BY TrackerAssumption DEF SessionInv, KnownUsers, Admit
<1>1. Cardinality(FreshSessions(a, k)) <= Cardinality(FreshSlots(a, k))
  BY FreshSame
<1>2. /\ IsFiniteSet(FreshSessions(a, k)) /\ Cardinality(FreshSessions(a, k)) \in Nat
      /\ IsFiniteSet(FreshSlots(a, k)) /\ Cardinality(FreshSlots(a, k)) \in Nat
  BY <1>0, FreshFinite
<1>3. /\ conn' = [conn EXCEPT ![t].phase = "admitted"]
      /\ perAccount' = [perAccount EXCEPT ![u] = Append(@, 0)]
  BY DEF Admit, TryAdmit
<1>4. ASSUME NEW s \in Session, s # t
      PROVE  conn'[s] = conn[s]
  BY <1>0, <1>3, <1>4 DEF SessionsTypeOK
<1>5. conn'[t].user = u
  BY <1>0, <1>3 DEF SessionsTypeOK
<1>6. CASE a # u
  <2>1. FreshSessions(a, k)' \in SUBSET FreshSessions(a, k)
    BY <1>4, <1>5, <1>6 DEF FreshSessions, SessionsOf, InSession
  <2>2. FreshSlots(a, k)' = FreshSlots(a, k)
    BY <1>0, <1>3, <1>6 DEF FreshSlots, SessionsTypeOK, TrackerTypeOK
  <2>3. /\ Cardinality(FreshSessions(a, k)') <= Cardinality(FreshSessions(a, k))
        /\ Cardinality(FreshSessions(a, k)') \in Nat
    BY <1>2, <2>1, FS_Subset, FS_CardinalityType
  <2> QED BY <1>1, <1>2, <2>2, <2>3
<1>7. CASE a = u
  <2>1. FreshSessions(a, k)' \in SUBSET (FreshSessions(a, k) \cup {t})
    BY <1>4 DEF FreshSessions, SessionsOf, InSession
  <2>2. /\ IsFiniteSet(FreshSessions(a, k) \cup {t})
        /\ Cardinality(FreshSessions(a, k) \cup {t}) \in Nat
        /\ Cardinality(FreshSessions(a, k) \cup {t}) <= Cardinality(FreshSessions(a, k)) + 1
    <3>1. /\ IsFiniteSet(FreshSessions(a, k) \cup {t})
          /\ \/ Cardinality(FreshSessions(a, k) \cup {t}) = Cardinality(FreshSessions(a, k))
             \/ Cardinality(FreshSessions(a, k) \cup {t}) = Cardinality(FreshSessions(a, k)) + 1
      BY <1>2, FS_AddElement
    <3>2. Cardinality(FreshSessions(a, k) \cup {t}) \in Nat
      BY <3>1, FS_CardinalityType
    <3> QED BY <1>2, <3>1, <3>2
  <2>3. /\ Cardinality(FreshSessions(a, k)') <= Cardinality(FreshSessions(a, k) \cup {t})
        /\ Cardinality(FreshSessions(a, k)') \in Nat
    BY <2>1, <2>2, FS_Subset, FS_CardinalityType
  <2>4. perAccount'[a] = Append(perAccount[a], 0)
    BY <1>0, <1>3, <1>7 DEF SessionsTypeOK, TrackerTypeOK
  <2>5. /\ perAccount[a] \in Seq(Age) /\ Len(perAccount[a]) \in Nat
        /\ DOMAIN perAccount[a] = 1..Len(perAccount[a])
    BY <1>0, FreshFinite
  <2>6. /\ DOMAIN perAccount'[a] = 1..n
        /\ \A i \in 1..Len(perAccount[a]) : perAccount'[a][i] = perAccount[a][i]
        /\ perAccount'[a][n] = 0
    BY <1>7, <2>4, <2>5
  <2>7. FreshSlots(a, k)' = FreshSlots(a, k) \cup {n} /\ n \notin FreshSlots(a, k)
    <3>1. FreshSlots(a, k)' = {i \in 1..n : perAccount'[a][i] <= k}
      BY <2>6 DEF FreshSlots
    <3>2. FreshSlots(a, k) = {i \in 1..Len(perAccount[a]) : perAccount[a][i] <= k}
      BY <2>5 DEF FreshSlots
    <3>3. n = Len(perAccount[a]) + 1
      BY <1>7
    <3> HIDE DEF n
    <3>4. \A i : i \in 1..n <=> i \in 1..Len(perAccount[a]) \/ i = n
      BY <2>5, <3>3
    <3>5. n \notin 1..Len(perAccount[a]) /\ 0 <= k
      BY <1>0, <2>5, <3>3
    <3> QED BY <2>6, <3>1, <3>2, <3>4, <3>5
  <2>8. Cardinality(FreshSlots(a, k)') = Cardinality(FreshSlots(a, k)) + 1
    <3> HIDE DEF n
    <3> QED BY <1>2, <2>7, FS_AddElement
  <2> QED BY <1>1, <1>2, <2>2, <2>3, <2>8
<1> QED BY <1>6, <1>7

(* on_logout: the oldest slot of the account goes with one of its          *)
(* sessions, perhaps not the oldest.  If the slot is older than k, the     *)
(* slots up to age k are untouched.  If it is not, all slots of the        *)
(* account are up to age k, and there were enough of them for all of its   *)
(* sessions: none of those is as old as the TTL.                           *)
LEMMA FreshLogout ==
    ASSUME SessionInv, SessionsTypeOK', OldestFirst, NoneOverdue, FreshSessionsCounted,
           NEW t \in Session, LoggedOut(t)
    PROVE  FreshSessionsCounted'
<1> SUFFICES ASSUME NEW a \in Account, NEW k \in 0..(TTL - 1)
             PROVE  Cardinality(FreshSessions(a, k)') <= Cardinality(FreshSlots(a, k)')
  BY DEF FreshSessionsCounted, FreshSessions, FreshSlots
<1> USE TrackerAssumption
<1> DEFINE u == conn[t].user
           all == Cardinality(SessionsOf(a))
<1>0. k \in Int /\ k >= 0 /\ k < TTL /\ SessionsTypeOK /\ u \in Account
  BY DEF SessionInv, KnownUsers, LoggedOut
<1>1. Cardinality(FreshSessions(a, k)) <= Cardinality(FreshSlots(a, k))
  BY FreshSame
<1>2. /\ IsFiniteSet(FreshSessions(a, k)) /\ Cardinality(FreshSessions(a, k)) \in Nat
      /\ IsFiniteSet(FreshSlots(a, k)) /\ Cardinality(FreshSlots(a, k)) \in Nat
      /\ IsFiniteSet(SessionsOf(a)) /\ all \in Nat
      /\ perAccount[a] \in Seq(Age) /\ Len(perAccount[a]) \in Nat
      /\ DOMAIN perAccount[a] = 1..Len(perAccount[a])
      /\ \A i \in 1..Len(perAccount[a]) : perAccount[a][i] \in Age
  BY <1>0, FreshFinite
<1>3. conn' = [conn EXCEPT ![t] = Closed] /\ conn[t].phase = "leaving" /\ OnLogout(u)
  BY DEF LoggedOut
<1>4. ASSUME NEW s \in Session
      PROVE  InSession(s)' => s # t /\ conn'[s] = conn[s] /\ InSession(s)
  BY <1>0, <1>3 DEF SessionsTypeOK, InSession, Closed
<1>5. FreshSessions(a, k)' \in SUBSET FreshSessions(a, k)
  BY <1>4 DEF FreshSessions, SessionsOf
<1>6. /\ Cardinality(FreshSessions(a, k)') <= Cardinality(FreshSessions(a, k))
      /\ Cardinality(FreshSessions(a, k)') \in Nat
  BY <1>2, <1>5, FS_Subset, FS_CardinalityType
<1>7. CASE a # u \/ perAccount[a] = <<>>
  <2>1. FreshSlots(a, k)' = FreshSlots(a, k)
    BY <1>0, <1>3, <1>7 DEF FreshSlots, OnLogout, SessionsTypeOK, TrackerTypeOK
  <2> QED BY <1>1, <1>2, <1>6, <2>1
<1>8. CASE a = u /\ perAccount[a] # <<>>
  <2> DEFINE list == perAccount[a]
             n == Len(list)
  <2>1. perAccount'[a] = Tail(list) /\ n \in Nat \ {0}
    BY <1>0, <1>2, <1>3, <1>8, EmptySeq DEF OnLogout, SessionsTypeOK, TrackerTypeOK
  <2>2. /\ DOMAIN perAccount'[a] = 1..(n - 1)
        /\ \A i \in 1..(n - 1) : perAccount'[a][i] = list[i + 1]
    BY <1>2, <1>8, <2>1
  <2>3. Sorted(list)
    BY DEF OldestFirst, Sorted
  <2>4. CASE list[1] <= k
    <3>1. \A i \in 1..n : list[i] <= k
      <4>1. DOMAIN list = 1..n /\ \A i \in 1..n : list[i] \in Int
        BY <1>2 DEF Age
      <4> HIDE DEF list, n
      <4>2. ASSUME NEW i \in 1..n PROVE list[1] >= list[i] /\ 1 \in 1..n
        BY <2>1, <2>3, <4>1 DEF Sorted
      <4> QED BY <1>0, <2>4, <4>1, <4>2
    <3>2. FreshSlots(a, k)' = 1..(n - 1)
      BY <2>1, <2>2, <3>1 DEF FreshSlots
    <3>3. Cardinality(FreshSlots(a, k)') = n - 1
      BY <2>1, <3>2, FS_Interval
    <3>4. TTL - 1 \in 0..(TTL - 1) /\ TTL - 1 \in Int
      BY <1>0
    <3>5. SessionsOf(a) = FreshSessions(a, TTL - 1)
      <4>1. \A s \in Session : conn[s].age \in Int
        BY <1>0 DEF SessionsTypeOK, Age
      <4>2. \A s \in Session : conn[s].age <= TTL - 1
        BY <4>1 DEF NoneOverdue
      <4> QED BY <4>2 DEF FreshSessions, SessionsOf
    <3>6. FreshSlots(a, TTL - 1) \in SUBSET (1..n) /\ IsFiniteSet(1..n) /\ Cardinality(1..n) = n
      <4>1. FreshSlots(a, TTL - 1) \in SUBSET (1..n)
        BY <1>2 DEF FreshSlots
      <4> HIDE DEF n
      <4> QED BY <2>1, <4>1, FS_Interval
    <3>7. Cardinality(FreshSlots(a, TTL - 1)) <= n /\ Cardinality(FreshSlots(a, TTL - 1)) \in Nat
      BY <3>6, FS_Subset, FS_CardinalityType
    <3>8. all <= n
      BY <1>2, <2>1, <3>4, <3>5, <3>7, FreshSame
    <3>9. t \in SessionsOf(a)
      BY <1>3, <1>8 DEF SessionsOf, InSession
    <3>10. FreshSessions(a, k)' \in SUBSET (SessionsOf(a) \ {t})
      BY <1>4 DEF FreshSessions, SessionsOf
    <3>11. IsFiniteSet(SessionsOf(a) \ {t}) /\ Cardinality(SessionsOf(a) \ {t}) = all - 1
      BY <1>2, <3>9, FS_RemoveElement
    <3>12. Cardinality(FreshSessions(a, k)') <= all - 1
      BY <3>10, <3>11, FS_Subset
    <3> HIDE DEF all, n
    <3> QED BY <1>2, <1>6, <2>1, <3>3, <3>8, <3>12
  <2>5. CASE list[1] > k
    <3> DEFINE f == [i \in FreshSlots(a, k) |-> i - 1]
    <3>1. \A i \in FreshSlots(a, k) : i \in 2..n /\ list[i] <= k
      BY <1>0, <1>2, <2>1, <2>5 DEF FreshSlots, Age
    <3>2. \A i \in FreshSlots(a, k) : i - 1 \in FreshSlots(a, k)'
      BY <2>1, <2>2, <3>1 DEF FreshSlots
    <3>3. f \in Injection(FreshSlots(a, k), FreshSlots(a, k)')
      BY <3>1, <3>2 DEF Injection, IsInjective
    <3>4. IsFiniteSet(FreshSlots(a, k)')
      <4>1. FreshSlots(a, k)' \in SUBSET (1..(n - 1)) /\ IsFiniteSet(1..(n - 1))
        BY <2>1, <2>2, FS_Interval DEF FreshSlots
      <4> QED BY <4>1, FS_Subset
    <3>5. Cardinality(FreshSlots(a, k)) <= Cardinality(FreshSlots(a, k)')
      BY <3>3, <3>4, FS_Injection
    <3>6. Cardinality(FreshSlots(a, k)') \in Nat
      BY <3>4, FS_CardinalityType
    <3> QED BY <1>1, <1>2, <1>6, <3>5, <3>6
  <2>6. list[1] <= k \/ list[1] > k
    BY <1>0, <1>2, <2>1 DEF Age
  <2> QED BY <2>4, <2>5, <2>6
<1> QED BY <1>7, <1>8

(* reap: a slot below the TTL only moves to the front of its list. *)
LEMMA FreshReap ==
    ASSUME SessionsTypeOK, SessionsTypeOK', OldestFirst, FreshSessionsCounted, Reaper
    PROVE  FreshSessionsCounted'
<1> SUFFICES ASSUME NEW a \in Account, NEW k \in 0..(TTL - 1)
             PROVE  Cardinality(FreshSessions(a, k)') <= Cardinality(FreshSlots(a, k)')
  BY DEF FreshSessionsCounted, FreshSessions, FreshSlots
<1> DEFINE list == perAccount[a]
           c == Cardinality(Stale(list))
           n == Len(list)
<1>0. k \in Int /\ k < TTL /\ TTL \in Int
  BY TrackerAssumption
<1>1. Cardinality(FreshSessions(a, k)) <= Cardinality(FreshSlots(a, k))
  BY FreshSame
<1>2. /\ Cardinality(FreshSessions(a, k)) \in Nat /\ Cardinality(FreshSlots(a, k)) \in Nat
      /\ list \in Seq(Age) /\ n \in Nat /\ DOMAIN list = 1..n
      /\ \A i \in 1..n : list[i] \in Age
  BY <1>0, FreshFinite
<1>3. FreshSessions(a, k)' = FreshSessions(a, k)
  BY DEF Reaper, sessionVars, FreshSessions, SessionsOf, InSession
<1>4. Sorted(list) /\ perAccount'[a] = Retain(list)
  BY DEF OldestFirst, Sorted, Reaper, Reap
<1> HIDE DEF list
<1>5. /\ c \in 0..n /\ Stale(list) = 1..c
      /\ DOMAIN Retain(list) = 1..(n - c)
      /\ \A i \in 1..(n - c) : Retain(list)[i] = list[i + c]
  BY <1>2, <1>4, RetainExact
<1>6. FreshSlots(a, k) = {i \in 1..n : list[i] <= k}
  BY <1>2 DEF FreshSlots, list
<1>7. FreshSlots(a, k)' = {i \in 1..(n - c) : list[i + c] <= k}
  BY <1>4, <1>5 DEF FreshSlots
<1>8. \A i \in FreshSlots(a, k) : i \in (c + 1)..n
  <2> SUFFICES ASSUME NEW i \in 1..n, list[i] <= k PROVE i \in (c + 1)..n
    BY <1>6
  <2>1. i \notin Stale(list)
    BY <1>0, <1>2 DEF Stale, Age
  <2> HIDE DEF n, c
  <2> QED BY <1>2, <1>5, <2>1
<1> HIDE DEF c, n
<1> DEFINE f == [i \in FreshSlots(a, k) |-> i - c]
<1>9. \A i \in FreshSlots(a, k) : i - c \in FreshSlots(a, k)'
  BY <1>2, <1>5, <1>6, <1>7, <1>8
<1>10. f \in Injection(FreshSlots(a, k), FreshSlots(a, k)')
  <2>1. \A i, j \in FreshSlots(a, k) : i - c = j - c => i = j
    BY <1>2, <1>5, <1>8
  <2> QED BY <1>9, <2>1 DEF Injection, IsInjective
<1>11. IsFiniteSet(FreshSlots(a, k)')
  <2>1. FreshSlots(a, k)' \in SUBSET (1..(n - c)) /\ IsFiniteSet(1..(n - c))
    BY <1>2, <1>5, <1>7, FS_Interval
  <2> QED BY <2>1, FS_Subset
<1>12. /\ Cardinality(FreshSlots(a, k)) <= Cardinality(FreshSlots(a, k)')
       /\ Cardinality(FreshSlots(a, k)') \in Nat
  BY <1>10, <1>11, FS_Injection, FS_CardinalityType
<1> QED BY <1>1, <1>2, <1>3, <1>12

(* Time passes: what is now at most k old was at most k - 1 old before. *)
LEMMA FreshTick ==
    ASSUME SessionsTypeOK, SessionsTypeOK', FreshSessionsCounted, TimePasses
    PROVE  FreshSessionsCounted'
<1> SUFFICES ASSUME NEW a \in Account, NEW k \in 0..(TTL - 1)
             PROVE  Cardinality(FreshSessions(a, k)') <= Cardinality(FreshSlots(a, k)')
  BY DEF FreshSessionsCounted, FreshSessions, FreshSlots
<1> USE TrackerAssumption
<1>0. k \in Int /\ 0 <= k /\ k < TTL /\ k - 1 \in Int
  OBVIOUS
<1>1. \A x \in Age : Older(x) \in Nat /\ (Older(x) <= k <=> x <= k - 1)
  BY <1>0 DEF Older, Age
<1>2. ASSUME NEW s \in Session
      PROVE  /\ InSession(s)' <=> InSession(s)
             /\ conn'[s].user = conn[s].user
             /\ InSession(s) => conn'[s].age = Older(conn[s].age)
             /\ conn[s].age \in Age
  BY DEF TimePasses, InSession, SessionsTypeOK
<1>3. FreshSessions(a, k)' = FreshSessions(a, k - 1)
  <2>1. FreshSessions(a, k)' = {s \in Session : InSession(s)' /\ conn'[s].user = a
                                                 /\ conn'[s].age <= k}
    BY DEF FreshSessions, SessionsOf
  <2>2. FreshSessions(a, k - 1) = {s \in Session : InSession(s) /\ conn[s].user = a
                                                   /\ conn[s].age <= k - 1}
    BY DEF FreshSessions, SessionsOf
  <2>3. ASSUME NEW s \in Session
        PROVE  (InSession(s)' /\ conn'[s].user = a /\ conn'[s].age <= k)
                 <=> (InSession(s) /\ conn[s].user = a /\ conn[s].age <= k - 1)
    BY <1>1, <1>2
  <2> QED BY <2>1, <2>2, <2>3
<1>4. FreshSlots(a, k)' = FreshSlots(a, k - 1)
  <2>1. \A i \in DOMAIN perAccount[a] : perAccount[a][i] \in Age
    BY <1>0, FreshFinite
  <2>2. perAccount'[a] = [i \in DOMAIN perAccount[a] |-> Older(perAccount[a][i])]
    BY DEF TimePasses, Tick
  <2> QED BY <1>1, <2>1, <2>2 DEF FreshSlots
<1>5. CASE k >= 1
  BY <1>0, <1>3, <1>4, <1>5, FreshSame
<1>6. CASE k = 0
  <2>1. FreshSessions(a, k - 1) = {}
    BY <1>2, <1>6 DEF FreshSessions, SessionsOf, Age
  <2>2. Cardinality(FreshSlots(a, k - 1)) \in Nat
    BY <1>0, FreshFinite
  <2> QED BY <1>3, <1>4, <2>1, <2>2, FS_EmptySet
<1> QED BY <1>0, <1>5, <1>6

LEMMA NoneOverdueStep ==
    ASSUME ShortSessions
    PROVE  SessionInv /\ NoneOverdue /\ [Next]_vars => NoneOverdue'
<1> SUFFICES ASSUME SessionInv, NoneOverdue, [Next]_vars PROVE NoneOverdue'
  OBVIOUS
<1> USE TrackerAssumption
<1>1. conn \in [Session -> [phase : Phase, user : Account \cup {Nobody}, age : Age]]
  BY DEF SessionInv, SessionsTypeOK
<1>2. ASSUME NEW s \in Session, NEW c, conn' = [conn EXCEPT ![s] = c], c.age < TTL
      PROVE  NoneOverdue'
  BY <1>1, <1>2 DEF NoneOverdue
<1>3. ASSUME NEW s \in Session, NEW p, conn' = [conn EXCEPT ![s].phase = p]
      PROVE  NoneOverdue'
  BY <1>1, <1>3 DEF NoneOverdue
<1>4. Closed.age < TTL
  BY DEF Closed
<1>5. CASE conn' = conn
  BY <1>5 DEF NoneOverdue
<1>6. ASSUME NEW s \in Session, NEW u, NEW secure, Authenticate(s, u, secure)
      PROVE  NoneOverdue'
  <2> DEFINE c == [phase |-> "verified", user |-> u, age |-> 0]
  <2>1. conn' = [conn EXCEPT ![s] = c] /\ c.age < TTL
    BY <1>6 DEF Authenticate
  <2> HIDE DEF c
  <2> QED BY <1>2, <2>1
<1>7. ASSUME NEW s \in Session, Admit(s) \/ CloseCleanly(s) PROVE NoneOverdue'
  BY <1>3, <1>7 DEF Admit, CloseCleanly
<1>8. ASSUME NEW s \in Session, RefuseAtCapacity(s) \/ LoggedOut(s) \/ Drop(s)
      PROVE  NoneOverdue'
  BY <1>2, <1>4, <1>8 DEF RefuseAtCapacity, LoggedOut, Drop
<1>9. ASSUME NEW s \in Session, ProvideUserDetail(s) PROVE NoneOverdue'
  BY <1>1, <1>4, <1>9 DEF ProvideUserDetail, NoneOverdue
<1>10. ASSUME NEW f, EditFile(f) PROVE NoneOverdue'
  BY <1>5, <1>10 DEF EditFile
<1>11. CASE Sighup \/ ReloadLoad \/ ReloadStore \/ ReloadLimits \/ Reaper
  BY <1>5, <1>11 DEF Sighup, ReloadLoad, ReloadStore, ReloadLimits, Reaper, sessionVars
<1>12. CASE TimePasses
  <2> SUFFICES ASSUME NEW s \in Session PROVE conn'[s].age < TTL
    BY DEF NoneOverdue
  <2>1. conn[s].age \in Age /\ conn[s].age < TTL
    BY <1>1 DEF NoneOverdue
  <2>2. CASE InSession(s)
    <3>1. conn[s].age + 1 < TTL /\ conn'[s].age = Older(conn[s].age)
      BY <1>1, <1>12, <2>2 DEF TimePasses
    <3> QED BY <2>1, <3>1 DEF Older, Age
  <2>3. CASE ~InSession(s)
    BY <1>12, <2>1, <2>3 DEF TimePasses
  <2> QED BY <2>2, <2>3
<1>13. CASE UNCHANGED vars
  BY <1>5, <1>13 DEF vars, sessionVars
<1> QED BY <1>6, <1>7, <1>8, <1>9, <1>10, <1>11, <1>12, <1>13 DEF Next

LEMMA FreshStep ==
    ASSUME SessionInv, SessionInv', OldestFirst, NoneOverdue, FreshSessionsCounted,
           [Next]_vars
    PROVE  FreshSessionsCounted'
<1>1. SessionsTypeOK /\ SessionsTypeOK'
  BY DEF SessionInv
<1>2. conn \in [Session -> [phase : Phase, user : Account \cup {Nobody}, age : Age]]
  BY <1>1 DEF SessionsTypeOK
<1>3. ASSUME NEW s \in Session, NEW c, conn' = [conn EXCEPT ![s] = c],
             c.phase \in {"closed", "verified"}, perAccount' = perAccount
      PROVE  FreshSessionsCounted'
  BY <1>1, <1>2, <1>3, FreshFrame DEF InSession
<1>4. ASSUME NEW s \in Session, NEW p, InSession(s), conn' = [conn EXCEPT ![s].phase = p],
             perAccount' = perAccount
      PROVE  FreshSessionsCounted'
  BY <1>1, <1>2, <1>4, FreshFrame DEF InSession
<1>5. CASE conn' = conn /\ perAccount' = perAccount
  BY <1>1, <1>5, FreshFrame DEF InSession
<1>6. ASSUME NEW s \in Session, NEW u, NEW secure, Authenticate(s, u, secure)
      PROVE  FreshSessionsCounted'
  BY <1>3, <1>6 DEF Authenticate, trackerVars
<1>7. ASSUME NEW s \in Session, RefuseAtCapacity(s) \/ Drop(s) PROVE FreshSessionsCounted'
  BY <1>3, <1>7 DEF RefuseAtCapacity, Drop, trackerVars, Closed
<1>8. ASSUME NEW s \in Session, CloseCleanly(s) PROVE FreshSessionsCounted'
  BY <1>4, <1>8 DEF CloseCleanly, trackerVars, InSession
<1>9. ASSUME NEW s \in Session, ProvideUserDetail(s) PROVE FreshSessionsCounted'
  <2>1. CASE conn[s].user \in accounts.accounts
    <3>1. conn' = [conn EXCEPT ![s].phase = "live"]
      BY <1>2, <1>9, <2>1 DEF ProvideUserDetail
    <3> QED BY <1>4, <1>9, <3>1 DEF ProvideUserDetail, trackerVars, InSession
  <2>2. CASE conn[s].user \notin accounts.accounts
    BY <1>3, <1>9, <2>2 DEF ProvideUserDetail, trackerVars, Closed
  <2> QED BY <2>1, <2>2
<1>10. ASSUME NEW f, EditFile(f) PROVE FreshSessionsCounted'
  BY <1>5, <1>10 DEF EditFile, trackerVars
<1>11. CASE Sighup \/ ReloadLoad \/ ReloadStore \/ ReloadLimits
  BY <1>5, <1>11 DEF Sighup, ReloadLoad, ReloadStore, ReloadLimits, SetLimits, trackerVars
<1>12. CASE UNCHANGED vars
  BY <1>5, <1>12 DEF vars, trackerVars, sessionVars
<1> QED
  BY <1>1, <1>6, <1>7, <1>8, <1>9, <1>10, <1>11, <1>12, FreshAdmit, FreshLogout,
     FreshReap, FreshTick DEF Next

(* The inductive invariant behind the two theorems below.  The count of    *)
(* fresh sessions is not inductive alone: a logout gives up the oldest     *)
(* slot, which is a safe choice only in a list in admission order and only *)
(* while no session has outlived the TTL.                                  *)
LEMMA FreshInvariant ==
    ASSUME ShortSessions
    PROVE  Spec => [](NoneOverdue /\ FreshSessionsCounted)
<1> DEFINE Inv == NoneOverdue /\ FreshSessionsCounted
<1>1. Init => Inv
  <2> SUFFICES ASSUME Init PROVE Inv
    OBVIOUS
  <2>1. SessionInv
    BY SessionInvInit
  <2>2. conn = [s \in Session |-> Closed]
    BY DEF Init
  <2>3. NoneOverdue
    BY <2>2, TrackerAssumption DEF NoneOverdue, Closed
  <2>4. ASSUME NEW a \in Account, NEW k \in 0..(TTL - 1)
        PROVE  Cardinality(FreshSessions(a, k)) <= Cardinality(FreshSlots(a, k))
    <3>1. FreshSessions(a, k) = {}
      BY <2>2 DEF FreshSessions, SessionsOf, InSession, Closed
    <3>2. Cardinality(FreshSlots(a, k)) \in Nat
      BY <2>1, FreshFinite, TrackerAssumption DEF SessionInv
    <3> QED BY <3>1, <3>2, FS_EmptySet
  <2> QED BY <2>3, <2>4, FreshSame
<1>2. SessionInv /\ SessionInv' /\ OldestFirst /\ Inv /\ [Next]_vars => Inv'
  BY FreshStep, NoneOverdueStep
<1> HIDE DEF Inv
<1>3. Spec => []Inv
  <2>1. GlobalIsSum /\ OldestFirst => OldestFirst
    OBVIOUS
  <2> QED BY <1>1, <1>2, <2>1, SessionInvariant, TrackerCorrectInServer, PTL DEF Spec
<1> QED BY <1>3 DEF Inv

(* No session younger than the TTL goes uncounted, although slots carry no *)
(* session identity, crashed sessions leave theirs behind and a logout     *)
(* gives up the oldest one: for any number of sessions and accounts, as    *)
(* long as no session lasts as long as SESSION_TTL_SECS.                   *)
THEOREM FreshSessionsAreCounted ==
    ASSUME ShortSessions
    PROVE  Spec => []FreshSessionsCounted
<1>1. NoneOverdue /\ FreshSessionsCounted => FreshSessionsCounted
  OBVIOUS
<1> QED BY <1>1, FreshInvariant, PTL

LEMMA CountUpTo ==
    ASSUME NEW n \in Nat
    PROVE  IsFiniteSet(1..n) /\ Cardinality(1..n) = n
BY FS_Interval

(* A finite set fits into an interval at least as large. *)
LEMMA FitsIn ==
    ASSUME NEW S, IsFiniteSet(S), NEW n \in Nat, Cardinality(S) <= n
    PROVE  \E f \in [S -> 1..n] : IsInjective(f)
<1>1. Cardinality(S) \in Nat /\ ExistsBijection(S, 1..Cardinality(S))
  BY FS_CardinalityType, Fun_ExistsBijSymmetric
<1>2. PICK f \in Bijection(S, 1..Cardinality(S)) : TRUE
  BY <1>1 DEF ExistsBijection
<1>3. f \in [S -> 1..Cardinality(S)] /\ IsInjective(f)
  BY <1>2 DEF Bijection, Injection
<1>4. f \in [S -> 1..n]
  BY <1>1, <1>3
<1> QED BY <1>3, <1>4

(* Every account has a slot for each of its sessions, and therefore the    *)
(* server has: a session gets a slot of its own account.                   *)
LEMMA SlotsCoverSessions ==
    ASSUME SessionInv, NoneOverdue, FreshSessionsCounted
    PROVE  /\ \A a \in Account : Cardinality(SessionsOf(a)) <= Len(perAccount[a])
           /\ Cardinality({t \in Session : InSession(t)}) <= global
<1> USE TrackerAssumption
<1>0. SessionsTypeOK
  BY DEF SessionInv
<1>1. ASSUME NEW a \in Account
      PROVE  /\ Cardinality(SessionsOf(a)) <= Len(perAccount[a])
             /\ IsFiniteSet(SessionsOf(a)) /\ Len(perAccount[a]) \in Nat
             /\ DOMAIN perAccount[a] = 1..Len(perAccount[a])
  <2>1. TTL - 1 \in 0..(TTL - 1) /\ TTL - 1 \in Int
    OBVIOUS
  <2>2. SessionsOf(a) = FreshSessions(a, TTL - 1)
    <3>1. \A s \in Session : conn[s].age \in Int
      BY <1>0 DEF SessionsTypeOK, Age
    <3>2. \A s \in Session : conn[s].age <= TTL - 1
      BY <3>1 DEF NoneOverdue
    <3> QED BY <3>2 DEF FreshSessions, SessionsOf
  <2>3. /\ IsFiniteSet(SessionsOf(a)) /\ Cardinality(SessionsOf(a)) \in Nat
        /\ Cardinality(FreshSlots(a, TTL - 1)) \in Nat
        /\ Len(perAccount[a]) \in Nat /\ DOMAIN perAccount[a] = 1..Len(perAccount[a])
    BY <1>0, <2>1, FreshFinite
  <2>4. FreshSlots(a, TTL - 1) \in SUBSET (1..Len(perAccount[a]))
    BY <2>3 DEF FreshSlots
  <2>5. /\ IsFiniteSet(1..Len(perAccount[a]))
        /\ Cardinality(1..Len(perAccount[a])) = Len(perAccount[a])
    BY <2>3, CountUpTo
  <2>6. Cardinality(FreshSlots(a, TTL - 1)) <= Len(perAccount[a])
    BY <2>4, <2>5, FS_Subset
  <2>7. Cardinality(SessionsOf(a)) <= Cardinality(FreshSlots(a, TTL - 1))
    BY <2>1, <2>2, FreshSame
  <2> QED BY <2>3, <2>6, <2>7
<1>2. Cardinality({t \in Session : InSession(t)}) <= global
  <2> DEFINE S == {t \in Session : InSession(t)}
             place(a) == CHOOSE f \in [SessionsOf(a) -> 1..Len(perAccount[a])] : IsInjective(f)
             g == [t \in S |-> <<conn[t].user, place(conn[t].user)[t]>>]
  <2>1. ASSUME NEW a \in Account
        PROVE  place(a) \in [SessionsOf(a) -> 1..Len(perAccount[a])] /\ IsInjective(place(a))
    <3>1. \E f \in [SessionsOf(a) -> 1..Len(perAccount[a])] : IsInjective(f)
      BY <1>1, FitsIn
    <3> QED BY <3>1
  <2>2. ASSUME NEW t \in S PROVE conn[t].user \in Account /\ t \in SessionsOf(conn[t].user)
    BY DEF SessionInv, KnownUsers, InSession, SessionsOf
  <2> HIDE DEF place
  <2>3. ASSUME NEW t \in S PROVE g[t] \in Slots(perAccount)
    <3>1. place(conn[t].user)[t] \in DOMAIN perAccount[conn[t].user]
      BY <1>1, <2>1, <2>2
    <3> QED BY <2>2, <3>1, SlotsMember
  <2>4. ASSUME NEW t \in S, NEW r \in S, g[t] = g[r] PROVE t = r
    <3>1. conn[t].user = conn[r].user
      BY <2>4
    <3>2. place(conn[t].user)[t] = place(conn[t].user)[r]
      BY <2>4
    <3> QED BY <2>1, <2>2, <3>1, <3>2 DEF IsInjective
  <2>5. g \in Injection(S, Slots(perAccount))
    BY <2>3, <2>4 DEF Injection, IsInjective
  <2>6. IsFiniteSet(Slots(perAccount))
    BY <1>0, SlotsFinite DEF SessionsTypeOK, TrackerTypeOK
  <2> HIDE DEF S, g
  <2>7. Cardinality(S) <= Cardinality(Slots(perAccount))
    BY <2>5, <2>6, FS_Injection
  <2> QED BY <2>7 DEF S, SessionInv, GlobalIsSum, SlotCount
<1> QED BY <1>1, <1>2

(* The caps bound real sessions and not only slots: try_admit never lets a *)
(* session in beyond max_connections sessions in progress, nor beyond      *)
(* max_connections_per_account of its account, whatever was reloaded,      *)
(* reaped, dropped or logged out before.                                   *)
THEOREM CapsBoundSessions ==
    ASSUME ShortSessions
    PROVE  Spec => AdmissionWithinCaps
<1> DEFINE InCaps(s) ==
              /\ Cardinality({t \in Session : InSession(t)'}) <= maxGlobal
              /\ maxPerAccount # NoCap =>
                   Cardinality({t \in Session : InSession(t)' /\ conn'[t].user = conn[s].user})
                       <= maxPerAccount
           Inv == NoneOverdue /\ FreshSessionsCounted
<1>1. SessionInv /\ Inv /\ [Next]_vars =>
        [\A s \in Session :
            (conn[s].phase = "verified" /\ conn'[s].phase = "admitted") => InCaps(s)]_vars
  <2> SUFFICES ASSUME SessionInv, NoneOverdue, FreshSessionsCounted, [Next]_vars,
                      NEW s \in Session, conn[s].phase = "verified",
                      conn'[s].phase = "admitted"
               PROVE  InCaps(s)
    OBVIOUS
  <2> USE TrackerAssumption
  <2>1. SessionsTypeOK
    BY DEF SessionInv
  <2>2. conn \in [Session -> [phase : Phase, user : Account \cup {Nobody}, age : Age]]
    BY <2>1 DEF SessionsTypeOK
  <2>3. Admit(s)
    <3>1. ASSUME NEW r \in Session, NEW c, conn' = [conn EXCEPT ![r] = c], c.phase # "admitted"
          PROVE  FALSE
      BY <2>2, <3>1
    <3>2. conn' # conn
      OBVIOUS
    <3>3. ASSUME NEW r \in Session, NEW p, conn' = [conn EXCEPT ![r].phase = p]
          PROVE  r = s /\ p = "admitted"
      BY <2>2, <3>3
    <3>4. ASSUME NEW r \in Session, NEW u, NEW secure PROVE ~Authenticate(r, u, secure)
      <4> DEFINE c == [phase |-> "verified", user |-> u, age |-> 0]
      <4>1. c.phase # "admitted"
        OBVIOUS
      <4>2. Authenticate(r, u, secure) => conn' = [conn EXCEPT ![r] = c]
        BY DEF Authenticate
      <4> HIDE DEF c
      <4> QED BY <3>1, <4>1, <4>2
    <3>5. ASSUME NEW r \in Session
          PROVE  ~(RefuseAtCapacity(r) \/ LoggedOut(r) \/ Drop(r))
      BY <3>1 DEF RefuseAtCapacity, LoggedOut, Drop, Closed
    <3>6. ASSUME NEW r \in Session PROVE ~CloseCleanly(r)
      BY <3>3 DEF CloseCleanly
    <3>7. ASSUME NEW r \in Session PROVE ~ProvideUserDetail(r)
      BY <2>2 DEF ProvideUserDetail, Closed
    <3>8. ASSUME NEW r \in Session, Admit(r) PROVE r = s
      BY <3>3, <3>8 DEF Admit
    <3>9. ASSUME NEW f PROVE ~EditFile(f)
      BY <3>2 DEF EditFile
    <3>10. ~(Sighup \/ ReloadLoad \/ ReloadStore \/ ReloadLimits \/ Reaper \/ UNCHANGED vars)
      BY <3>2 DEF Sighup, ReloadLoad, ReloadStore, ReloadLimits, Reaper, vars, sessionVars
    <3>11. ~TimePasses
      BY <2>2 DEF TimePasses
    <3> QED BY <3>4, <3>5, <3>6, <3>7, <3>8, <3>9, <3>10, <3>11 DEF Next
  <2> DEFINE u == conn[s].user
             S == {t \in Session : InSession(t)}
  <2>4. /\ u \in Account /\ ~AtCapacity(u)
        /\ conn' = [conn EXCEPT ![s].phase = "admitted"]
    BY <2>3 DEF Admit, TryAdmit, SessionInv, KnownUsers
  <2>5. \A t \in Session : conn'[t].user = conn[t].user /\ (InSession(t)' => InSession(t) \/ t = s)
    BY <2>2, <2>4 DEF InSession
  <2>6. /\ Cardinality(SessionsOf(u)) <= Len(perAccount[u])
        /\ Cardinality(S) <= global
    BY <2>4, SlotsCoverSessions
  <2>7. /\ global < maxGlobal
        /\ global \in Nat /\ maxGlobal \in Nat /\ Len(perAccount[u]) \in Nat
        /\ maxPerAccount # NoCap => maxPerAccount \in Nat /\ Len(perAccount[u]) < maxPerAccount
    <3>1. Len(perAccount[u]) \in Nat
      BY <2>1, <2>4, FreshFinite
    <3> QED BY <2>1, <2>4, <3>1 DEF AtCapacity, SessionsTypeOK, TrackerTypeOK
  <2>8. ASSUME NEW A \in SUBSET Session, NEW B \in SUBSET Session, B \subseteq A \cup {s},
               NEW m \in Nat, NEW n \in Nat, Cardinality(A) <= m, m < n
        PROVE  Cardinality(B) <= n
    <3>1. IsFiniteSet(A) /\ Cardinality(A) \in Nat
      BY SessionsAssumption, FS_Subset, FS_CardinalityType
    <3>2. /\ IsFiniteSet(A \cup {s})
          /\ \/ Cardinality(A \cup {s}) = Cardinality(A)
             \/ Cardinality(A \cup {s}) = Cardinality(A) + 1
      BY <3>1, FS_AddElement
    <3>3. Cardinality(B) <= Cardinality(A \cup {s}) /\ Cardinality(B) \in Nat
      BY <2>8, <3>2, FS_Subset, FS_CardinalityType
    <3> QED BY <2>8, <3>1, <3>2, <3>3
  <2>9. Cardinality({t \in Session : InSession(t)'}) <= maxGlobal
    <3>1. {t \in Session : InSession(t)'} \subseteq S \cup {s}
      BY <2>5
    <3> QED BY <2>6, <2>7, <2>8, <3>1
  <2>10. maxPerAccount # NoCap =>
            Cardinality({t \in Session : InSession(t)' /\ conn'[t].user = u}) <= maxPerAccount
    <3>1. {t \in Session : InSession(t)' /\ conn'[t].user = u} \subseteq SessionsOf(u) \cup {s}
      BY <2>5 DEF SessionsOf
    <3>2. SessionsOf(u) \in SUBSET Session
      BY DEF SessionsOf
    <3> QED BY <2>6, <2>7, <2>8, <3>1, <3>2
  <2> QED BY <2>9, <2>10
<1>2. Spec => []Inv
  BY FreshInvariant
<1> HIDE DEF Inv
<1> QED BY <1>1, <1>2, SessionInvariant, PTL DEF Spec, AdmissionWithinCaps
=============================================================================
