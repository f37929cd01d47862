---------------------------- MODULE FtpSessions ----------------------------
(***************************************************************************)
(* The life of FTP sessions around the tracker: the login path of          *)
(* src/auth.rs (authenticate, then provide_user_detail, each loading the   *)
(* account map for itself), the presence events of src/presence.rs, and    *)
(* the two background tasks of src/server.rs (SIGHUP reload and reaper).   *)
(*                                                                         *)
(* libunftp is external: it calls authenticate and provide_user_detail in  *)
(* turn, sends LoggedOut asynchronously after a clean close of the control *)
(* channel, and sends nothing when a connection dies (server.rs, comment   *)
(* above the reaper).                                                      *)
(***************************************************************************)
EXTENDS SessionTracker

CONSTANTS
    Session,        \* control connections
    Nobody,         \* the user of a connection that has not authenticated
    Config,         \* the loadable config files: accounts, TLS-only ones, caps
    BadFile,        \* a file that config::load or ensure_home_dirs rejects
    ShortSessions   \* TRUE: no session lasts as long as SESSION_TTL_SECS

ASSUME SessionsAssumption ==
    /\ IsFiniteSet(Session)
    /\ Config \subseteq [accounts : SUBSET Account, requireTls : SUBSET Account, limit : Limit]
    /\ BadFile \notin Config
    /\ ShortSessions \in BOOLEAN

VARIABLES
    conn,       \* per connection: where its login or logout stands
    accounts,   \* the ArcSwap<Accounts>: the configuration it was built from
    file,       \* the config file on disk
    hup,        \* a SIGHUP not yet received by the reload task
    reload      \* the reload task: "idle", or between two of its writes

sessionVars == <<conn, accounts, file, hup, reload>>
vars == <<trackerVars, sessionVars>>

Closed == [phase |-> "closed", user |-> Nobody, age |-> 0]
Phase == {"closed", "verified", "admitted", "live", "leaving"}
Idle == [step |-> "idle", cfg |-> BadFile]

(* A session that holds the slot try_admit gave it, and the ones of u. *)
InSession(s) == conn[s].phase \in {"admitted", "live", "leaving"}
SessionsOf(u) == {s \in Session : InSession(s) /\ conn[s].user = u}
-----------------------------------------------------------------------------
Init ==
    \E c \in Config :
        /\ perAccount = [a \in Account |-> <<>>]
        /\ global = 0
        /\ maxGlobal = c.limit.global
        /\ maxPerAccount = c.limit.perAccount
        /\ conn = [s \in Session |-> Closed]
        /\ accounts = c
        /\ file = c
        /\ hup = FALSE
        /\ reload = Idle

(* authenticate up to the cap check, with the right password: the account  *)
(* map is loaded once and the credentials and the TLS rule are judged by   *)
(* that copy.  A wrong password or a plaintext channel changes nothing.    *)
Authenticate(s, u, secure) ==
    /\ conn[s].phase = "closed"
    /\ u \in accounts.accounts
    /\ u \in accounts.requireTls => secure
    /\ conn' = [conn EXCEPT ![s] = [phase |-> "verified", user |-> u, age |-> 0]]
    /\ UNCHANGED <<trackerVars, accounts, file, hup, reload>>

(* The try_admit call at the end of authenticate. *)
Admit(s) ==
    /\ conn[s].phase = "verified"
    /\ TryAdmit(conn[s].user)
    /\ conn' = [conn EXCEPT ![s].phase = "admitted"]
    /\ UNCHANGED <<accounts, file, hup, reload>>

RefuseAtCapacity(s) ==
    /\ conn[s].phase = "verified"
    /\ AtCapacity(conn[s].user)
    /\ conn' = [conn EXCEPT ![s] = Closed]
    /\ UNCHANGED <<trackerVars, accounts, file, hup, reload>>

(* A slip: LoggedIn counts the session a second time. *)
ProvideUserDetailCountsAgain(s) ==
    /\ conn[s].phase = "admitted"
    /\ conn[s].user \in accounts.accounts
    /\ conn' = [conn EXCEPT ![s].phase = "live"]
    /\ perAccount' = [perAccount EXCEPT ![conn[s].user] = Append(@, 0)]
    /\ global' = SaturatingInc(global)
    /\ UNCHANGED <<maxGlobal, maxPerAccount, accounts, file, hup, reload>>

(* provide_user_detail: a second load of the account map.  If a reload has *)
(* removed the account the login fails, and the slot stays taken.          *)
ProvideUserDetail(s) ==
    /\ conn[s].phase = "admitted"
    /\ conn' = [conn EXCEPT ![s] = IF conn[s].user \in accounts.accounts
                                   THEN [@ EXCEPT !.phase = "live"]
                                   ELSE Closed]
    /\ UNCHANGED <<trackerVars, accounts, file, hup, reload>>

(* The control channel closes cleanly: libunftp queues LoggedOut. *)
CloseCleanly(s) ==
    /\ conn[s].phase = "live"
    /\ conn' = [conn EXCEPT ![s].phase = "leaving"]
    /\ UNCHANGED <<trackerVars, accounts, file, hup, reload>>

(* receive_presence_event(LoggedOut). *)
LoggedOut(s) ==
    /\ conn[s].phase = "leaving"
    /\ OnLogout(conn[s].user)
    /\ conn' = [conn EXCEPT ![s] = Closed]
    /\ UNCHANGED <<accounts, file, hup, reload>>

(* The connection dies without an event; its slot is leaked. *)
Drop(s) ==
    /\ conn[s].phase \in {"admitted", "live"}
    /\ conn' = [conn EXCEPT ![s] = Closed]
    /\ UNCHANGED <<trackerVars, accounts, file, hup, reload>>
-----------------------------------------------------------------------------
(* The operator edits the config file, well or badly, and sends SIGHUP.    *)
(* Signals that arrive before the task runs are one signal.                *)
EditFile(f) ==
    /\ file' = f
    /\ UNCHANGED <<trackerVars, conn, accounts, hup, reload>>

Sighup ==
    /\ hup' = TRUE
    /\ UNCHANGED <<trackerVars, conn, accounts, file, reload>>

(* reload_config: load, validate and ensure_home_dirs; on an error the     *)
(* running configuration is kept.                                          *)
ReloadLoad ==
    /\ hup /\ reload = Idle
    /\ hup' = FALSE
    /\ reload' = IF file = BadFile THEN Idle ELSE [step |-> "loaded", cfg |-> file]
    /\ UNCHANGED <<trackerVars, conn, accounts, file>>

(* ... then accounts.store ... *)
ReloadStore ==
    /\ reload.step = "loaded"
    /\ accounts' = reload.cfg
    /\ reload' = [reload EXCEPT !.step = "stored"]
    /\ UNCHANGED <<trackerVars, conn, file, hup>>

(* A slip: the new accounts are used and the old caps are kept. *)
ReloadForgetsLimits ==
    /\ reload.step = "stored"
    /\ reload' = Idle
    /\ UNCHANGED <<trackerVars, conn, accounts, file, hup>>

(* ... and last tracker.set_limits. *)
ReloadLimits ==
    /\ reload.step = "stored"
    /\ SetLimits(reload.cfg.limit)
    /\ reload' = Idle
    /\ UNCHANGED <<conn, accounts, file, hup>>
-----------------------------------------------------------------------------
(* A slip: the reaper task runs once and is not re-armed. *)
ReaperNever == FALSE /\ Reap /\ UNCHANGED sessionVars

(* The reaper task's periodic call. *)
Reaper == Reap /\ UNCHANGED sessionVars

(* Time passes for slots and sessions alike.  ShortSessions is the         *)
(* deployment assumption stated at SESSION_TTL_SECS: a session ends, and   *)
(* its LoggedOut is handled, before it is TTL old.                         *)
TimePasses ==
    /\ ShortSessions => \A s \in Session : InSession(s) => conn[s].age + 1 < TTL
    /\ Tick
    /\ conn' = [s \in Session |->
                    IF InSession(s) THEN [conn[s] EXCEPT !.age = Older(@)] ELSE conn[s]]
    /\ UNCHANGED <<accounts, file, hup, reload>>

Next ==
    \/ \E s \in Session :
          \/ \E u \in Account, secure \in BOOLEAN : Authenticate(s, u, secure)
          \/ Admit(s) \/ RefuseAtCapacity(s) \/ ProvideUserDetail(s)
          \/ CloseCleanly(s) \/ LoggedOut(s) \/ Drop(s)
    \/ \E f \in Config \cup {BadFile} : EditFile(f)
    \/ Sighup \/ ReloadLoad \/ ReloadStore \/ ReloadLimits
    \/ Reaper \/ TimePasses

Spec == Init /\ [][Next]_vars

(* The background tasks keep running and time keeps passing.  Nothing is   *)
(* assumed of clients: none of them need ever finish or leave.             *)
FairSpec ==
    /\ Spec
    /\ WF_vars(TimePasses)
    /\ WF_vars(Reaper)
    /\ WF_vars(ReloadLoad) /\ WF_vars(ReloadStore) /\ WF_vars(ReloadLimits)
-----------------------------------------------------------------------------
SessionsTypeOK ==
    /\ TrackerTypeOK
    /\ conn \in [Session -> [phase : Phase, user : Account \cup {Nobody}, age : Age]]
    /\ accounts \in Config
    /\ file \in Config \cup {BadFile}
    /\ hup \in BOOLEAN
    /\ reload \in {Idle} \cup [step : {"loaded", "stored"}, cfg : Config]

(* No session younger than the TTL goes uncounted.  A slot carries no      *)
(* session identity: on_logout gives up the oldest slot of the account,    *)
(* not the one of the session that left, and crashes leave slots behind.   *)
(* Still, for every age k below the TTL an account holds at least as many  *)
(* slots of age k or less as it has sessions of age k or less.             *)
FreshSessionsCounted ==
    \A a \in Account : \A k \in 0..(TTL - 1) :
        Cardinality({s \in SessionsOf(a) : conn[s].age <= k})
            <= Cardinality({i \in DOMAIN perAccount[a] : perAccount[a][i] <= k})

(* The caps bound real sessions, not only slots: a step that admits a      *)
(* session leaves no more sessions in progress than max_connections, and   *)
(* no more of its account than max_connections_per_account (README,        *)
(* "In-process connection caps").                                          *)
AdmissionWithinCaps ==
    [][\A s \in Session :
          (conn[s].phase = "verified" /\ conn'[s].phase = "admitted") =>
             /\ Cardinality({t \in Session : InSession(t)'}) <= maxGlobal
             /\ maxPerAccount # NoCap =>
                   Cardinality({t \in Session : InSession(t)' /\ conn'[t].user = conn[s].user})
                       <= maxPerAccount]_vars

(* reload_config writes the account map and the caps separately, and a     *)
(* login may run between the two writes.  Whenever no reload is under way  *)
(* the two come from one and the same config file.                         *)
ConfigCoherent ==
    reload.step = "idle" =>
        /\ maxGlobal = accounts.limit.global
        /\ maxPerAccount = accounts.limit.perAccount

(* README: reaping "so the caps can never wedge shut on leaked slots".  An *)
(* account that is refused for capacity is not refused forever, whatever   *)
(* the sessions that hold the slots do: hang, die silently or leave.       *)
CapsNeverWedge == \A u \in Account : AtCapacity(u) ~> ~AtCapacity(u)

(* A SIGHUP with a good file on disk takes effect: the accounts and the    *)
(* caps of that file come to be used, unless the file is edited again.     *)
ReloadTakesEffect ==
    \A c \in Config :
        (hup /\ file = c) ~>
            (file # c \/ (accounts = c /\ maxGlobal = c.limit.global
                                       /\ maxPerAccount = c.limit.perAccount))
=============================================================================
