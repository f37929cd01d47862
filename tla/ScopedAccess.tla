---------------------------- MODULE ScopedAccess ----------------------------
(***************************************************************************)
(* Who may reach which file: the accounts of the config file in force, the *)
(* resolution of virtual paths (src/paths.rs), and the gate and the read   *)
(* operations of the storage backend (src/backend.rs).                     *)
(*                                                                         *)
(* A path is a sequence of components, a virtual one below "/" as the      *)
(* client names it, a real one from the root of the file system.  Between  *)
(* the resolution of a request and the file operation behind its await the *)
(* tree may change: other uploads, the sweep, a reload.  Symbolic links    *)
(* are the operator's: they are there at the start, and only the sweep     *)
(* removes them.  It may prune the directory one leads to, too.  The steps *)
(* of the staged store behind put are the subject of Archive; here it is   *)
(* one step that leaves the staging file, the clip, or nothing.            *)
(***************************************************************************)
EXTENDS Accounts, Integers, FiniteSets, SequencesExt, FiniteSetsExt

CONSTANTS
    Session,    \* control connections
    File,       \* the config files an operator may write
    Name,       \* names of files and directories, and what clients write for one
    Staged,     \* the names that end in .partial
    Quarantine, \* .quarantine
    Probe,      \* the names of the cameras' test uploads
    FinalName, StagingName, \* the name of a clip for the one asked for, .age
                            \* behind it or not, and of its staging file
    VirtualPath,    \* the paths clients name
    Node,       \* bound: the real paths that may come to exist
    StartDirs, StartFiles,  \* the tree at the start
    LinkSets    \* the operator's links: sets of [at, to]

VARIABLES
    config,     \* the file the accounts in force were built from
    dirs, files, links,     \* the file system
    user,       \* per connection: the ReoUser of the login, or None
    grant,      \* per connection: what the config file gave the account then
    request,    \* per connection: a request resolved and not yet performed
    dangled     \* history: a link has led nowhere

treeVars == <<dirs, files, links>>
vars == <<config, treeVars, user, grant, request, dangled>>
-----------------------------------------------------------------------------
(* "." and ".." are only in what clients write. *)
Path == Seq(Name)
Hidden == Staged \cup {Quarantine}
Plain(p) == \A n \in DOMAIN p : p[n] \notin {".", ".."}

Ancestors(p) == {SubSeq(p, 1, n) : n \in 0..Len(p)}

(* ensure_home_dirs. *)
Homes(c) == {Home(cam.name) : cam \in c.camera}

(* The root and the homes are there by their own names, not through a      *)
(* link; a link lies in directories and leads to one by its own name.  The *)
(* name of a camera is one component: validate does not check that.        *)
ASSUME ScopedAccessAssumption ==
    /\ None \notin Path
    /\ VirtualPath \subseteq Path
    /\ \A c \in File : \A n \in CameraNames(c) : n \in Name \ {".", ".."}
    /\ \A n \in {Root} \cup StartDirs \cup StartFiles : n \in Path /\ Plain(n)
    /\ Ancestors(Root) \subseteq StartDirs
    /\ \A here \in LinkSets : \A l \in here :
          /\ l.at \in Path /\ l.to \in Path /\ Plain(l.to)
          /\ l.at \notin StartDirs \cup StartFiles
          /\ \A c \in File : Ancestors(l.at) \ {l.at} \subseteq StartDirs \cup Homes(c)
          /\ \A c \in File : \A h \in Homes(c) \cup {Root} : ~IsPrefix(l.at, h)
          /\ \A m \in here : ~IsPrefix(m.at, l.to)

(* The names put makes up are ordinary ones. *)
ASSUME NameAssumption ==
    LET Ordinary == Name \ {".", ".."}
    IN  /\ Staged \subseteq Ordinary /\ Quarantine \in Ordinary /\ Probe \subseteq Ordinary
        /\ FinalName \in [Name -> Ordinary] /\ StagingName \in [Name -> Staged]

(* What put adds behind a resolved path and its quarantine are not checked *)
(* against links any more.  No link has the name of a staging file, lies   *)
(* on the way into a quarantine, or leads to a home or above one, beside   *)
(* which the clip would go.  The code does not check any of it.            *)
ASSUME LinkAssumption ==
    \A here \in LinkSets : \A l \in here :
        /\ Last(l.at) \notin Staged
        /\ \A c \in File : \A h \in Homes(c) :
              /\ ~IsPrefix(l.to, h)
              /\ \A q \in Probe : ~IsPrefix(l.at, h \o <<Quarantine, q>>)
-----------------------------------------------------------------------------
(* The file system: where a name leads in a directory, a link followed, or *)
(* None; and where a real path leads, name by name.                        *)
LinksLead == \A l \in links : l.to \in dirs

Enter(d, name) ==
    LET n == Append(d, name)
        to == {l.to : l \in {m \in links : m.at = n}} \cap dirs
    IN  IF n \in dirs \cup files THEN n
        ELSE IF to # {} THEN CHOOSE t \in to : TRUE
        ELSE None

Canonical(p) ==
    LET real[n \in 0..Len(p)] ==
            IF n = 0 THEN <<>>
            ELSE IF real[n - 1] = None THEN None
            ELSE Enter(real[n - 1], p[n])
    IN  real[Len(p)]

(* The longest existing ancestor, canonical, with the rest behind it. *)
Place(p) ==
    LET k == Max({n \in 0..Len(p) : Canonical(SubSeq(p, 1, n)) # None})
    IN  Canonical(SubSeq(p, 1, k)) \o SubSeq(p, k + 1, Len(p))

(* Where create_dir_all can make no directory: a file, or a link that      *)
(* leads nowhere; Place has followed the others.                           *)
Blocked(p) == Ancestors(p) \cap (files \cup {l.at : l \in links}) # {}

Entries == dirs \cup files \cup {l.at : l \in links}
Children(d) == {n \in Entries : Len(n) = Len(d) + 1 /\ IsPrefix(d, n)}

Resolved(p) == [verdict |-> "ok", path |-> p]
Refused(why) == [verdict |-> why, path |-> <<>>]

(* A slip: the path is compared as it is written, links and all. *)
ContainedAsWritten(base, candidate) ==
    IF Canonical(base) = None THEN Refused("notFound")
    ELSE IF IsPrefix(base, candidate) THEN Resolved(candidate)
    ELSE Refused("traversal")

Contained(base, candidate) ==
    IF Canonical(base) = None THEN Refused("notFound")
    ELSE IF IsPrefix(Canonical(base), Place(candidate)) THEN Resolved(Place(candidate))
    ELSE Refused("traversal")

(* The names of a virtual path are pushed one by one, the dots left out. *)
Push(out, part) == IF part = "." THEN out ELSE Append(out, part)
Normalize(virtual) ==
    LET out[n \in 0..Len(virtual)] ==
            IF n = 0 THEN <<>> ELSE Push(out[n - 1], virtual[n])
    IN  out[Len(virtual)]
Escapes(virtual) == \E k \in DOMAIN virtual : virtual[k] = ".."

(* A slip: the camera's name is looked up and then used again. *)
ResolveKeepsName(view, virtual) ==
    LET parts == Normalize(virtual)
    IN  IF Escapes(virtual) THEN Refused("traversal")
        ELSE IF view.single # None THEN Contained(view.single, view.single \o parts)
        ELSE IF parts = <<>> \/ parts[1] \notin DOMAIN view.roots THEN Refused("outsideScope")
        ELSE Contained(view.roots[parts[1]], view.roots[parts[1]] \o parts)

Resolve(view, virtual) ==
    LET parts == Normalize(virtual)
    IN  IF Escapes(virtual) THEN Refused("traversal")
        ELSE IF view.single # None THEN Contained(view.single, view.single \o parts)
        ELSE IF parts = <<>> \/ parts[1] \notin DOMAIN view.roots THEN Refused("outsideScope")
        ELSE Contained(view.roots[parts[1]], view.roots[parts[1]] \o Tail(parts))

(* Path::file_name: the last name, unless that is "..". *)
FileName(virtual) ==
    LET parts == Normalize(virtual)
    IN  IF parts = <<>> \/ Last(parts) = ".." THEN None ELSE Last(parts)

CapabilityAllowed(kind, op) ==
    op \in IF kind = "uploader" THEN {"put", "mkd", "list", "metadata", "cwd"}
           ELSE {"get", "list", "metadata", "cwd"}

(* list: the names of a directory, or the cameras of a viewer with a       *)
(* scope of several roots at "/".                                          *)
AtSyntheticRoot(u, virtual) ==
    /\ u.kind = "viewer" /\ DOMAIN u.view.roots # {}
    /\ Normalize(virtual) = <<>>
Listing(u, virtual) ==
    IF AtSyntheticRoot(u, virtual) THEN DOMAIN u.view.roots
    ELSE LET r == Resolve(u.view, virtual)
         IN  IF r.verdict # "ok" \/ Canonical(r.path) \notin dirs THEN {}
             ELSE {Last(n) : n \in Children(Canonical(r.path))} \ Hidden
-----------------------------------------------------------------------------
(* What the config file says an account may do, told from the file and not *)
(* from the account built of it: below which directories it may download,  *)
(* look around and write.                                                  *)
Named(c, scope) ==
    IF scope = All THEN {Root}
    ELSE {Home(n) : n \in (scope \cap CameraNames(c))
                            \cup UNION {c.group[g] : g \in scope \cap DOMAIN c.group}}
Granted(c, login) ==
    LET own == {Home(cam.name) : cam \in {x \in c.camera : CameraLogin(x) = login}}
        seen == UNION {Named(c, v.scope) : v \in {x \in c.viewer : x.name = login}}
    IN  [get |-> seen, look |-> seen \cup own, put |-> own, mkd |-> own]

(* list, metadata and cwd differ only in what they answer. *)
Access(op) == IF op \in {"list", "metadata", "cwd"} THEN "look" ELSE op

Init ==
    /\ config \in {c \in File : Validate(c)}
    /\ dirs = StartDirs \cup Homes(config)
    /\ files = StartFiles
    /\ links \in LinkSets
    /\ user = [s \in Session |-> None]
    /\ grant = [s \in Session |-> None]
    /\ request = [s \in Session |-> None]
    /\ dangled = ~LinksLead

(* SIGHUP: a file that does not validate leaves everything as it is. *)
Reload(c) ==
    /\ Validate(c)
    /\ config' = c
    /\ dirs' = dirs \cup Homes(c)
    /\ UNCHANGED <<files, links, user, grant, request, dangled>>

(* A login takes a copy of the account, which no later reload changes. *)
Login(s, login) ==
    /\ user[s] = None
    /\ login \in DOMAIN Build(config)
    /\ user' = [user EXCEPT ![s] = Build(config)[login]]
    /\ grant' = [grant EXCEPT ![s] = Granted(config, login)]
    /\ UNCHANGED <<config, treeVars, request, dangled>>

Logout(s) ==
    /\ user[s] # None
    /\ user' = [user EXCEPT ![s] = None]
    /\ grant' = [grant EXCEPT ![s] = None]
    /\ request' = [request EXCEPT ![s] = None]
    /\ UNCHANGED <<config, treeVars, dangled>>

(* The part of an operation before its await.  One that is refused, or     *)
(* answered without the file system, changes nothing and is no step.       *)
Asks(s, op) ==
    /\ user[s] # None /\ request[s] = None
    /\ CapabilityAllowed(user[s].kind, op)
    /\ UNCHANGED <<config, treeVars, user, grant, dangled>>

Request(s, op, virtual) ==
    /\ Asks(s, op)
    /\ op \in {"list", "cwd"} => ~AtSyntheticRoot(user[s], virtual)
    /\ LET r == Resolve(user[s].view, virtual)
       IN  /\ r.verdict = "ok"
           /\ op = "mkd" => Ancestors(r.path) \subseteq Node
           /\ request' = [request EXCEPT ![s] =
                  [access |-> Access(op), path |-> r.path, name |-> None, opens |-> None]]

(* An upload has a directory, the name of the clip in it, and the name it  *)
(* is written under.                                                       *)
Pend(s, path, name, opens) ==
    /\ Ancestors(path) \cup {Append(path, name), Append(path, opens)} \subseteq Node
    /\ request' = [request EXCEPT ![s] =
          [access |-> "put", path |-> path, name |-> name, opens |-> opens]]

(* put, of a test upload: into the quarantine of the home, and no path is  *)
(* resolved.                                                               *)
PutProbe(s, virtual) ==
    /\ Asks(s, "put")
    /\ FileName(virtual) \in Probe
    /\ Pend(s, Append(user[s].view.single, Quarantine), FileName(virtual), FileName(virtual))

(* put, of a clip. *)
Put(s, virtual) ==
    /\ Asks(s, "put")
    /\ FileName(virtual) \notin Probe \cup {None}
    /\ LET r == Resolve(user[s].view, virtual)
           name == FinalName[Last(r.path)]
       IN  r.verdict = "ok" /\ Pend(s, Front(r.path), name, StagingName[name])

(* Where a pending request leads by now: a directory or file that is       *)
(* there, or the places a write is going to make.                          *)
LeadsTo(s) ==
    LET r == request[s]
    IN  IF r.access = "put" THEN {Append(Place(r.path), r.opens), Append(Place(r.path), r.name)}
        ELSE IF r.access = "mkd" THEN {Place(r.path)}
        ELSE {Canonical(r.path)} \ {None}

Answer(s) ==
    /\ request' = [request EXCEPT ![s] = None]
    /\ UNCHANGED <<config, links, user, grant, dangled>>

(* get, list, metadata and cwd after their await: found or not, they leave *)
(* everything as it is.                                                    *)
Read(s) ==
    /\ request[s] # None /\ request[s].access \in {"get", "look"}
    /\ Answer(s)
    /\ UNCHANGED <<dirs, files>>

(* mkd's create_dir_all. *)
MakeDir(s) ==
    /\ request[s] # None /\ request[s].access = "mkd"
    /\ LET p == Place(request[s].path)
       IN  dirs' = IF Blocked(p) THEN dirs ELSE dirs \cup Ancestors(p)
    /\ Answer(s)
    /\ UNCHANGED files

(* put refuses a clip whose name leads somewhere, makes the directory and  *)
(* opens the file, links it to the clip if nothing has that name, and      *)
(* removes the name it was written under.  Each step may be the last.      *)
Store(s) ==
    /\ request[s] # None /\ request[s].access = "put"
    /\ LET r == request[s]
           d == Place(r.path)
           opened == Append(d, r.opens)
           clip == Append(d, r.name)
       IN  IF Blocked(d) \/ (r.name # r.opens /\ Canonical(Append(r.path, r.name)) # None)
           THEN UNCHANGED <<dirs, files>>
           ELSE /\ dirs' = dirs \cup Ancestors(d)
                /\ \/ files' = files
                   \/ opened \notin dirs /\ files' = files \cup {opened}
                   \/ /\ opened \notin dirs /\ clip \notin dirs \cup {l.at : l \in links}
                      /\ files' = (files \ {opened}) \cup {clip}
    /\ Answer(s)

(* The sweep removes a file, a link, or a directory that is empty. *)
Swept(n) ==
    /\ IsStrictPrefix(Root, n)
    /\ Children(n) = {}
    /\ dirs' = dirs \ {n}
    /\ files' = files \ {n}
    /\ links' = {l \in links : l.at # n}
    /\ dangled' = (dangled \/ ~LinksLead')
    /\ UNCHANGED <<config, user, grant, request>>

Op == {"get", "put", "list", "metadata", "cwd", "mkd"}

Next ==
    \/ \E c \in File : Reload(c)
    \/ \E s \in Session :
          \/ \E login \in DOMAIN Build(config) : Login(s, login)
          \/ \E virtual \in VirtualPath :
                \/ \E op \in Op \ {"put"} : Request(s, op, virtual)
                \/ PutProbe(s, virtual) \/ Put(s, virtual)
          \/ Read(s) \/ MakeDir(s) \/ Store(s) \/ Logout(s)
    \/ \E n \in Entries : Swept(n)

Spec == Init /\ [][Next]_vars
-----------------------------------------------------------------------------
(* config.rs: a collision of names must be refused, "otherwise one account *)
(* would silently overwrite the other in the login-keyed account map".     *)
(* Every camera and every viewer of the file in force has an account of    *)
(* its own under its login.                                                *)
NoAccountShadowed ==
    /\ \A cam \in config.camera : Build(config)[CameraLogin(cam)] = Uploader(cam)
    /\ \A v \in config.viewer : Build(config)[v.name] = Viewer(config, v)

(* No operation leads to a place the config file did not give the account: *)
(* a camera writes and looks below its own home and downloads nothing, a   *)
(* viewer writes nothing, links lead nobody out, and what the tree became  *)
(* between resolution and access makes no difference.  A test upload and   *)
(* the names put behind a resolved path are in it, which contained never   *)
(* sees.  A link that has led nowhere ends the promise: contained lets the *)
(* path pass, and it leads out once what it leads to is made again.        *)
AccessInScope ==
    ~dangled => \A s \in Session :
        request[s] # None =>
            \A n \in LeadsTo(s) :
                \E base \in grant[s][request[s].access] : IsPrefix(base, n)

(* A listing can be followed: a name it shows, taken behind the path it    *)
(* was asked for, resolves to that entry of that directory.  Links are     *)
(* listed as entries and may lead out of scope; a camera at the synthetic  *)
(* root may have lost its home.                                            *)
ListingRoundTrip ==
    \A s \in Session, virtual \in VirtualPath :
        user[s] # None /\ CapabilityAllowed(user[s].kind, "list") =>
            \A name \in Listing(user[s], virtual) :
                LET r == Resolve(user[s].view, Append(virtual, name))
                IN  IF AtSyntheticRoot(user[s], virtual)
                    THEN r = Resolved(Home(name)) \/ Home(name) \notin dirs
                    ELSE LET entry == Append(Resolve(user[s].view, virtual).path, name)
                         IN  r = Resolved(entry) \/ \E l \in links : l.at = entry
=============================================================================
