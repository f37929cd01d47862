------------------------------ MODULE Accounts ------------------------------
(***************************************************************************)
(* What a config file means: the rules it must meet (src/config.rs,        *)
(* validate) and the accounts it is turned into (src/account.rs).          *)
(*                                                                         *)
(* A parsed file is a record: "camera", a set of [name, username, hash,    *)
(* tls], "group", a function from names to sets of names, "viewer", a set  *)
(* of [name, hash, scope], and "settings", which stands for the parts      *)
(* without names: passive ports in order, recipients that parse.           *)
(***************************************************************************)
EXTENDS Sequences

CONSTANTS
    Root,       \* [archive].root
    All,        \* Scope::All
    None        \* Option::None

CameraLogin(cam) == IF cam.username = None THEN cam.name ELSE cam.username
CameraNames(c) == {cam.name : cam \in c.camera}
CameraLogins(c) == {CameraLogin(cam) : cam \in c.camera}
ViewerNames(c) == {v.name : v \in c.viewer}

(* A slip: viewers may have the login of a camera. *)
ValidateNoCollision(c) ==
    /\ c.settings = "ok"
    /\ \A x, y \in c.camera : x # y => x.name # y.name /\ CameraLogin(x) # CameraLogin(y)
    /\ \A g \in DOMAIN c.group : c.group[g] \subseteq CameraNames(c)
    /\ \A v, w \in c.viewer : v # w => v.name # w.name
    /\ \A v \in c.viewer :
          v.scope # All => v.scope \subseteq CameraNames(c) \cup DOMAIN c.group

Validate(c) ==
    /\ c.settings = "ok"
    /\ \A x, y \in c.camera : x # y => x.name # y.name /\ CameraLogin(x) # CameraLogin(y)
    /\ \A g \in DOMAIN c.group : c.group[g] \subseteq CameraNames(c)
    /\ \A v, w \in c.viewer : v # w => v.name # w.name
    /\ ViewerNames(c) \cap CameraLogins(c) = {}
    /\ \A v \in c.viewer :
          v.scope # All => v.scope \subseteq CameraNames(c) \cup DOMAIN c.group

(* ScopeMap: one root, or a root per name. *)
Single(root) == [single |-> root, roots |-> <<>>]
Multi(roots) == [single |-> None, roots |-> roots]
Home(name) == Append(Root, name)

ExpandScope(c, scope) ==
    IF scope = All THEN Single(Root)
    ELSE LET names == UNION {IF i \in DOMAIN c.group THEN c.group[i] ELSE {i} : i \in scope}
         IN  Multi([n \in names |-> Home(n)])

(* build: cameras first, then viewers, who overwrite. *)
Uploader(cam) ==
    [kind |-> "uploader", view |-> Single(Home(cam.name)), hash |-> cam.hash, tls |-> cam.tls]
Viewer(c, v) ==
    [kind |-> "viewer", view |-> ExpandScope(c, v.scope), hash |-> v.hash, tls |-> FALSE]
Build(c) ==
    [l \in CameraLogins(c) \cup ViewerNames(c) |->
        IF l \in ViewerNames(c)
        THEN Viewer(c, CHOOSE v \in c.viewer : v.name = l)
        ELSE Uploader(CHOOSE cam \in c.camera : CameraLogin(cam) = l)]
=============================================================================
