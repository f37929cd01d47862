----------------------------- MODULE ConfigFile -----------------------------
(***************************************************************************)
(* The config file as text: the tables that add-camera and add-viewer      *)
(* append to it (src/cli.rs), and how loading reads them back              *)
(* (src/config.rs), with the password hash in them (src/hashing.rs).       *)
(*                                                                         *)
(* Of the text only the array tables are kept, line by line, because a     *)
(* command that is interrupted, or read in the middle of its write, leaves *)
(* some lines of its table and not the others.  A line is kept as TOML     *)
(* reads it; one that TOML refuses is Torn, and one whose key no table has *)
(* is Unknown.  How the file ends is kept too: a write may be cut off      *)
(* inside a line, and the next one go on from there.  Recipients stand     *)
(* beside the lines: no command writes them.  There are no groups.         *)
(***************************************************************************)
EXTENDS Accounts, Integers, FiniteSets

CONSTANTS
    Unquote(_),     \* what TOML reads where a name was put between quotes
    Unreadable      \* ... when it refuses

(* argon2 is external: a hash tells its password from all others, and two  *)
(* hashes of one password differ by their salt.                            *)
HashPassword(password, salt) == [of |-> password, salt |-> salt]
VerifyPassword(password, phc) == phc.of = password
CheckCredentials(accts, login, password) ==
    login \in DOMAIN accts /\ VerifyPassword(password, accts[login].hash)
-----------------------------------------------------------------------------
Line(key, val) == [key |-> key, val |-> val]
Torn == Line("torn", Unreadable)
Unknown == Line("unknown", None)
Optional(key, val, present) == IF present THEN <<Line(key, val)>> ELSE <<>>

(* A slip: the user name comes after the hash. *)
RenderUsernameLast(r, hash) ==
    <<Line("camera", None), Line("name", Unquote(r.name)), Line("upload_password_hash", hash)>>
        \o Optional("username", Unquote(r.username), r.username # None)
        \o Optional("require_tls", TRUE, r.tls)

(* Names and scopes go between the quotes as they are, without escapes. *)
RenderCameraEntry(r, hash) ==
    <<Line("camera", None), Line("name", Unquote(r.name))>>
        \o Optional("username", Unquote(r.username), r.username # None)
        \o <<Line("upload_password_hash", hash)>>
        \o Optional("require_tls", TRUE, r.tls)

UnquoteScope(scope) ==
    IF scope = All THEN All
    ELSE LET names == {Unquote(n) : n \in scope}
         IN  IF Unreadable \in names THEN Unreadable ELSE names
RenderViewerEntry(r, hash) ==
    <<Line("viewer", None), Line("name", Unquote(r.name)),
      Line("password_hash", hash), Line("scope", UnquoteScope(r.scope))>>

Render(r, hash) ==
    IF r.kind = "camera" THEN RenderCameraEntry(r, hash) ELSE RenderViewerEntry(r, hash)
-----------------------------------------------------------------------------
(* A table is a header and the lines up to the next header; serde ignores  *)
(* those it does not know.                                                 *)
Headers(lines) == {i \in DOMAIN lines : lines[i].key \in {"camera", "viewer"}}
Body(lines, i) ==
    LET next == {h \in Headers(lines) : h > i}
    IN  {k \in DOMAIN lines : k > i /\ lines[k] # Unknown /\ \A h \in next : k < h}
Field(lines, i, key, default) ==
    LET at == {k \in Body(lines, i) : lines[k].key = key}
    IN  IF at = {} THEN default ELSE lines[CHOOSE k \in at : TRUE].val

(* What is demanded: every line reads, no key twice, every field without a *)
(* default.                                                                *)
HashKey(kind) == IF kind = "camera" THEN "upload_password_hash" ELSE "password_hash"
Required(kind) == {"name", HashKey(kind)} \cup IF kind = "viewer" THEN {"scope"} ELSE {}
Parses(lines) ==
    /\ \A k \in DOMAIN lines : lines[k].val # Unreadable
    /\ \A i \in Headers(lines) :
          LET keys == {lines[k].key : k \in Body(lines, i)}
          IN  /\ Cardinality(keys) = Cardinality(Body(lines, i))
              /\ Required(lines[i].key) \subseteq keys

CameraCfg(lines, i) ==
    [at |-> i, name |-> Field(lines, i, "name", None),
     username |-> Field(lines, i, "username", None),
     hash |-> Field(lines, i, "upload_password_hash", None),
     tls |-> Field(lines, i, "require_tls", FALSE)]
ViewerCfg(lines, i) ==
    [at |-> i, name |-> Field(lines, i, "name", None),
     hash |-> Field(lines, i, "password_hash", None), scope |-> Field(lines, i, "scope", None)]

(* The recipients of an [encryption] section may not be an empty list. *)
ParseStr(f) ==
    LET of(kind) == {i \in Headers(f.lines) : f.lines[i].key = kind}
    IN  [camera |-> {CameraCfg(f.lines, i) : i \in of("camera")},
         group |-> <<>>,
         viewer |-> {ViewerCfg(f.lines, i) : i \in of("viewer")},
         settings |-> IF f.recipients = {} THEN "bad" ELSE "ok"]

(* How a file ends: behind the text of its last line, behind the newline   *)
(* after that, or inside a line that job j began and whose text so far is  *)
(* its own or another's.  Of a line that is cut TOML reads nothing.        *)
EndsAt(end) == [at |-> end, by |-> None, own |-> FALSE]
Inside(j, own) == [at |-> "inside", by |-> j, own |-> own]

(* load succeeds, and then yields ParseStr(f). *)
Loads(f) == f.end.at # "inside" /\ Parses(f.lines) /\ Validate(ParseStr(f))
=============================================================================
