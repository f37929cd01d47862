# A verification project for reoftpd

`reoftpd` is an FTP(S) server, written in Rust on top of libunftp, that Reolink
cameras upload their clips to. It promises an append-only archive (a clip, once
finalised, never changes), read-only viewers, connection caps that do not wedge
shut, configuration reload without a restart, and deletion by age only. This
directory holds TLA+ models of the parts of the program that carry those
promises, the TLC configurations that check them and TLAPS proofs of the most
important ones. `PROJECT.json` maps every definition to the lines it models.

Paths below are relative to the repository, for example `src/limits.rs`.

## 1. Inventory of the system

| Component | State | Operations | Talks to |
|---|---|---|---|
| Session tracker, `limits.rs` | per account a list of admit times; `global`; two caps; one mutex | `try_admit`, `on_logout`, `reap`, `set_limits` | auth, presence, reaper, reload |
| Authentication, `auth.rs` | shared `ArcSwap<Accounts>` | `authenticate`, `provide_user_detail` | called by libunftp, one after the other |
| Presence, `presence.rs` | none | `receive_presence_event` | called by libunftp, asynchronously |
| Server tasks, `server.rs` | signal stream, interval timer | `run`, `reload_config`, `ensure_home_dirs` | tracker, accounts, file system |
| Upload path, `backend.rs` and `append.rs` | the archive directories; nothing in memory | `put` (`store_stream`, `store_encrypted`, quarantine), `mkd` | file system |
| Read path, `backend.rs` | none | `metadata`, `list`, `get`, `cwd` | file system, scope map |
| Retention, `retention.rs` and `main.rs` | none; a process of its own, started daily | `sweep`, `visit` | file system |
| Paths and scopes, `paths.rs` | none | `normalize`, `contained`, `ScopeMap` | upload and read path |
| Configuration, `config.rs` and `account.rs` | the config file | `load`, `validate`, `build` | run, reload, cleanup |
| Encryption, `crypto.rs` | the recipients of the process, identity files | `generate_identity`, `encrypt_stream`, `decrypt_stream` | upload path, `genkey`, `decrypt` |
| Operator commands, `main.rs` and `cli.rs` | the config file, identity files, the viewer's files | `add-camera`, `add-viewer`, `genkey`, `decrypt` | file system; the server only through the config file |
| Password hashing, `hashing.rs` | none | `hash_password`, `verify_password` | add commands, authentication |
| TLS files, nftables, `hash-password` | none | generate and print | |

What is hard about it:

* **Concurrency.** Sessions run on a multi-threaded tokio runtime. The tracker
  is behind one mutex, but the login path takes several steps around it, and
  the upload path awaits between every two file operations. The sweep is
  another process, which shares nothing with the server but the file system.
* **Lost and late events.** libunftp reports `LoggedOut` asynchronously and
  only on a clean close. A slot carries no session identity.
* **Crashes and dropped futures.** An upload may end at any await point and
  leave a staging file or a clip with two names; a blocking encryption task is
  not cancelled with the future that waits for it.
* **One config file, no lock.** Commands append to it without a lock and
  without checking it, operators edit it, and a reload reads it at any moment.
* **Keys.** A public key in the config file whose secret key was never written
  means footage that nobody can open, and nothing would show it for weeks.
* **Check, then use by name.** Existence, size and age are read by name in one
  step and acted on by name in a later one.

The `hazards` of `PROJECT.json` list these at the lines where they bite, each
with the properties that would catch it, or with the reason why none does yet.

## 2. Modules

| Module | Models |
|---|---|
| `SessionTracker` | `limits.rs`: one action per method |
| `SessionTrackerProofs` | theorems about it |
| `FtpSessions` (extends `SessionTracker`) | login and logout, presence events, SIGHUP reload, reaper |
| `FtpSessionsProofs` (extends `SessionTrackerProofs`) | theorems about it |
| `Archive` | uploads, mkd, restart, the file system, the retention sweep |
| `AppendOnlyArchive` | what the archive promises, in four lines of action |
| `ArchiveProofs` | theorems about `Archive`: types, and which names and handles a file has |
| `ArchiveDataProofs` (extends `ArchiveProofs`) | theorems about what the files hold, the sweep, and the refinement |
| `Accounts` | `validate`, `expand_scope` and `account::build`, as operators |
| `ScopedAccess` (extends `Accounts`) | `ScopeMap`, the capability gate and the read operations |
| `PathProofs` | induction, and lemmas about `Canonical` and `Normalize` |
| `ScopedAccessProofs` (extends `PathProofs`) | theorems about `ScopedAccess` |
| `ConfigFile` (extends `Accounts`) | the tables the commands append, how loading reads them back, password hashes |
| `Operations` (extends `ConfigFile`) | `add-camera`, `add-viewer`, `genkey`, `decrypt`, and the server's start, reload and death around them |
| `OperationsProofs` | theorems about keys, clips and `decrypt` |
| `ConfigFileProofs` (extends `OperationsProofs`) | theorems about the config file and the accounts made from it |
| `MCFtpSessions`, `MCArchive`, `MCScopedAccess`, `MCOperations` | the small instances for TLC |

### Session tracker and sessions

A slot is its age. `Tick` ages all slots alike and an age stops at `TTL`, since
the code only compares with it; an account without an entry in the hash map is
one with the empty list. `global` is a variable of its own, as in the code, with
the saturating operations written out over a width `U32Max`.

`FtpSessions` gives a connection the phases *closed, verified* (credentials and
TLS rule passed), *admitted* (`try_admit` succeeded), *live*
(`provide_user_detail` succeeded) and *leaving* (closed, `LoggedOut` not yet
handled). `authenticate` loads the account map before hashing the password, so
a reload may come between that load and `try_admit`: the two are separate
actions. `provide_user_detail` loads the map again and may fail with the slot
taken. `Drop` is a connection that dies silently. `reload_config` is three
actions: load and validate, `accounts.store`, `set_limits`. Passwords are right
or wrong, and a wrong one changes nothing.

### Archive

One camera's directory tree: its home, a date folder and `.quarantine`. A name
is a directory, a stem and the suffixes `age` and `partial` behind it, so that
`staging_path` and `age_suffix` do what they do in the code. Directory entries
bind names to inodes; an open handle stays on its inode. An inode is named by
the transfer that creates it, since a transfer creates at most one. File
contents are sequences of blocks, each the number of the block of the clip it
carries, so that misplaced, missing and doubled data can be told apart.

A transfer walks through the labels *check, stat, mkdir, open, copy, flush,
link, unlink*, one per await point of `store_stream`; encrypted uploads and
probes take the subset their code takes. `Abandon` drops the future at any of
them, `Restart` kills the process. The look for the final name may fail with an
I/O error (`CheckErrors`): `store_stream` then returns, `store_encrypted` takes
the clip for absent and goes on. An operation that is under way on the
blocking pool when its future is dropped still completes: that is its step
followed by `Abandon`. The encryption task becomes *detached*.

The sweep is a process with one step per directory entered, entry examined,
file removed and directory left. It compares with the `now` it was started
with, removes by name, gives up at the first file that has vanished, and prunes
what is empty. `read_dir` returns at least what was there when it was opened.

### Access

`ScopedAccess` has config files as records of cameras, groups and viewers, and
paths as sequences of components over a tree with directories, files and links.
`Canonical` is the file system's; `Contained`, `Resolve`, `ExpandScope`, `Build`
and `Validate` are the code's. An operation is two steps: `Request`, `Put` or
`PutProbe` (gate and resolution, which run without an await) and the access
behind the await (`Read`, `MakeDir`, `Store`), with uploads, reloads and the
sweep between the two. A refusal changes nothing and is no step. An upload
carries the names `put` makes up behind the resolved path: the clip's, with
`.age` where it is encrypted, and that of its staging file. A test upload goes
to `.quarantine` in the home and is not resolved at all, as in the code. Beside
the copy of the account a session holds, the model keeps what the file in force
at login *said* (`Granted`), computed from the file and not from the account, as
the measure for `AccessInScope`. A client may name any path, `..`, links and
names that do not exist included.

Links are the operator's, as no FTP command makes one. The sweep prunes any
directory that is empty, homes and the targets of links too. A link that leads
nowhere is for `contained` a name that does not exist; such a path passes, and
leads out of the home when a reload makes the target again. The history variable
`dangled` records that a link has led nowhere; `AccessInScope` promises nothing
from then on.

What the code does not check and the model assumes:

* `ScopedAccessAssumption`: names of cameras are single path components, not `.`
  or `..` (`validate` enforces neither); a link lies in directories of the tree
  under a name that is no directory or file, and points by a name that itself
  passes through no link; neither the root nor a camera's home is reached
  through a link.
* `LinkAssumption`: no link has the name of a staging file, lies on the way into
  a camera's quarantine, or leads to a home or above one. What `put` adds behind
  a resolved path, and the quarantine, are not checked against links.

### Operations

A command is a *job*, a process of its own; `step` says what it does next, and
`Kill` ends it before that: by a signal, a closed terminal or an I/O error after
which the code only returns. `AddAccount` is all of `add-camera` or `add-viewer`
up to the write, `WriteAll` one `write` of `write_all`, which may come out short.
`genkey` is create, write and print with an output file, or two prints without;
it truncates whatever its path holds, as the code does. `decrypt` reads its
identity once and then takes its files in turn, each with the creation of the
output, the copy block by block, and the removal on an error.

`ConfigFile` keeps the array tables of the file line by line, since half a table
is what the readers may find, and how the file ends. A write may be cut at any
byte: at the end of a line, behind its newline or inside it (`Wrote`). A file
that ends inside a line does not load. When two commands write in turns, the
next text joins what was left, and one line is made of two pieces (`Splice`). It
may be a line that TOML refuses (`Torn`); one with a key that no table has and
serde ignores (`Unknown`: `userna` and `require_tls = true` make
`usernarequire_tls = true`); `name = ..`, what is left of a user name cut after
`user`; or the line itself, where the other command was cut in its like. Any
further reading takes a line away from a table that has to have it (a header, a
hash, a name without a user name behind it), so that the file does not load; it
counts as refused. The history variable `lost` has the jobs of which a line read
as another or as none.

Names and scopes go between quotation marks without TOML escapes; `Unquote` is
what TOML reads there, possibly another name (`"c\u0061m"` is `cam`) or nothing
(`Unreadable`). `Parses` is what serde asks: all fields without a default, no key
twice; `upload_password_hash` and `password_hash` are different keys, as in the
code. `HashPassword` is the password and a salt, so that hashes of one password
differ.

`Start` and `Reload` differ in one respect, as in the code: a reload takes over
the accounts and not the recipients, which `build_server` hands to the backend
for the life of the process.

Assumed of the environment: the config file has an `[encryption]` section and no
groups; names hold no quotation mark and no newline (nothing checks that either:
`NameAssumption`); recipients are chosen among keys `genkey` has printed, and a
secret key that was printed is kept; the operator repairs a file that does not
load by cutting off what was appended, when no command is writing; one `decrypt`
at a time works on the viewer's files. Logins, uploads and downloads are single
steps here, their parts being in the other modules.

Three constants of the other modules are hypotheses about the environment, each
shown to be needed by a run without it: `ExclusiveUploads` (a path is not stored
to by two transfers at once, a detached writer included), `ShortSessions` (no
session lasts for `SESSION_TTL_SECS`; the comment at that constant makes this
assumption) and, for encrypted uploads, `CheckErrors = FALSE` (the look for the
final name does not fail).

## 3. What the runs check

| Run | Shows |
|---|---|
| `session_caps` | `AdmissionWithinCaps`: each admission leaves the number of *real* sessions within both caps. `FreshSessionsCounted` is why: for every age k below the TTL, an account holds at least as many slots of age at most k as sessions of age at most k, although logouts drop other sessions' slots. `ConfigCoherent`: accounts and caps are from one file whenever no reload is under way |
| `session_liveness` | types; `GlobalIsSum` and `OldestFirst` of the tracker; every step of the composed system is a step of `TrackerSpec`; `CapsNeverWedge`; `ReloadTakesEffect`. Sessions may outlive the TTL here and reloads lower the cap below what is in use |
| `archive_store` | `FinalImmutable`, `ClipsWhole`, the inductive invariant `StoreInv` and the refinement `ImplementsAppendOnly` for plain uploads with every resume offset, the look for the final name failing now and then |
| `archive_encrypted` | encrypted uploads, detached writers and probes, the look for the final name failing now and then: `AcknowledgedIsStored`, and `SettledClipsImmutable`: a clip whose staging name is gone or names another file is never altered or replaced. A clip that still has its staging name may be: `check_error` |
| `archive_sweep` | types, `OnlyExpiredClipsGo`, `AcknowledgedIsStored` and the refinement, in which a clip goes only when it is past retention, with the sweep running; `EverythingExpires`: if passes complete again and again, no file stays for ever |
| `scoped_access` | `NoAccountShadowed`: validate refuses every file for which an account would overwrite another. `AccessInScope`: wherever a resolved request leads, at any time until it is performed, lies below a directory the config file gave that login for that kind of access, as long as no link has led nowhere. `ListingRoundTrip`: what a listing shows resolves to the entry it showed |
| `operations` | types; `AccountsAsTold`: an account in force is one somebody asked for, with its password, role, scope and login, although tables are written by several processes, cut at any byte and read half-way; only a camera of which a line was joined with another command's may come by the other of its two names; `AccountsKept`: reloads of whatever the commands leave take no account away and no TLS rule off; `FootageRecoverable`: every sealed clip opens with an identity that is in a file or was printed, unless `genkey` was given the file it was in; `NoPartialPlaintext`: `decrypt` leaves no short clip, unless it is killed at it |

Five runs end in a violation. Each states what a comment or the README says of
the program and shows a behaviour of the code that disagrees:

* `reaped_live_session`: the logout of a session that was reaped while alive
  removes the slot of a younger session of the account, so that reaping a live
  session frees two slots, not one.
* `shared_staging`: two transfers in flight for one path share one staging
  file; the slower one writes on into the clip the faster one finalised.
* `check_error`: a crash leaves a finalised clip with its staging name; the next
  encrypted upload of that path goes on although `try_exists` failed, and
  `File::create` truncates the clip.
* `swept_resume`: the sweep removes a stale staging file between the `stat` and
  the `open` of the transfer that resumes it, and the clip is finalised without
  its first blocks.
* `pruned_home`: the sweep prunes the empty home of a camera, and its uploads
  are refused until a reload, a restart or a connection test makes it again.

### Bounds, and why they are enough

* Sessions: three connections and two accounts, because a wrong slot is dropped
  only when one session leaves, another stays and a third is let in. `TTL` of 2
  in `session_caps` gives ages that are fresh, older and expired, and 1 in
  `session_liveness` separates fresh from expired. `U32Max` of 3 makes
  saturation reachable if the counter could ever drift. Caps of 1 to 3 lie below
  and at the number of connections. `max_connections = 0` is left out: it
  admits nobody, by configuration.
* Transfers: three per behaviour in `archive_store` and `archive_encrypted` (one
  that leaves something behind, one that meets it, one beside them), two where
  the sweep is the other party. Two blocks per transfer and offsets 0 to 2 give
  offsets below, at and above every staging size that matters.
* Sweep: any number of passes; ages saturate at `MaxAge`, one above the longest
  retention. Staging and quarantine ages are shorter than the retention, as the
  constants in `main.rs` (one hour) are against a retention in days. In the
  sweep runs transfers start at offset 0, because a resume can lose its staging
  file to the sweep: that is `swept_resume`.
* Access: two connections that log in and out as every account, so that one acts
  between the other's resolution and access; two cameras; eight config files, of
  which two are valid; paths with up to three components, with a link out of
  the archive or to the other camera's folder; clips and test uploads. `Node`
  bounds the tree (194,712 states).
* Operations: two jobs, since what can go wrong in the config file takes one
  command beside another or beside the server; four requests: two cameras with a
  user name, one with the TLS rule (the longest table), a viewer whose scope
  needs that camera, and a viewer with a login that is taken. One user name
  reads back as another. Three writes come out short (`MaxShort`): two cut the
  lines that are joined, the third leaves the joined one. Two key pairs and two
  identity files, of which one pair is there at the start, so that `genkey`, a
  change of recipients and a server with the old ones meet. One clip of one
  block, given once, twice or without its `.age`; short downloads have none of
  it. The constraint `OneAtATime` keeps short writes apart from new keys and
  clips, which meet the tables only in what the server has loaded (678,790
  states). `OperationsProofs` and `ConfigFileProofs` cover any number of all of
  these, without the constraint.
* Symmetry over connections, transfers or jobs is used in the safety runs only.

### Fairness

* `FtpSessions`: weak fairness of time, of the reaper (an interval timer in a
  task that never returns) and of the steps of the reload task. Nothing is
  assumed of clients: `CapsNeverWedge` holds even if no session ever ends.
* `Archive`: weak fairness of time, and of nothing else. A client may hold its
  transfer open for ever (the idle timeout is for control connections), a crash,
  a mkd or a new upload need never happen. That a pass of the sweep completes
  again and again is the *premise* of `EverythingExpires` and not fairness of
  the code: the repository starts the command from a daily timer and retries
  nothing, a pass that meets a vanished file is aborted, and
  `packaging/reoftpd-cleanup.service` runs `reoftpd cleanup --once`, a flag the
  `Cleanup` command of `cli.rs` does not have, so that the packaged unit has to
  be corrected before any pass completes. What the property shows is that
  uploads, crashes and aborted passes in between leave nothing out of the
  sweep's reach.

## 4. What is proved

The proofs hold for every value of the constants that meets the named
assumptions of the modules.

`SessionTrackerProofs`, from `TrackerAssumption`:

* `TrackerTypeCorrect`: `TrackerSpec => []TrackerTypeOK`.
* `GlobalCountCorrect`: `TrackerSpec => []GlobalIsSum`.
* `AdmissionOrderKept`: `TrackerSpec => []OldestFirst`.

The inductive invariant `TrackerInv` is the types and `GlobalIsSum`, which needs
them for the arithmetic and the cap for the bound (an admission happens only
below `max_global`, so the increment never saturates); a decrement never
saturates because there is a slot to give back. `OldestFirst` is inductive with
the types. `Reap` is written as dropping a prefix of each list; the lemma
`RetainIsTheFilter` shows that on an ordered list that is the `retain` of the
code, so that the encoding is sound. The other lemmas count slots: a longer,
shorter or unchanged list of one account moves the count by as much.

`FtpSessionsProofs`, from `SessionsAssumption` in addition (the connections are
finitely many):

* `SessionsTypeCorrect`: `Spec => []SessionsTypeOK`.
* `ReloadCoherent`: `Spec => []ConfigCoherent`.
* `ImplementsTracker`: `Spec => TrackerSpec`, and from it
  `TrackerCorrectInServer`:
  `Spec => [](GlobalIsSum /\ OldestFirst)`.
* `FreshSessionsAreCounted`: under `ShortSessions`,
  `Spec => []FreshSessionsCounted`.
* `CapsBoundSessions`: under `ShortSessions`, `Spec => AdmissionWithinCaps`.

`ConfigCoherent` says nothing about the middle of a reload; `ReloadHalfway` adds
that after `accounts.store` the file about to give its caps is the one the
accounts came from. That every step is a step of the tracker needs `KnownUsers`:
who passed `authenticate` has an account the tracker knows. For the caps the
invariant is `FreshSessionsCounted` itself with `NoneOverdue` (no session is as
old as the TTL). A logout gives back the *oldest* slot, perhaps another
session's: if that slot is older than k, the slots up to age k are untouched; if
not, all slots of the account are up to age k, and there were enough of them for
all of its sessions, of which one goes. The caps follow by counting: sessions
map one to one into slots, and `try_admit` compares the slots.
Without `ShortSessions` the two are false, as `reaped_live_session` shows.

`ArchiveProofs`, from the assumptions of `Archive`:

* `ArchiveTypeCorrect`: `Spec => []ArchiveTypeOK`, with no further assumption.
* `StoreInvariant`: under `CleanTargets`, `ExclusiveUploads` and `CheckSafe`,
  `Spec => []StoreInv`.
* `FinalClipsImmutable`: under the same three, `Spec => FinalImmutable`.

`CheckSafe` says that the check of the final name can be relied on: uploads are
plain, or the check does not fail. For encrypted uploads with errors of the
check `CheckStaysTrue` and `FinalImmutable` are false, as `check_error` shows.
`FinalImmutable` needs more than itself: that a write never reaches the inode of
a clip follows from knowing which names an inode can have (`OwnedNames`), which
paths a handle can be on (`OwnedHandles`), that a path has one writer
(`OneWriter`, which is the assumption `ExclusiveUploads` carried from the start
of a transfer to its end), and that a writer finds its final name free for as
long as it writes (`CheckStaysTrue`). `StoreInv` is their conjunction and is
inductive with the types. `CleanTargets` says that no stored path is the staging
name of another one; nothing in `put` enforces it.

`ArchiveDataProofs`, on top of those:

* `OnlyExpiredFootageGoes`: under `CleanTargets`, `ExclusiveUploads`,
  `CheckSafe` and `PlainTargets` (clips are not kept in the quarantine or under
  staging names), `Spec => OnlyExpiredClipsGo`.
* `DataInvariant`, `FinalClipsWhole`, `AcknowledgedUploadsStored`: under
  `CleanTargets`, `ExclusiveUploads` and `ResumeSafe`, `Spec => []DataInv`,
  `Spec => []ClipsWhole` and `Spec => AcknowledgedIsStored`. They rest on
  `PathsApart` alone and hold whatever the check of the final name says.
* `ArchiveIsAppendOnly`: under all five, `Spec => ImplementsAppendOnly`.

The sweep looks at a file and removes it by name in a later step. `SweepInv`
carries the look over to the removal: the age the sweep computes with is never
beyond the real one, and what lies under the name about to be removed is still
what was looked at, because a finalised name is not bound again
(`FinalImmutable`). `DataInv` says block for block what the files of clips hold
(`WholeFiles`); to keep it, a transfer's position must be the end of its file
and its file its own, from the `stat` that judged the offset to the last block
(`TransferOK`), a transfer that has not opened anything must own no inode
(`Unborn`), and an answer must not be given early (`Unanswered`). `ResumeSafe`
is "no sweep, or no transfer starts behind the beginning"; `swept_resume` shows
that the theorems are false without it, and `shared_staging` the same for
`ExclusiveUploads`. The instance of each archive run meets the hypotheses of the
theorems about its properties, and `SweepInv` and `DataInv` were checked by TLC
on them before they were proved. The refinement has the plain mapping (the
entries and contents of clips, and which of them are past retention), so that a
step is a finalisation, the expiry of a clip past retention, or a stutter of
`AppendOnlyArchive`.

`ScopedAccessProofs` and `PathProofs`, from the three assumptions of
`ScopedAccess`:

* `AccountsDistinct`: `Spec => []NoAccountShadowed`. The invariant is that the
  file in force is valid; the lemma `ValidBuild` shows that validity is enough.
* `AccessInvariant`: `Spec => []AccessInv`.
* `AccessStaysInScope`: `Spec => []AccessInScope`.
* `ListingsCanBeFollowed`: `Spec => []ListingRoundTrip`.

`contained` looks at the tree before the await and the access happens after it.
`AccessInv` says what bridges the two, as long as no link has led nowhere
(`Promise`): the place a pending request was resolved to lies below the grant
*and* has no link on the way to it. Nothing makes links, and directories and
files are not made where one is, so such a place leads to itself as long as it
is there, whatever is uploaded or swept meanwhile. A test upload, which is not
resolved, and the names put behind a resolved path have no link on the way
because of `LinkAssumption` (`UploadTyped`, `Quarantined`). The
account a session holds was built from the file its grant was read from, so
that the lemmas about `Build` and `ExpandScope` put every scope below a granted
home. Both proofs need what the recursive functions compute for a path of any
length. The library's induction takes an operator as a parameter; `PathProofs`
states induction and primitive recursion once for *sets* and functions, proves
them from the least element of a set of numbers, and derives that `Canonical`
yields a path without links or nothing (`Real`), that the last name decides
(`Enter`), and that `Normalize` leaves neither `..` nor `.`, whatever the path.

`OperationsProofs`, from `OperationsAssumption`:

* `SealedFootageOpens`: `Spec => []FootageRecoverable`.
* `PlaintextsWhole`: `Spec => []NoPartialPlaintext`.
* `OperationsTypeCorrect`: `Spec => []OperationsTypeOK`.

The inductive invariant is `OperationsInv`. `FootageRecoverable` speaks of clips
and identity files only; its strengthening `KeyInv` follows a key on its way:
what a clip is sealed for was shown, as were the recipients of the process and
those of the file; and what was shown, or is about to be, is `Safe`: in an
identity file, printed, or taken by a later `genkey` that was given the same
file. That nothing is sealed for nobody is the lemma
`LoadsForSomebody`, about `validate`. `CopyInv` says that one `decrypt` works at
a time and that its input and output stay where they are while it copies; the
types rest on it, and `NoPartialPlaintext` is inductive on top of the two.

`ConfigFileProofs`, from `OperationsAssumption` (of the first file: that it
loads), `NameAssumption` and `FirstLinesAssumption` (that it is a sequence of
lines):

* `AccountsInForceAsTold`: `Spec => []AccountsAsTold`.
* `ReloadsKeepAccounts`: `Spec => AccountsKept`.
* `TablesAttributable`: `Spec => [](TableInv /\ AccountsInv)`.

Neither property is inductive: the file does not say who wrote a line, and the
accounts in force may be those of a file that has grown, or was spoilt and cut,
since. `TableInv` says that there is an attribution of the lines. `req[j]` is
what job j was asked for, `by[p]` the job that ended line p and `at[p]` which
line of its table that is, 0 for a line that was cut and left by a newline. Then
(`Written`) the file is the first file followed by lines of tables, those of a
job in their order and none without the ones before it, and each reads as it was
written or is refused; or, if its job is in `lost`, has no meaning, or is a user
name that reads as a name (`Reads`). Further (`Asked`) every job in the file has
its request in `told` and is no longer idle; and a job in `write_all` has the
rest of its table still to write. A write of any length by any job, in place or
spliced into another's line, keeps this (`WritesAdd`, `WrittenLonger`,
`AddTorn`), and so does a repair, because the first lines of a written file are a
written file (`WrittenPart`). `AccountsInv` says that the accounts in force are
those of some number of first lines of the file that load by themselves; a
repair goes back to the *longest* part that loads and therefore never cuts into
those (`RepairLeaves`).

The core is the lemma `OwnLine`, about what parsing makes of mixed lines: in a
file that parses, the hash of a table and the scope of a viewer were written
into it by the table's own job. Were one another job's, take the first table of
which that is so. The header of the job that wrote the line stands before that
table, so its table has the field from its own job already; a job writes no key
twice, so the two lines are the same one, and it cannot stand in two tables.
Names stand before the hash, so that a name line of a job whose hash is in its
table is in that table too: `OwnName` shows that the name of a table is one of
its own job's names, and the name itself unless the job is in `lost`;
`OwnFields` adds the optional user name. The TLS rule comes after the hash, and
for it no such lemma holds. With `validate` (no two entries with one login) every
account of `Build` is the account of one table (`BuiltFrom`), which gives the
first theorem; `TableStays` compares a table in a part that loads and in the
whole, which gives the second.

Model-checked only: `CapsNeverWedge`, `ReloadTakesEffect` and
`EverythingExpires`, as liveness under fairness is outside what the prover
handles, and `SettledClipsImmutable`, whose inductive invariant is left to do.
Every other property of the passing runs is a theorem.

## 5. Not modelled

* `age` and argon2 are external: a ciphertext opens with the secret keys it was
  sealed for, and a hash fits its own password. `hash-password` and
  `nftables` only print.
* `gencert` writes a certificate and a key one after the other. Killed between
  the two it leaves a pair that does not match; what happens then is decided in
  libunftp and rustls, and nothing in the repository promises anything about it.
* `resolve_user` and `drop_privileges`: `run` calls neither.
* The TLS rule of a table that is cut off: `require_tls` is its last line and
  has a default, so a camera read without that line is valid and may log in
  without TLS. `AccountsAsTold` leaves the rule out for that reason.
* `retention_days * 86_400` as a `u64` product: the retention is a number of
  ticks here.
* libunftp and the file system are external and modelled as the code uses them.
  Data loss by power failure is not modelled: `Restart` is the death of the
  process, and the page cache survives it.
* A retry that overlaps the detached encryption of the upload before it:
  `ExclusiveUploads` counts the detached writer as a transfer. `shared_staging`
  shows what such an overlap does to plain uploads.
* `cleanup --dry-run`, two sweeps at once, and several cameras: the trees of
  different cameras are disjoint, and probes and clips of one are modelled
  together.
* Viewers do not appear in `Archive`: `put` and `mkd` refuse them at once, and
  `del`, `rename` and `rmd` refuse everybody.

## 6. Plan

1. *Done*: `SessionTracker`, `FtpSessions`, `Archive`, `AppendOnlyArchive`, with
   their runs and theorems.
2. *Done*: `ScopedAccess`, its run and its first theorem.
3. *Done*: `Accounts`, `ConfigFile` and `Operations`: the operator's commands,
   keys and `decrypt`, with their run and three theorems.
4. *Done*: theorems for every safety property of `FtpSessions`, `Archive` and
   `ScopedAccess`, and for both refinements.
5. *Done*: theorems for every safety property of `Operations`, the config file
   under several writers included.
6. *Done*: short writes at every byte, `genkey` in both forms, errors of the
   check of the final name, test uploads and pruned link targets in the access
   model, with the theorems restated.
7. Left: a theorem for `SettledClipsImmutable`; a reader of a clip (`get`, block
   by block) in `Archive`, beside upload and sweep.
