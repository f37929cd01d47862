------------------------- MODULE ScopedAccessProofs -------------------------
(***************************************************************************)
(* Proofs about ScopedAccess: the account map of a configuration in force, *)
(* the scope of every operation, and the listings.                         *)
(***************************************************************************)
EXTENDS PathProofs

(* What validate checks is enough for build: under each login stands the   *)
(* account of the one camera or viewer that has it.                        *)
LEMMA ValidBuild ==
    ASSUME NEW c, Validate(c)
    PROVE  /\ \A cam \in c.camera : Build(c)[CameraLogin(cam)] = Uploader(cam)
           /\ \A v \in c.viewer : Build(c)[v.name] = Viewer(c, v)
<1>1. ASSUME NEW cam \in c.camera PROVE Build(c)[CameraLogin(cam)] = Uploader(cam)
  <2>1. CameraLogin(cam) \in CameraLogins(c) BY DEF CameraLogins
  <2>2. CameraLogin(cam) \notin ViewerNames(c) BY <2>1 DEF Validate
  <2>3. (CHOOSE x \in c.camera : CameraLogin(x) = CameraLogin(cam)) = cam
    <3>1. \A x \in c.camera : CameraLogin(x) = CameraLogin(cam) => x = cam
      BY DEF Validate
    <3> QED BY <3>1
  <2> QED BY <2>1, <2>2, <2>3 DEF Build
<1>2. ASSUME NEW v \in c.viewer PROVE Build(c)[v.name] = Viewer(c, v)
  <2>1. v.name \in ViewerNames(c) BY DEF ViewerNames
  <2>2. (CHOOSE w \in c.viewer : w.name = v.name) = v
    <3>1. \A w \in c.viewer : w.name = v.name => w = v BY DEF Validate
    <3> QED BY <3>1
  <2> QED BY <2>1, <2>2 DEF Build
<1> QED BY <1>1, <1>2

ConfigValid == Validate(config)

(* No file that fails validate is ever in force: the server starts with a  *)
(* valid one and a reload keeps the old one otherwise.                     *)
LEMMA ConfigStaysValid == Spec => []ConfigValid
<1>1. Init => ConfigValid BY DEF Init, ConfigValid
<1>2. ConfigValid /\ [Next]_vars => ConfigValid'
  <2> SUFFICES ASSUME Validate(config), [Next]_vars PROVE Validate(config')
    BY DEF ConfigValid
  <2>1. ASSUME NEW c \in File, Reload(c) PROVE Validate(config') BY <2>1 DEF Reload
  <2>2. ASSUME ~\E c \in File : Reload(c) PROVE config' = config
    <3>1. /\ \A s, login : Login(s, login) \/ Logout(s) => config' = config
          /\ \A s, op : Asks(s, op) => config' = config
          /\ \A s : Answer(s) => config' = config
          /\ \A n : Swept(n) => config' = config
      BY DEF Login, Logout, Asks, Answer, Swept
    <3>2. /\ \A s, op, virtual : Request(s, op, virtual) \/ PutProbe(s, virtual) \/ Put(s, virtual)
                                  => config' = config
          /\ \A s : Read(s) \/ MakeDir(s) \/ Store(s) => config' = config
      BY <3>1 DEF Request, PutProbe, Put, Read, MakeDir, Store
    <3> QED BY <2>2, <3>1, <3>2 DEF Next, vars
  <2> QED BY <2>1, <2>2
<1> QED BY <1>1, <1>2, PTL DEF Spec

(* For every config file, every camera and every viewer of the file in     *)
(* force has its own account under its login: config::validate refuses all *)
(* the files for which account::build would overwrite one.                 *)
THEOREM AccountsDistinct == Spec => []NoAccountShadowed
<1>1. ConfigValid => NoAccountShadowed
  BY ValidBuild DEF NoAccountShadowed, ConfigValid
<1> QED BY <1>1, ConfigStaysValid, PTL
-----------------------------------------------------------------------------
(* No link stands on the way to a home or to the root. *)
HomesFree == \A c \in File : \A h \in Homes(c) \cup {Root} : LinkFree(h)

(* Homes and the root are ordinary paths. *)
LEMMA HomesNamed ==
    ASSUME NEW c \in File, NEW h \in Homes(c) \cup {Root}
    PROVE  h \in Path /\ Plain(h)
<1>1. Root \in Path /\ Plain(Root) /\ Len(Root) \in Nat BY ScopedAccessAssumption, PathType
<1>2. ASSUME NEW cam \in c.camera, h = Home(cam.name) PROVE h \in Path /\ Plain(h)
  <2>1. cam.name \in Name /\ cam.name \notin {".", ".."}
    BY ScopedAccessAssumption DEF CameraNames
  <2>2. /\ h \in Path /\ Len(h) = Len(Root) + 1 /\ h[Len(Root) + 1] = cam.name
        /\ \A n \in 1..Len(Root) : h[n] = Root[n]
    BY <1>1, <1>2, <2>1, AppendType DEF Home
  <2>3. ASSUME NEW n \in DOMAIN h PROVE h[n] \notin {".", ".."}
    <3>1. n \in 1..(Len(Root) + 1) /\ DOMAIN Root = 1..Len(Root) BY <1>1, <2>2, PathType
    <3>2. CASE n \in 1..Len(Root) BY <1>1, <2>2, <3>1, <3>2 DEF Plain
    <3>3. CASE n = Len(Root) + 1 BY <2>1, <2>2, <3>3
    <3> QED BY <1>1, <3>1, <3>2, <3>3
  <2> QED BY <2>2, <2>3 DEF Plain
<1> QED BY <1>1, <1>2 DEF Homes

(* The bases of an account are homes or the root, and the config file gave *)
(* it every operation that the gate lets it ask for, below each of them.   *)
LEMMA ViewInGrant ==
    ASSUME NEW c \in File, Validate(c), NEW login \in DOMAIN Build(c),
           NEW op \in Op, CapabilityAllowed(Build(c)[login].kind, op)
    PROVE  LET view == Build(c)[login].view
               given == Granted(c, login)[Access(op)]
           IN  /\ view.single # None => /\ view.single \in given /\ view.single \in Homes(c) \cup {Root}
                                        /\ view.roots = <<>>
               /\ view.single = None =>
                     \A n \in DOMAIN view.roots :
                         /\ view.roots[n] = Home(n) /\ Home(n) \in given
                         /\ n \in CameraNames(c)
<1> DEFINE view == Build(c)[login].view
           given == Granted(c, login)[Access(op)]
<1>1. CASE login \in ViewerNames(c)
  <2>1. PICK v \in c.viewer : v.name = login BY <1>1 DEF ViewerNames
  <2>2. Build(c)[login] = Viewer(c, v) BY <2>1, ValidBuild
  <2>3. view = ExpandScope(c, v.scope) /\ Build(c)[login].kind = "viewer" BY <2>2 DEF Viewer
  <2>4. op \in {"get", "list", "metadata", "cwd"} BY <2>3 DEF CapabilityAllowed
  <2>5. Access(op) \in {"get", "look"} BY <2>4 DEF Access
  <2>6. Named(c, v.scope) \subseteq given BY <2>1, <2>5 DEF Granted
  <2>7. CASE v.scope = All
    <3>1. view.single = Root /\ view.roots = <<>> BY <2>3, <2>7 DEF ExpandScope, Single
    <3>2. Root # None BY ScopedAccessAssumption
    <3>3. Root \in given BY <2>6, <2>7 DEF Named
    <3> QED BY <3>1, <3>2, <3>3
  <2>8. CASE v.scope # All
    <3> DEFINE names == UNION {IF i \in DOMAIN c.group THEN c.group[i] ELSE {i} : i \in v.scope}
    <3>1. view = Multi([n \in names |-> Home(n)]) BY <2>3, <2>8 DEF ExpandScope
    <3>2. view.single = None /\ view.roots = [n \in names |-> Home(n)] BY <3>1 DEF Multi
    <3>3. v.scope \subseteq CameraNames(c) \cup DOMAIN c.group BY <2>8 DEF Validate
    <3>4. \A g \in DOMAIN c.group : c.group[g] \subseteq CameraNames(c) BY DEF Validate
    <3>5. ASSUME NEW n \in names PROVE Home(n) \in given /\ n \in CameraNames(c)
      <4>1. PICK i \in v.scope : n \in (IF i \in DOMAIN c.group THEN c.group[i] ELSE {i})
        BY <3>5
      <4>2. n \in (v.scope \cap CameraNames(c))
                     \cup UNION {c.group[g] : g \in v.scope \cap DOMAIN c.group}
        BY <3>3, <4>1
      <4>3. Home(n) \in Named(c, v.scope) BY <2>8, <4>2 DEF Named
      <4> QED BY <2>6, <3>3, <3>4, <4>1, <4>3
    <3>6. ASSUME NEW n \in DOMAIN view.roots
          PROVE  view.roots[n] = Home(n) /\ Home(n) \in given /\ n \in CameraNames(c)
      <4> HIDE DEF names, view, given
      <4>1. n \in names BY <3>2
      <4>2. view.roots[n] = Home(n) BY <3>2, <4>1
      <4> QED BY <3>5, <4>1, <4>2
    <3> QED BY <3>2, <3>6
  <2> QED BY <2>7, <2>8
<1>2. CASE login \notin ViewerNames(c)
  <2>1. login \in CameraLogins(c) BY <1>2 DEF Build
  <2>2. PICK cam \in c.camera : CameraLogin(cam) = login BY <2>1 DEF CameraLogins
  <2>3. Build(c)[login] = Uploader(cam) BY <2>2, ValidBuild
  <2>4. view.single = Home(cam.name) /\ view.roots = <<>> /\ Build(c)[login].kind = "uploader"
    BY <2>3 DEF Uploader, Single
  <2>5. op \in {"put", "mkd", "list", "metadata", "cwd"} BY <2>4 DEF CapabilityAllowed
  <2>6. Access(op) \in {"put", "mkd", "look"} BY <2>5 DEF Access
  <2>7. Home(cam.name) \in given BY <2>2, <2>6 DEF Granted
  <2>8. Home(cam.name) \in Homes(c) BY DEF Homes
  <2>9. Home(cam.name) # None BY <2>8, HomesNamed, ScopedAccessAssumption
  <2> QED BY <2>4, <2>7, <2>8, <2>9
<1> QED BY <1>1, <1>2

(* A path without its first name. *)
LEMMA TailPlain ==
    ASSUME NEW p \in Path, p # <<>>
    PROVE  Tail(p) \in Path /\ (Plain(p) => Plain(Tail(p)))
<1>1. /\ Tail(p) \in Path /\ Len(Tail(p)) = Len(p) - 1
      /\ \A n \in 1..Len(Tail(p)) : Tail(p)[n] = p[n + 1]
  BY HeadTailProperties DEF Path
<1>2. /\ \A n \in 1..(Len(p) - 1) : Tail(p)[n] = p[n + 1] BY <1>1
<1>3. /\ DOMAIN Tail(p) = 1..(Len(p) - 1) /\ DOMAIN p = 1..Len(p) /\ Len(p) \in Nat
  BY <1>1, PathType
<1>4. \A n \in DOMAIN Tail(p) : n + 1 \in DOMAIN p /\ Tail(p)[n] = p[n + 1] BY <1>2, <1>3
<1> QED BY <1>1, <1>4 DEF Plain

(* What contained lets through is below its base, with no link on the way, *)
(* unless it leads nowhere through a link that does.                       *)
LEMMA ContainedBelow ==
    ASSUME TreeOK, NEW base \in Path, LinkFree(base), Plain(base),
           NEW tail \in Path, Plain(tail), Contained(base, base \o tail).verdict = "ok"
    PROVE  LET place == Contained(base, base \o tail).path
           IN  /\ place = Place(base \o tail) /\ Canonical(base) = base
               /\ place \in Path /\ Plain(place) /\ IsPrefix(base, place)
               /\ LinksLead \/ Canonical(place) # None => LinkFree(place)
               /\ Canonical(place) # None => Canonical(base \o tail) = place
<1> DEFINE p == base \o tail
<1>1. Canonical(base) = base BY FreePlace DEF Contained, Refused
<1>2. IsPrefix(base, Place(p)) /\ Contained(base, p).path = Place(p)
  <2>1. "traversal" # "ok" OBVIOUS
  <2> QED BY <1>1, <2>1, ScopedAccessAssumption DEF Contained, Refused, Resolved
<1>3. /\ p \in Path /\ Len(p) = Len(base) + Len(tail)
      /\ \A n \in 1..Len(base) : p[n] = base[n]
      /\ \A n \in 1..Len(tail) : p[Len(base) + n] = tail[n]
  BY JoinPath
<1> HIDE DEF p
<1>4. Plain(p)
  <2>1. /\ Len(base) \in Nat /\ DOMAIN base = 1..Len(base)
        /\ Len(tail) \in Nat /\ DOMAIN tail = 1..Len(tail)
    BY PathType
  <2> SUFFICES ASSUME NEW n \in DOMAIN p PROVE p[n] \notin {".", ".."} BY DEF Plain
  <2>2. n \in 1..(Len(base) + Len(tail)) BY <1>3, PathType
  <2>3. CASE n \in 1..Len(base) BY <1>3, <2>1, <2>3 DEF Plain
  <2>4. CASE n \notin 1..Len(base)
    <3>1. n - Len(base) \in 1..Len(tail) /\ Len(base) + (n - Len(base)) = n BY <2>1, <2>2, <2>4
    <3>2. p[n] = tail[n - Len(base)] BY <1>3, <3>1
    <3> QED BY <2>1, <3>1, <3>2 DEF Plain
  <2> QED BY <2>3, <2>4
<1>5. /\ Place(p) \in Path /\ Plain(Place(p))
      /\ LinksLead \/ Canonical(p) # None => LinkFree(Place(p))
      /\ Canonical(p) = Place(p) \/ Canonical(Place(p)) = None
  BY <1>3, <1>4, PlaceIsFree
<1>6. Place(p) # None BY <1>5, ScopedAccessAssumption
<1> QED BY <1>1, <1>2, <1>5, <1>6 DEF p

(* What resolve answers: a place below a base of the account, and how      *)
(* links may stand on the way.                                             *)
LEMMA ResolveBelow ==
    ASSUME TreeOK, HomesFree, NEW c \in File, Validate(c), NEW login \in DOMAIN Build(c),
           NEW op \in Op, CapabilityAllowed(Build(c)[login].kind, op), NEW virtual \in VirtualPath,
           Resolve(Build(c)[login].view, virtual).verdict = "ok"
    PROVE  LET place == Resolve(Build(c)[login].view, virtual).path
           IN  /\ place \in Path /\ Plain(place)
               /\ LinksLead \/ Canonical(place) # None => LinkFree(place)
               /\ \E base \in Granted(c, login)[Access(op)] : IsPrefix(base, place)
<1> DEFINE view == Build(c)[login].view
           parts == Normalize(virtual)
           r == Resolve(view, virtual)
           Below(base) == /\ r.path \in Path /\ Plain(r.path) /\ IsPrefix(base, r.path)
                          /\ LinksLead \/ Canonical(r.path) # None => LinkFree(r.path)
<1>1. virtual \in Path BY ScopedAccessAssumption
<1>2. ~Escapes(virtual) BY DEF Resolve, Refused
<1>3. parts \in Path /\ Plain(parts) BY <1>1, <1>2, NormalizeType, NormalizePlain
<1>4. CASE view.single # None
  <2>1. view.single \in Homes(c) \cup {Root} /\ view.single \in Granted(c, login)[Access(op)]
    BY <1>4, ViewInGrant
  <2>2. r = Contained(view.single, view.single \o parts) BY <1>2, <1>4 DEF Resolve
  <2>3. view.single \in Path /\ Plain(view.single) /\ LinkFree(view.single)
    BY <2>1, HomesNamed DEF HomesFree
  <2> HIDE DEF view, parts
  <2>4. Below(view.single) BY <1>3, <2>2, <2>3, ContainedBelow DEF view
  <2> QED BY <2>1, <2>4 DEF view
<1>5. CASE view.single = None
  <2>1. /\ parts # <<>> /\ parts[1] \in DOMAIN view.roots
        /\ r = Contained(view.roots[parts[1]], view.roots[parts[1]] \o Tail(parts))
    BY <1>2, <1>5 DEF Resolve, Refused
  <2> DEFINE base == view.roots[parts[1]]
  <2>2. /\ base = Home(parts[1]) /\ base \in Granted(c, login)[Access(op)]
        /\ parts[1] \in CameraNames(c)
    BY <1>5, <2>1, ViewInGrant
  <2>3. base \in Homes(c) BY <2>2 DEF Homes, CameraNames
  <2>4. base \in Path /\ Plain(base) /\ LinkFree(base) BY <2>3, HomesNamed DEF HomesFree
  <2>5. Tail(parts) \in Path /\ Plain(Tail(parts)) BY <1>3, <2>1, TailPlain
  <2> HIDE DEF view, parts, base
  <2>6. r = Contained(base, base \o Tail(parts)) BY <2>1 DEF base
  <2>7. Below(base) BY <2>4, <2>5, <2>6, ContainedBelow DEF view
  <2> QED BY <2>2, <2>7 DEF view
<1> QED BY <1>4, <1>5

(* A prefix stays one when a name is added behind. *)
LEMMA PrefixGrows ==
    ASSUME NEW p \in Path, NEW q \in Path, NEW x \in Name, IsPrefix(p, q)
    PROVE  IsPrefix(p, Append(q, x))
<1>1. Len(p) \in Nat /\ Len(q) \in Nat BY PathType
<1>2. Len(p) <= Len(q) /\ \A n \in 1..Len(p) : p[n] = q[n] BY PrefixByName
<1>3. /\ Append(q, x) \in Path /\ Len(Append(q, x)) = Len(q) + 1
      /\ \A n \in 1..Len(q) : Append(q, x)[n] = q[n]
  BY AppendType
<1>4. Len(p) <= Len(Append(q, x)) /\ \A n \in 1..Len(p) : p[n] = Append(q, x)[n]
  BY <1>1, <1>2, <1>3
<1> QED BY <1>3, <1>4, PrefixByName

-----------------------------------------------------------------------------
(* What the links are not: see LinkAssumption.  Links only go away. *)
LinksNamed ==
    \A l \in links :
        /\ Last(l.at) \notin Staged
        /\ \A c \in File : \A h \in Homes(c) :
              /\ ~IsPrefix(l.to, h)
              /\ \A q \in Probe : ~IsPrefix(l.at, h \o <<Quarantine, q>>)

(* One more name on an ordinary path. *)
LEMMA PlainAppend ==
    ASSUME NEW d \in Path, Plain(d), NEW x \in Name \ {".", ".."}
    PROVE  Append(d, x) \in Path /\ Plain(Append(d, x))
<1> DEFINE w == Append(d, x)
<1>1. /\ w \in Path /\ Len(w) = Len(d) + 1 /\ w[Len(d) + 1] = x
      /\ \A n \in 1..Len(d) : w[n] = d[n]
  BY AppendType
<1>2. Len(d) \in Nat /\ DOMAIN d = 1..Len(d) BY PathType
<1> HIDE DEF w
<1>3. ASSUME NEW n \in DOMAIN w PROVE w[n] \notin {".", ".."}
  <2>1. n \in 1..(Len(d) + 1) BY <1>1, PathType
  <2>2. CASE n \in 1..Len(d) BY <1>1, <1>2, <2>2 DEF Plain
  <2>3. CASE n = Len(d) + 1 BY <1>1, <2>3
  <2> QED BY <1>2, <2>1, <2>2, <2>3
<1> QED BY <1>1, <1>3 DEF Plain, w

(* A prefix of a path without links has none. *)
LEMMA PrefixFree ==
    ASSUME LinksTyped, NEW p \in Path, NEW q \in Path, IsPrefix(p, q), LinkFree(q)
    PROVE  LinkFree(p)
<1> SUFFICES ASSUME NEW l \in links, IsPrefix(l.at, p) PROVE FALSE BY DEF LinkFree
<1>1. l.at \in Path /\ Len(l.at) \in Nat /\ Len(p) \in Nat /\ Len(q) \in Nat BY PathType DEF LinksTyped
<1>2. Len(l.at) <= Len(p) /\ \A n \in 1..Len(l.at) : l.at[n] = p[n] BY <1>1, PrefixByName
<1>3. Len(p) <= Len(q) /\ \A n \in 1..Len(p) : p[n] = q[n] BY PrefixByName
<1>4. Len(l.at) <= Len(q) /\ \A n \in 1..Len(l.at) : l.at[n] = q[n] BY <1>1, <1>2, <1>3
<1>5. IsPrefix(l.at, q) BY <1>1, <1>4, PrefixByName
<1> QED BY <1>5 DEF LinkFree

(* The directory of a path that is longer than one of its prefixes. *)
LEMMA FrontBelow ==
    ASSUME LinksTyped, NEW base \in Path, NEW p \in Path, IsPrefix(base, p), base # p
    PROVE  /\ Front(p) \in Path /\ IsPrefix(base, Front(p)) /\ Last(p) \in Name
           /\ Plain(p) => Plain(Front(p))
           /\ LinkFree(p) => LinkFree(Front(p))
<1>1. Len(base) \in Nat /\ Len(p) \in Nat /\ DOMAIN p = 1..Len(p) BY PathType
<1>2. Len(base) <= Len(p) /\ \A n \in 1..Len(base) : base[n] = p[n] BY PrefixByName
<1>3. Len(base) # Len(p) BY <1>2, SamePath
<1>4. Len(p) - 1 \in 0..Len(p) /\ Len(p) \in 1..Len(p) /\ Len(base) <= Len(p) - 1
  BY <1>1, <1>2, <1>3
<1> DEFINE f == SubSeq(p, 1, Len(p) - 1)
<1>5. Front(p) = f BY DEF Front
<1>6. f \in Path /\ Len(f) = Len(p) - 1 /\ \A n \in 1..(Len(p) - 1) : f[n] = p[n]
  BY <1>4, FirstPart
<1>7. IsPrefix(f, p) BY <1>4, PartIsPrefix
<1> HIDE DEF f
<1>8. IsPrefix(base, f)
  <2>1. Len(base) <= Len(f) /\ \A n \in 1..Len(base) : base[n] = f[n]
    BY <1>1, <1>2, <1>4, <1>6
  <2> QED BY <1>6, <2>1, PrefixByName
<1>9. Plain(p) => Plain(f)
  <2>1. DOMAIN f = 1..(Len(p) - 1) BY <1>6, PathType
  <2> QED BY <1>1, <1>6, <2>1 DEF Plain
<1>10. LinkFree(p) => LinkFree(f) BY <1>6, <1>7, PrefixFree
<1>11. Last(p) \in Name BY <1>4, PathType DEF Last
<1> QED BY <1>5, <1>6, <1>8, <1>9, <1>10, <1>11

(* The quarantine of a home, and a test upload in it. *)
LEMMA QuarantineFree ==
    ASSUME TreeOK, LinksNamed, NEW c \in File, NEW h \in Homes(c), NEW q \in Probe
    PROVE  LET d == Append(h, Quarantine)
           IN  /\ d \in Path /\ Plain(d) /\ LinkFree(d) /\ IsPrefix(h, d)
               /\ \A l \in links : l.at # Append(d, q)
<1> DEFINE d == Append(h, Quarantine)
           e == Append(d, q)
<1>1. h \in Path /\ Plain(h) BY HomesNamed
<1>2. /\ Quarantine \in Name \ {".", ".."} /\ q \in Name \ {".", ".."} BY NameAssumption
<1>3. d \in Path /\ Plain(d) BY <1>1, <1>2, PlainAppend
<1>4. e \in Path BY <1>2, <1>3, AppendType
<1>5. e = h \o <<Quarantine, q>>
  <2>1. h \in Seq(Name) BY <1>1 DEF Path
  <2>2. ASSUME NEW N, NEW a \in Seq(N), NEW x \in N, NEW y \in N
        PROVE  Append(Append(a, x), y) = a \o <<x, y>>
    OBVIOUS
  <2> QED BY <1>2, <2>1, <2>2
<1>6. \A l \in links : ~IsPrefix(l.at, e) BY <1>5 DEF LinksNamed
<1> HIDE DEF e
<1>7. LinkFree(e) BY <1>6 DEF LinkFree
<1>8. IsPrefix(d, e) /\ IsPrefix(h, d)
  <2>1. IsPrefix(d, d) /\ IsPrefix(h, h) BY <1>1, <1>3, PrefixByName, PathType
  <2> QED BY <1>1, <1>2, <1>3, <2>1, PrefixGrows DEF e
<1>9. LinkFree(d) BY <1>3, <1>4, <1>7, <1>8, PrefixFree DEF TreeOK
<1>10. \A l \in links : l.at # e
  <2>1. IsPrefix(e, e) BY <1>4, PrefixByName, PathType
  <2> QED BY <1>6, <2>1
<1> QED BY <1>3, <1>8, <1>9, <1>10 DEF e

(* A name behind a home leads past it: what is walked from there on is no  *)
(* prefix of the home, because no link leads to one.                       *)
LEMMA PastTheHome ==
    ASSUME TreeOK, LinksNamed, NEW c \in File, NEW h \in Homes(c), Canonical(h) = h,
           NEW tail \in Path, tail # <<>>
    PROVE  Place(h \o tail) # h
<1> DEFINE p == h \o tail
<1>1. h \in Path /\ LinksTyped /\ h # None BY HomesNamed, ScopedAccessAssumption DEF TreeOK
<1>2. /\ p \in Path /\ Len(p) = Len(h) + Len(tail)
      /\ \A n \in 1..Len(h) : p[n] = h[n]
      /\ \A n \in 1..Len(tail) : p[Len(h) + n] = tail[n]
  BY <1>1, JoinPath
<1> HIDE DEF p
<1>3. Len(h) \in Nat /\ Len(tail) \in Nat /\ Len(tail) # 0 /\ Len(p) \in Nat
  <2>1. Len(h) \in Nat /\ Len(tail) \in Nat /\ Len(p) \in Nat BY <1>1, <1>2, PathType
  <2>2. Len(tail) = 0 => tail = <<>> BY DEF Path
  <2> QED BY <2>1, <2>2
<1>4. Len(h) \in 0..Len(p) /\ Len(h) <= Len(p) BY <1>2, <1>3
<1>5. Real(p)[Len(h)] = h
  <2>1. SubSeq(p, 1, Len(h)) = h BY <1>1, <1>2, <1>4, FirstPartIs
  <2> QED BY <1>1, <1>2, <1>4, <2>1, RealOfPrefix
<1> DEFINE S == {n \in Nat : /\ Len(h) + (n + 1) \in 0..Len(p)
                             /\ Real(p)[Len(h) + (n + 1)] # None
                             => ~IsPrefix(Real(p)[Len(h) + (n + 1)], h)}
<1>6. ASSUME NEW n \in 0..Len(p), n + 1 \in 0..Len(p), Real(p)[n + 1] # None,
             Real(p)[n] # None => Real(p)[n] = h \/ ~IsPrefix(Real(p)[n], h)
      PROVE  ~IsPrefix(Real(p)[n + 1], h)
  <2>1. n + 1 \in 1..Len(p) /\ (n + 1) - 1 = n BY <1>3, <1>6
  <2>2. \A i \in 1..Len(p) : Real(p)[i] = Walk(Real(p)[i - 1], p[i]) BY <1>1, <1>2, RealWalks
  <2>3. Real(p)[n + 1] = Walk(Real(p)[n], p[n + 1]) BY <2>1, <2>2
  <2> DEFINE d == Real(p)[n]
  <2>4. d # None /\ Real(p)[n + 1] = Enter(d, p[n + 1]) BY <1>6, <2>3 DEF Walk
  <2>5. d \in Path /\ p[n + 1] \in Name BY <1>2, <2>1, <2>4, RealIsFree, PathType
  <2> HIDE DEF d
  <2>6. d = h \/ ~IsPrefix(d, h) BY <1>6, <2>4 DEF d
  <2>7. CASE Real(p)[n + 1] = Append(d, p[n + 1])
    <3> DEFINE e == Append(d, p[n + 1])
    <3>1. e \in Path /\ Len(e) = Len(d) + 1 /\ \A i \in 1..Len(d) : e[i] = d[i]
      BY <2>5, AppendType
    <3> HIDE DEF e
    <3>2. Len(d) \in Nat BY <2>5, PathType
    <3> SUFFICES ASSUME IsPrefix(e, h) PROVE FALSE BY <2>7 DEF e
    <3>3. Len(e) <= Len(h) /\ \A i \in 1..Len(e) : e[i] = h[i] BY <1>1, <3>1, PrefixByName
    <3>4. Len(d) <= Len(h) /\ \A i \in 1..Len(d) : d[i] = h[i] BY <1>3, <3>1, <3>2, <3>3
    <3>5. IsPrefix(d, h) BY <1>1, <2>5, <3>4, PrefixByName
    <3>6. d # h BY <1>3, <3>1, <3>2, <3>3
    <3> QED BY <2>6, <3>5, <3>6
  <2>8. CASE \E l \in links : Real(p)[n + 1] = l.to BY <2>8 DEF LinksNamed
  <2> QED BY <1>6, <2>4, <2>5, <2>7, <2>8, EnterCases
<1>7. 0 \in S
  <2>1. Len(h) + (0 + 1) = Len(h) + 1 BY <1>3
  <2> QED BY <1>4, <1>5, <1>6, <2>1
<1>8. ASSUME NEW n \in Nat, n \in S PROVE n + 1 \in S
  <2> DEFINE m == Len(h) + (n + 1)
  <2> SUFFICES ASSUME Len(h) + ((n + 1) + 1) \in 0..Len(p), Real(p)[Len(h) + ((n + 1) + 1)] # None
               PROVE  ~IsPrefix(Real(p)[Len(h) + ((n + 1) + 1)], h)
    OBVIOUS
  <2>1. Len(h) + ((n + 1) + 1) = m + 1 /\ m \in 0..Len(p) BY <1>3
  <2>2. Real(p)[m] # None => ~IsPrefix(Real(p)[m], h) BY <1>8, <2>1
  <2> HIDE DEF m
  <2> QED BY <1>6, <2>1, <2>2
<1>9. Nat \subseteq S
  <2> HIDE DEF S
  <2> QED BY <1>7, <1>8, Induction
<1>10. PICK k \in 0..Len(p) :
         /\ Real(p)[k] # None
         /\ \A n \in 0..Len(p) : Real(p)[n] # None => n <= k
         /\ Place(p) = Real(p)[k] \o SubSeq(p, k + 1, Len(p))
  BY <1>2, PlaceSplits
<1> DEFINE r == Real(p)[k]
           t == SubSeq(p, k + 1, Len(p))
<1>11. k >= Len(h) /\ k \in Nat BY <1>1, <1>3, <1>4, <1>5, <1>10
<1>12. r \in Path /\ Len(r) \in Nat BY <1>2, <1>10, RealIsFree, PathType
<1>13. t \in Path /\ Len(t) = Len(p) - k
  <2>1. Len(p) \in 0..Len(p) /\ k <= Len(p) BY <1>3, <1>10
  <2> QED BY <1>2, <1>11, <2>1, SubPath
<1> HIDE DEF r, t
<1>14. r \o t \in Path /\ Len(r \o t) = Len(r) + Len(t) /\ \A n \in 1..Len(r) : (r \o t)[n] = r[n]
  BY <1>12, <1>13, JoinPath
<1>15. CASE k = Len(h)
  <2>1. r = h BY <1>5, <1>15 DEF r
  <2>2. Len(r \o t) # Len(h) BY <1>2, <1>3, <1>13, <1>14, <1>15, <2>1
  <2> QED BY <1>10, <2>2 DEF p, r, t
<1>16. CASE k # Len(h)
  <2>1. k - Len(h) - 1 \in Nat /\ Len(h) + ((k - Len(h) - 1) + 1) = k BY <1>3, <1>11, <1>16
  <2>2. ~IsPrefix(r, h) BY <1>9, <1>10, <2>1 DEF r
  <2>3. ASSUME r \o t = h PROVE FALSE
    <3>1. Len(r) <= Len(h) /\ \A n \in 1..Len(r) : r[n] = h[n]
      BY <1>3, <1>10, <1>12, <1>13, <1>14, <2>3
    <3> QED BY <1>1, <1>12, <2>2, <3>1, PrefixByName
  <2> QED BY <1>10, <2>3 DEF p, r, t
<1> QED BY <1>15, <1>16

(* The gate lets only cameras upload, and they have one base: their home.  *)
LEMMA UploaderView ==
    ASSUME NEW c \in File, Validate(c), NEW login \in DOMAIN Build(c),
           CapabilityAllowed(Build(c)[login].kind, "put")
    PROVE  LET h == Build(c)[login].view.single
           IN  h \in Homes(c) /\ h \in Granted(c, login)["put"] /\ h # None
<1>1. login \notin ViewerNames(c)
  <2> SUFFICES ASSUME NEW v \in c.viewer, v.name = login PROVE FALSE BY DEF ViewerNames
  <2>1. Build(c)[login] = Viewer(c, v) BY ValidBuild
  <2>2. Build(c)[login].kind = "viewer" BY <2>1 DEF Viewer
  <2> QED BY <2>2 DEF CapabilityAllowed
<1>2. login \in CameraLogins(c) BY <1>1 DEF Build
<1>3. PICK cam \in c.camera : CameraLogin(cam) = login BY <1>2 DEF CameraLogins
<1>4. Build(c)[login].view.single = Home(cam.name)
  <2>1. Build(c)[login] = Uploader(cam) BY <1>3, ValidBuild
  <2> QED BY <2>1 DEF Uploader, Single
<1>5. Home(cam.name) \in Homes(c) BY DEF Homes
<1>6. Home(cam.name) \in Granted(c, login)["put"] BY <1>3 DEF Granted
<1>7. Home(cam.name) # None BY <1>5, HomesNamed, ScopedAccessAssumption
<1> QED BY <1>4, <1>5, <1>6, <1>7

(* Where a clip goes: a directory at or below the home of its camera. *)
LEMMA UploadBelow ==
    ASSUME TreeOK, HomesFree, LinksNamed, NEW c \in File, Validate(c),
           NEW login \in DOMAIN Build(c), CapabilityAllowed(Build(c)[login].kind, "put"),
           NEW virtual \in VirtualPath, FileName(virtual) # None,
           Resolve(Build(c)[login].view, virtual).verdict = "ok"
    PROVE  LET place == Resolve(Build(c)[login].view, virtual).path
               h == Build(c)[login].view.single
           IN  /\ Front(place) \in Path /\ Plain(Front(place)) /\ Last(place) \in Name
               /\ LinksLead => LinkFree(Front(place))
               /\ h \in Granted(c, login)["put"] /\ h \in Path /\ IsPrefix(h, Front(place))
<1> DEFINE view == Build(c)[login].view
           h == view.single
           parts == Normalize(virtual)
           r == Resolve(view, virtual)
<1>1. h \in Homes(c) /\ h \in Granted(c, login)["put"] /\ h # None BY UploaderView
<1>2. virtual \in Path /\ ~Escapes(virtual) BY ScopedAccessAssumption DEF Resolve, Refused
<1>3. parts \in Path /\ Plain(parts) BY <1>2, NormalizeType, NormalizePlain
<1>4. parts # <<>> BY DEF FileName
<1>5. h \in Path /\ Plain(h) /\ LinkFree(h) BY <1>1, HomesNamed DEF HomesFree
<1>6. r = Contained(h, h \o parts) BY <1>1, <1>2 DEF Resolve
<1> HIDE DEF view, h, parts
<1>7. /\ r.path = Place(h \o parts) /\ Canonical(h) = h
      /\ r.path \in Path /\ Plain(r.path) /\ IsPrefix(h, r.path)
      /\ LinksLead => LinkFree(r.path)
  BY <1>3, <1>5, <1>6, ContainedBelow DEF view
<1>8. r.path # h BY <1>1, <1>3, <1>4, <1>7, PastTheHome
<1>9. /\ Front(r.path) \in Path /\ IsPrefix(h, Front(r.path)) /\ Last(r.path) \in Name
      /\ Plain(Front(r.path))
      /\ LinksLead => LinkFree(Front(r.path))
  BY <1>5, <1>7, <1>8, FrontBelow DEF TreeOK
<1> QED BY <1>1, <1>5, <1>9 DEF view, h

-----------------------------------------------------------------------------
(* The inductive invariant.  A session has the account and the grant of    *)
(* the same login of the same valid file, and a pending upload the names   *)
(* that put makes.  As long as no link has led nowhere, a pending request  *)
(* has a place below what was granted for it, with no link on the way.     *)
(* The tree only loses links, so what later becomes of it cannot lead the  *)
(* request away.                                                           *)
AccountOK(s) ==
    user[s] # None =>
        \E c \in File : \E login \in DOMAIN Build(c) :
            Validate(c) /\ user[s] = Build(c)[login] /\ grant[s] = Granted(c, login)

Quarantined(r) == \E c \in File : \E h \in Homes(c) : r.path = Append(h, Quarantine)
UploadTyped(r) ==
    /\ r.name \in Name \ {".", ".."} /\ r.opens \in Name \ {".", ".."}
    /\ r.opens \in Staged \/ (r.opens \in Probe /\ Quarantined(r))

RequestTyped(s) ==
    request[s] # None =>
        /\ user[s] # None
        /\ request[s].path \in Path /\ Plain(request[s].path)
        /\ request[s].access = "put" => UploadTyped(request[s])

SessionsOK ==
    /\ user = [s \in Session |-> user[s]]
    /\ grant = [s \in Session |-> grant[s]]
    /\ request = [s \in Session |-> request[s]]
    /\ \A s \in Session : AccountOK(s) /\ RequestTyped(s)

RequestOK(s) ==
    request[s] # None =>
        /\ LinkFree(request[s].path)
        /\ \E base \in grant[s][request[s].access] :
              base \in Path /\ IsPrefix(base, request[s].path)

Promise == ~dangled => LinksLead /\ \A s \in Session : RequestOK(s)

AccessInv ==
    /\ config \in File /\ ConfigValid
    /\ TreeOK /\ HomesFree /\ LinksNamed /\ SessionsOK /\ Promise

(* Links only go away, so a path without links stays one ... *)
LEMMA FreeStays ==
    ASSUME NEW p, LinkFree(p), links' \subseteq links
    PROVE  LinkFree(p)'
BY DEF LinkFree

(* ... and so do the homes, and what the links are not. *)
LEMMA HomesStayFree ==
    ASSUME HomesFree, LinksNamed, links' \subseteq links
    PROVE  HomesFree' /\ LinksNamed'
<1>1. HomesFree' BY FreeStays DEF HomesFree
<1>2. LinksNamed' BY DEF LinksNamed
<1> QED BY <1>1, <1>2

(* New directories and files that are not in the way of a link. *)
LEMMA TreeGrows ==
    ASSUME TreeOK, links' = links, NEW D, NEW F, dirs' = dirs \cup D, files' \subseteq files \cup F,
           \A n \in D \cup F : n \in Path /\ Plain(n) /\ \A l \in links : l.at # n
    PROVE  TreeOK'
<1>1. RootKept' /\ LinksTyped' /\ LinksApart' /\ LinksHeld'
  BY DEF TreeOK, RootKept, LinksTyped, LinksApart, LinksHeld
<1>2. LinkTargets' BY DEF TreeOK, LinkTargets, LinkFree
<1>3. NodesNamed' BY DEF TreeOK, NodesNamed
<1> QED BY <1>1, <1>2, <1>3 DEF TreeOK

(* A step that leaves the tree alone. *)
LEMMA TreeStays ==
    ASSUME TreeOK, UNCHANGED <<dirs, files, links>>
    PROVE  TreeOK'
BY DEF TreeOK, RootKept, LinksTyped, LinksApart, LinksHeld, LinkTargets, NodesNamed, LinkFree

(* The invariant holds at the start. *)
LEMMA InitInv == Init => AccessInv
<1> SUFFICES ASSUME Init PROVE AccessInv OBVIOUS
<1>1. config \in File /\ ConfigValid BY DEF Init, ConfigValid
<1>2. SessionsOK BY DEF Init, SessionsOK, AccountOK, RequestTyped
<1>3. links \in LinkSets /\ dirs = StartDirs \cup Homes(config) /\ files = StartFiles BY DEF Init
<1>4. HomesFree BY <1>3, ScopedAccessAssumption DEF HomesFree, LinkFree
<1>5. LinksTyped BY <1>3, ScopedAccessAssumption DEF LinksTyped
<1>6. LinkTargets BY <1>3, ScopedAccessAssumption DEF LinkTargets, LinkFree
<1>7. NodesNamed BY <1>1, <1>3, ScopedAccessAssumption, HomesNamed DEF NodesNamed
<1>8. LinksApart
  <2> SUFFICES ASSUME NEW l \in links, l.at \in dirs \cup files PROVE FALSE BY DEF LinksApart
  <2>1. l.at \in Homes(config) BY <1>3, ScopedAccessAssumption
  <2>2. ~IsPrefix(l.at, l.at) BY <1>1, <2>1, <1>4 DEF HomesFree, LinkFree
  <2>3. l.at \in Path BY <1>5 DEF LinksTyped
  <2> QED BY <2>2, <2>3, PrefixByName, PathType
<1>9. LinksHeld
  <2> SUFFICES ASSUME NEW l \in links, NEW n \in 0..(Len(l.at) - 1)
               PROVE  SubSeq(l.at, 1, n) \in dirs
    BY DEF LinksHeld
  <2>1. l.at \in Path /\ Len(l.at) \in Nat BY <1>5, PathType DEF LinksTyped
  <2>2. n \in 0..Len(l.at) /\ n # Len(l.at) BY <2>1
  <2>3. SubSeq(l.at, 1, n) # l.at BY <2>1, <2>2, FirstPart
  <2>4. SubSeq(l.at, 1, n) \in Ancestors(l.at) \ {l.at} BY <2>2, <2>3 DEF Ancestors
  <2>5. Ancestors(l.at) \ {l.at} \subseteq StartDirs \cup Homes(config)
    BY <1>1, <1>3, ScopedAccessAssumption
  <2> QED BY <1>3, <2>4, <2>5
<1>10. RootKept BY <1>3, ScopedAccessAssumption DEF RootKept
<1>11. LinksNamed BY <1>3, LinkAssumption DEF LinksNamed
<1>12. Promise BY DEF Init, Promise, RequestOK
<1> QED BY <1>1, <1>2, <1>4, <1>5, <1>6, <1>7, <1>8, <1>9, <1>10, <1>11, <1>12 DEF AccessInv, TreeOK

(* The ancestors of an ordinary path. *)
LEMMA AncestorsNamed ==
    ASSUME NEW p \in Path, Plain(p), NEW n \in Ancestors(p)
    PROVE  n \in Path /\ Plain(n)
<1>1. PICK k \in 0..Len(p) : n = SubSeq(p, 1, k) BY DEF Ancestors
<1>2. n \in Path /\ Len(n) = k /\ \A i \in 1..k : n[i] = p[i] BY <1>1, FirstPart
<1>3. DOMAIN n = 1..k /\ DOMAIN p = 1..Len(p) /\ Len(p) \in Nat BY <1>2, PathType
<1>4. Plain(n) BY <1>2, <1>3 DEF Plain
<1> QED BY <1>2, <1>4

(* A reload makes homes, and no link is in their way. *)
LEMMA ReloadInv ==
    ASSUME AccessInv, NEW c \in File, Reload(c)
    PROVE  AccessInv'
<1>1. links' = links /\ files' \subseteq files \cup {} /\ dirs' = dirs \cup Homes(c) BY DEF Reload
<1>2. ASSUME NEW h \in Homes(c) PROVE h \in Path /\ Plain(h) /\ \A l \in links : l.at # h
  <2>1. h \in Path /\ Plain(h) BY HomesNamed
  <2>2. LinkFree(h) BY DEF AccessInv, HomesFree
  <2>3. IsPrefix(h, h) BY <2>1, PrefixByName, PathType
  <2> QED BY <2>1, <2>2, <2>3 DEF LinkFree
<1>3. TreeOK' BY <1>1, <1>2, TreeGrows DEF AccessInv
<1>4. HomesFree' /\ LinksNamed' BY <1>1, HomesStayFree DEF AccessInv
<1>5. UNCHANGED <<user, grant, request, dangled>> BY DEF Reload
<1>6. SessionsOK' BY <1>5 DEF AccessInv, SessionsOK, AccountOK, RequestTyped
<1>7. Promise' BY <1>1, <1>5 DEF AccessInv, Promise, RequestOK, LinkFree, LinksLead
<1> QED BY <1>3, <1>4, <1>6, <1>7 DEF AccessInv, Reload, ConfigValid

(* A login finds no request pending, and takes its account from a valid    *)
(* file.                                                                   *)
LEMMA LoginInv ==
    ASSUME AccessInv, NEW s \in Session, NEW login \in DOMAIN Build(config), Login(s, login)
    PROVE  AccessInv'
<1>1. UNCHANGED <<config, dirs, files, links, request, dangled>> BY DEF Login, treeVars
<1>2. TreeOK' BY <1>1, TreeStays DEF AccessInv
<1>3. HomesFree' /\ LinksNamed' BY <1>1, HomesStayFree DEF AccessInv
<1>4. user' = [user EXCEPT ![s] = Build(config)[login]]
      /\ grant' = [grant EXCEPT ![s] = Granted(config, login)] /\ user[s] = None
  BY DEF Login
<1>5. request[s] = None BY <1>4 DEF AccessInv, SessionsOK, RequestTyped
<1>6. ASSUME NEW x \in Session, x # s PROVE user'[x] = user[x] /\ grant'[x] = grant[x]
  BY <1>4, <1>6 DEF AccessInv, SessionsOK
<1>7. SessionsOK'
  <2>1. AccountOK(s)'
    <3>1. user'[s] = Build(config)[login] /\ grant'[s] = Granted(config, login)
      BY <1>4 DEF AccessInv, SessionsOK
    <3> QED BY <3>1 DEF AccountOK, AccessInv, ConfigValid
  <2>2. RequestTyped(s)' BY <1>1, <1>5 DEF RequestTyped
  <2>3. ASSUME NEW x \in Session, x # s PROVE AccountOK(x)' /\ RequestTyped(x)'
    BY <1>1, <1>6, <2>3 DEF AccessInv, SessionsOK, AccountOK, RequestTyped
  <2>4. /\ user' = [x \in Session |-> user'[x]] /\ grant' = [x \in Session |-> grant'[x]]
        /\ request' = [x \in Session |-> request'[x]]
    BY <1>1, <1>4 DEF AccessInv, SessionsOK
  <2> QED BY <2>1, <2>2, <2>3, <2>4 DEF SessionsOK
<1>8. Promise'
  <2>1. ASSUME NEW x \in Session, RequestOK(x) PROVE RequestOK(x)'
    BY <1>1, <1>5, <1>6, <2>1 DEF RequestOK, LinkFree
  <2> QED BY <1>1, <2>1 DEF AccessInv, Promise, LinksLead
<1> QED BY <1>1, <1>2, <1>3, <1>7, <1>8 DEF AccessInv, ConfigValid

(* A logout drops the account and the request. *)
LEMMA LogoutInv ==
    ASSUME AccessInv, NEW s \in Session, Logout(s)
    PROVE  AccessInv'
<1>1. UNCHANGED <<config, dirs, files, links, dangled>> BY DEF Logout, treeVars
<1>2. TreeOK' BY <1>1, TreeStays DEF AccessInv
<1>3. HomesFree' /\ LinksNamed' BY <1>1, HomesStayFree DEF AccessInv
<1>4. SessionsOK' BY <1>1 DEF AccessInv, SessionsOK, AccountOK, RequestTyped, Logout
<1>5. Promise'
  <2>1. ASSUME NEW x \in Session, RequestOK(x) PROVE RequestOK(x)'
    BY <1>1, <2>1 DEF AccessInv, SessionsOK, RequestOK, LinkFree, Logout
  <2> QED BY <1>1, <2>1 DEF AccessInv, Promise, LinksLead
<1> QED BY <1>1, <1>2, <1>3, <1>4, <1>5 DEF AccessInv, ConfigValid

(* A request becomes pending that is as it should be. *)
LEMMA AsksInv ==
    ASSUME AccessInv, NEW s \in Session, NEW op, Asks(s, op), NEW r,
           request' = [request EXCEPT ![s] = r],
           r.path \in Path /\ Plain(r.path), r.access = "put" => UploadTyped(r),
           LinksLead => /\ LinkFree(r.path)
                        /\ \E base \in grant[s][r.access] : base \in Path /\ IsPrefix(base, r.path)
    PROVE  AccessInv'
<1>1. UNCHANGED <<config, dirs, files, links, user, grant, dangled>> /\ user[s] # None
  BY DEF Asks, treeVars
<1>2. TreeOK' BY <1>1, TreeStays DEF AccessInv
<1>3. HomesFree' /\ LinksNamed' BY <1>1, HomesStayFree DEF AccessInv
<1>4. request'[s] = r /\ \A x \in Session : x # s => request'[x] = request[x]
  BY DEF AccessInv, SessionsOK
<1>5. SessionsOK'
  <2>1. \A x \in Session : AccountOK(x)' BY <1>1 DEF AccessInv, SessionsOK, AccountOK
  <2>2. RequestTyped(s)' BY <1>1, <1>4 DEF RequestTyped
  <2>3. ASSUME NEW x \in Session, x # s PROVE RequestTyped(x)'
    BY <1>1, <1>4, <2>3 DEF AccessInv, SessionsOK, RequestTyped
  <2>4. request' = [x \in Session |-> request'[x]] BY DEF AccessInv, SessionsOK
  <2> QED BY <1>1, <2>1, <2>2, <2>3, <2>4 DEF AccessInv, SessionsOK
<1>6. Promise'
  <2>1. ASSUME NEW x \in Session, x # s, RequestOK(x) PROVE RequestOK(x)'
    BY <1>1, <1>4, <2>1 DEF RequestOK, LinkFree
  <2>2. LinksLead => RequestOK(s)' BY <1>1, <1>4 DEF RequestOK, LinkFree
  <2> QED BY <1>1, <2>1, <2>2 DEF AccessInv, Promise, LinksLead
<1> QED BY <1>1, <1>2, <1>3, <1>5, <1>6 DEF AccessInv, ConfigValid

(* The account behind a session. *)
LEMMA AccountOf ==
    ASSUME AccessInv, NEW s \in Session, user[s] # None
    PROVE  \E c \in File : \E login \in DOMAIN Build(c) :
              Validate(c) /\ user[s] = Build(c)[login] /\ grant[s] = Granted(c, login)
BY DEF AccessInv, SessionsOK, AccountOK

(* A base is a path. *)
LEMMA BaseNamed ==
    ASSUME NEW c \in File, Validate(c), NEW login, NEW access, access \in {"get", "look", "put", "mkd"},
           NEW base \in Granted(c, login)[access]
    PROVE  base \in Path
<1>1. ASSUME NEW cam \in c.camera PROVE Home(cam.name) \in Path
  <2>1. Home(cam.name) \in Homes(c) BY DEF Homes
  <2> QED BY <2>1, HomesNamed
<1>2. ASSUME NEW v \in c.viewer, NEW n \in Named(c, v.scope) PROVE n \in Path
  <2>1. CASE v.scope = All BY <1>2, <2>1, ScopedAccessAssumption DEF Named
  <2>2. CASE v.scope # All
    <3>1. PICK i \in (v.scope \cap CameraNames(c))
                       \cup UNION {c.group[g] : g \in v.scope \cap DOMAIN c.group} : n = Home(i)
      BY <1>2, <2>2 DEF Named
    <3>2. \A g \in DOMAIN c.group : c.group[g] \subseteq CameraNames(c) BY DEF Validate
    <3>3. i \in CameraNames(c) BY <3>1, <3>2
    <3>4. PICK cam \in c.camera : i = cam.name BY <3>3 DEF CameraNames
    <3> QED BY <1>1, <3>1, <3>4
  <2> QED BY <2>1, <2>2
<1> DEFINE own == {Home(cam.name) : cam \in {x \in c.camera : CameraLogin(x) = login}}
           seen == UNION {Named(c, v.scope) : v \in {x \in c.viewer : x.name = login}}
<1>3. base \in own \cup seen BY DEF Granted
<1>4. \A n \in own : n \in Path BY <1>1
<1>5. \A n \in seen : n \in Path BY <1>2
<1> QED BY <1>3, <1>4, <1>5

(* A request is pending with a place below a base of its account. *)
LEMMA RequestInv ==
    ASSUME AccessInv, NEW s \in Session, NEW op \in Op \ {"put"}, NEW virtual \in VirtualPath,
           Request(s, op, virtual)
    PROVE  AccessInv'
<1> DEFINE p == Resolve(user[s].view, virtual).path
           r == [access |-> Access(op), path |-> p, name |-> None, opens |-> None]
<1>1. /\ Asks(s, op) /\ user[s] # None /\ CapabilityAllowed(user[s].kind, op)
      /\ Resolve(user[s].view, virtual).verdict = "ok"
      /\ request' = [request EXCEPT ![s] = r]
  BY DEF Request, Asks
<1>2. PICK c \in File : \E login \in DOMAIN Build(c) :
         Validate(c) /\ user[s] = Build(c)[login] /\ grant[s] = Granted(c, login)
  BY <1>1, AccountOf
<1>3. PICK login \in DOMAIN Build(c) :
         Validate(c) /\ user[s] = Build(c)[login] /\ grant[s] = Granted(c, login)
  BY <1>2
<1>4. Access(op) \in {"get", "look", "mkd"} BY DEF Access, Op
<1>5. /\ p \in Path /\ Plain(p)
      /\ LinksLead => LinkFree(p)
      /\ \E base \in grant[s][Access(op)] : IsPrefix(base, p)
  BY <1>1, <1>3, ResolveBelow DEF AccessInv
<1> HIDE DEF p
<1>6. \E base \in grant[s][Access(op)] : base \in Path /\ IsPrefix(base, p)
  BY <1>3, <1>4, <1>5, BaseNamed
<1>7. r.path = p /\ r.access = Access(op) /\ r.access # "put" BY <1>4
<1> HIDE DEF r
<1> QED BY <1>1, <1>5, <1>6, <1>7, AsksInv

(* A test upload is pending for the quarantine of the home. *)
LEMMA PutProbeInv ==
    ASSUME AccessInv, NEW s \in Session, NEW virtual \in VirtualPath, PutProbe(s, virtual)
    PROVE  AccessInv'
<1> DEFINE h == user[s].view.single
           q == FileName(virtual)
           r == [access |-> "put", path |-> Append(h, Quarantine), name |-> q, opens |-> q]
<1>1. /\ Asks(s, "put") /\ user[s] # None /\ CapabilityAllowed(user[s].kind, "put")
      /\ q \in Probe /\ request' = [request EXCEPT ![s] = r]
  BY DEF PutProbe, Asks, Pend
<1>2. PICK c \in File : \E login \in DOMAIN Build(c) :
         Validate(c) /\ user[s] = Build(c)[login] /\ grant[s] = Granted(c, login)
  BY <1>1, AccountOf
<1>3. PICK login \in DOMAIN Build(c) :
         Validate(c) /\ user[s] = Build(c)[login] /\ grant[s] = Granted(c, login)
  BY <1>2
<1>4. h \in Homes(c) /\ h \in grant[s]["put"] BY <1>1, <1>3, UploaderView
<1> HIDE DEF h, q
<1>5. h \in Path BY <1>4, HomesNamed
<1>6. /\ Append(h, Quarantine) \in Path /\ Plain(Append(h, Quarantine))
      /\ LinkFree(Append(h, Quarantine)) /\ IsPrefix(h, Append(h, Quarantine))
  BY <1>1, <1>4, QuarantineFree DEF AccessInv
<1>7. r.path = Append(h, Quarantine) /\ r.access = "put" /\ r.name = q /\ r.opens = q OBVIOUS
<1> HIDE DEF r
<1>8. UploadTyped(r) BY <1>1, <1>4, <1>7, NameAssumption DEF UploadTyped, Quarantined
<1> QED BY <1>1, <1>4, <1>5, <1>6, <1>7, <1>8, AsksInv

(* A clip is pending for a directory below the home. *)
LEMMA PutInv ==
    ASSUME AccessInv, NEW s \in Session, NEW virtual \in VirtualPath, Put(s, virtual)
    PROVE  AccessInv'
<1> DEFINE p == Resolve(user[s].view, virtual).path
           name == FinalName[Last(p)]
           h == user[s].view.single
           r == [access |-> "put", path |-> Front(p), name |-> name, opens |-> StagingName[name]]
<1>1. /\ Asks(s, "put") /\ user[s] # None /\ CapabilityAllowed(user[s].kind, "put")
      /\ FileName(virtual) # None /\ Resolve(user[s].view, virtual).verdict = "ok"
      /\ request' = [request EXCEPT ![s] = r]
  BY DEF Put, Asks, Pend
<1>2. PICK c \in File : \E login \in DOMAIN Build(c) :
         Validate(c) /\ user[s] = Build(c)[login] /\ grant[s] = Granted(c, login)
  BY <1>1, AccountOf
<1>3. PICK login \in DOMAIN Build(c) :
         Validate(c) /\ user[s] = Build(c)[login] /\ grant[s] = Granted(c, login)
  BY <1>2
<1>4. /\ Front(p) \in Path /\ Plain(Front(p)) /\ Last(p) \in Name
      /\ LinksLead => LinkFree(Front(p))
      /\ h \in grant[s]["put"] /\ h \in Path /\ IsPrefix(h, Front(p))
  BY <1>1, <1>3, UploadBelow DEF AccessInv
<1> HIDE DEF p, h
<1>5. name \in Name \ {".", ".."} BY <1>4, NameAssumption
<1> HIDE DEF name
<1>6. StagingName[name] \in Staged /\ Staged \subseteq Name \ {".", ".."} BY <1>5, NameAssumption
<1>7. r.path = Front(p) /\ r.access = "put" /\ r.name = name /\ r.opens = StagingName[name] OBVIOUS
<1> HIDE DEF r
<1>8. UploadTyped(r) BY <1>5, <1>6, <1>7 DEF UploadTyped
<1> QED BY <1>1, <1>4, <1>7, <1>8, AsksInv

(* The answer drops the request. *)
LEMMA AnswerSessions ==
    ASSUME SessionsOK, NEW s \in Session, Answer(s)
    PROVE  SessionsOK' /\ \A x \in Session : RequestOK(x) => RequestOK(x)'
<1>1. SessionsOK' BY DEF SessionsOK, AccountOK, RequestTyped, Answer
<1>2. ASSUME NEW x \in Session, RequestOK(x) PROVE RequestOK(x)'
  BY <1>2 DEF SessionsOK, RequestOK, LinkFree, Answer
<1> QED BY <1>1, <1>2

(* A request that makes things in nobody's way. *)
LEMMA GrowInv ==
    ASSUME AccessInv, NEW s \in Session, Answer(s),
           NEW D, NEW F, dirs' = dirs \cup D, files' \subseteq files \cup F,
           \A n \in D \cup F : n \in Path /\ Plain(n) /\ \A l \in links : l.at # n
    PROVE  AccessInv'
<1>1. UNCHANGED <<links, config, dangled>> BY DEF Answer
<1>2. TreeOK' BY <1>1, TreeGrows DEF AccessInv
<1>3. HomesFree' /\ LinksNamed' BY <1>1, HomesStayFree DEF AccessInv
<1>4. SessionsOK' /\ \A x \in Session : RequestOK(x) => RequestOK(x)'
  BY AnswerSessions DEF AccessInv
<1>5. Promise' BY <1>1, <1>4 DEF AccessInv, Promise, LinksLead
<1> QED BY <1>1, <1>2, <1>3, <1>4, <1>5 DEF AccessInv, ConfigValid

(* A request that makes nothing. *)
LEMMA IdleInv ==
    ASSUME AccessInv, NEW s \in Session, Answer(s), UNCHANGED <<dirs, files>>
    PROVE  AccessInv'
<1> DEFINE E == {}
<1>1. dirs' = dirs \cup E /\ files' \subseteq files \cup E OBVIOUS
<1>2. \A n \in E \cup E : n \in Path /\ Plain(n) /\ \A l \in links : l.at # n OBVIOUS
<1> HIDE DEF E
<1> QED BY <1>1, <1>2, GrowInv

(* The directories a write makes, unless it is blocked. *)
LEMMA MadeFree ==
    ASSUME TreeOK, NEW p \in Path, Plain(p), ~Blocked(Place(p)), NEW n \in Ancestors(Place(p))
    PROVE  n \in Path /\ Plain(n) /\ \A l \in links : l.at # n
<1>1. Place(p) \in Path /\ Plain(Place(p)) BY PlaceIsFree
<1>2. n \in Path /\ Plain(n) BY <1>1, AncestorsNamed
<1> QED BY <1>2 DEF Blocked

(* What put opens is no link, whatever has become of the tree. *)
LEMMA OpenedFree ==
    ASSUME TreeOK, LinksNamed, NEW r, r.path \in Path, UploadTyped(r), NEW l \in links
    PROVE  l.at # Append(Place(r.path), r.opens)
<1>1. Place(r.path) \in Path BY PlaceIsFree
<1>2. CASE r.opens \in Staged
  <2> DEFINE e == Append(Place(r.path), r.opens)
  <2>1. e \in Path /\ Len(e) = Len(Place(r.path)) + 1 /\ e[Len(Place(r.path)) + 1] = r.opens
    BY <1>1, AppendType DEF UploadTyped
  <2>2. Last(e) = r.opens BY <2>1 DEF Last
  <2> QED BY <1>2, <2>2 DEF LinksNamed
<1>3. CASE r.opens \in Probe /\ Quarantined(r)
  <2>1. PICK c \in File : \E h \in Homes(c) : r.path = Append(h, Quarantine)
    BY <1>3 DEF Quarantined
  <2>2. PICK h \in Homes(c) : r.path = Append(h, Quarantine) BY <2>1
  <2>3. LinkFree(r.path) /\ l.at # Append(r.path, r.opens) BY <1>3, <2>2, QuarantineFree
  <2>4. Place(r.path) = r.path BY <2>3, FreePlace
  <2> QED BY <2>3, <2>4
<1> QED BY <1>2, <1>3 DEF UploadTyped

(* The part of an operation behind its await. *)
LEMMA PerformInv ==
    ASSUME AccessInv, NEW s \in Session, Read(s) \/ MakeDir(s) \/ Store(s)
    PROVE  AccessInv'
<1>1. CASE Read(s)
  <2>1. UNCHANGED <<dirs, files>> /\ Answer(s) BY <1>1 DEF Read
  <2> QED BY <2>1, IdleInv
<1>2. CASE MakeDir(s)
  <2> DEFINE p == request[s].path
  <2>1. p \in Path /\ Plain(p) BY <1>2 DEF AccessInv, SessionsOK, RequestTyped, MakeDir
  <2>2. /\ Answer(s) /\ files' = files
        /\ dirs' = IF Blocked(Place(p)) THEN dirs ELSE dirs \cup Ancestors(Place(p))
    BY <1>2 DEF MakeDir
  <2> HIDE DEF p
  <2>3. CASE Blocked(Place(p))
    <3>1. dirs' = dirs BY <2>2, <2>3
    <3> QED BY <2>2, <3>1, IdleInv
  <2>4. CASE ~Blocked(Place(p))
    <3>1. \A n \in Ancestors(Place(p)) \cup {} : n \in Path /\ Plain(n) /\ \A l \in links : l.at # n
      BY <2>1, <2>4, MadeFree DEF AccessInv
    <3>2. dirs' = dirs \cup Ancestors(Place(p)) /\ files' \subseteq files \cup {} BY <2>2, <2>4
    <3> QED BY <2>2, <3>1, <3>2, GrowInv
  <2> QED BY <2>3, <2>4
<1>3. CASE Store(s)
  <2> DEFINE r == request[s]
             d == Place(r.path)
             opened == Append(d, r.opens)
             clip == Append(d, r.name)
  <2>1. r.path \in Path /\ Plain(r.path) /\ UploadTyped(r) /\ Answer(s)
    BY <1>3 DEF AccessInv, SessionsOK, RequestTyped, Store
  <2>2. \/ UNCHANGED <<dirs, files>>
        \/ /\ ~Blocked(d) /\ dirs' = dirs \cup Ancestors(d)
           /\ \/ files' \subseteq files \cup {opened}
              \/ clip \notin {l.at : l \in links} /\ files' \subseteq files \cup {clip}
    BY <1>3 DEF Store
  <2> HIDE DEF r
  <2>3. d \in Path /\ Plain(d) BY <2>1, PlaceIsFree DEF AccessInv
  <2>4. \A l \in links : l.at # opened BY <2>1, OpenedFree DEF AccessInv
  <2>5. opened \in Path /\ Plain(opened) /\ clip \in Path /\ Plain(clip)
    BY <2>1, <2>3, PlainAppend DEF UploadTyped
  <2>6. CASE UNCHANGED <<dirs, files>> BY <2>1, <2>6, IdleInv
  <2>7. ASSUME ~Blocked(d), dirs' = dirs \cup Ancestors(d), NEW f \in {opened, clip},
               \A l \in links : l.at # f, files' \subseteq files \cup {f}
        PROVE  AccessInv'
    <3>1. \A n \in Ancestors(d) : n \in Path /\ Plain(n) /\ \A l \in links : l.at # n
      BY <2>1, <2>7, MadeFree DEF AccessInv
    <3>2. f \in Path /\ Plain(f) BY <2>5, <2>7
    <3> HIDE DEF d, opened, clip
    <3>3. \A n \in Ancestors(d) \cup {f} : n \in Path /\ Plain(n) /\ \A l \in links : l.at # n
      BY <2>7, <3>1, <3>2
    <3> QED BY <2>1, <2>7, <3>3, GrowInv
  <2> HIDE DEF d, opened, clip
  <2>8. CASE ~Blocked(d) /\ dirs' = dirs \cup Ancestors(d) /\ files' \subseteq files \cup {opened}
    BY <2>4, <2>7, <2>8
  <2>9. CASE /\ ~Blocked(d) /\ dirs' = dirs \cup Ancestors(d)
             /\ clip \notin {l.at : l \in links} /\ files' \subseteq files \cup {clip}
    BY <2>7, <2>9
  <2> QED BY <2>2, <2>6, <2>8, <2>9
<1> QED BY <1>1, <1>2, <1>3

(* The sweep takes no directory that holds a link, nor the root. *)
LEMMA SweptInv ==
    ASSUME AccessInv, NEW n \in Entries, Swept(n)
    PROVE  AccessInv'
<1>1. /\ links' = {l \in links : l.at # n} /\ dirs' = dirs \ {n} /\ files' = files \ {n}
      /\ IsStrictPrefix(Root, n) /\ Children(n) = {}
      /\ UNCHANGED <<config, user, grant, request>>
      /\ dangled' = (dangled \/ ~LinksLead')
  BY DEF Swept
<1>2. links' \subseteq links BY <1>1
<1>3. TreeOK BY DEF AccessInv
<1>4. n \in Path BY <1>1, <1>3 DEF TreeOK, NodesNamed, LinksTyped, Entries
<1>5. RootKept'
  <2>1. n \notin Ancestors(Root)
    <3> SUFFICES ASSUME NEW k \in 0..Len(Root), n = SubSeq(Root, 1, k) PROVE FALSE BY DEF Ancestors
    <3>1. Root \in Path /\ Len(Root) \in Nat BY ScopedAccessAssumption, PathType
    <3>2. Len(n) = k /\ \A i \in 1..k : n[i] = Root[i] BY <3>1, FirstPart
    <3>3. Len(Root) <= Len(n) /\ Root # n BY <1>1, <1>4, <3>1, PrefixByName DEF IsStrictPrefix
    <3>4. k = Len(Root) BY <3>1, <3>2, <3>3
    <3> QED BY <1>4, <3>1, <3>2, <3>3, <3>4, SamePath
  <2> QED BY <1>1, <1>3, <2>1 DEF TreeOK, RootKept
<1>6. LinksTyped' BY <1>1, <1>3 DEF TreeOK, LinksTyped
<1>7. LinksApart' BY <1>1, <1>3 DEF TreeOK, LinksApart
<1>8. LinksHeld'
  <2> SUFFICES ASSUME NEW l \in links', NEW k \in 0..(Len(l.at) - 1)
               PROVE  SubSeq(l.at, 1, k) \in dirs'
    BY DEF LinksHeld
  <2>1. l \in links /\ l.at \in Path /\ Len(l.at) \in Nat BY <1>1, <1>3, PathType DEF TreeOK, LinksTyped
  <2>2. SubSeq(l.at, 1, k) \in dirs BY <1>3, <2>1 DEF TreeOK, LinksHeld
  <2>3. SubSeq(l.at, 1, k) # n
    <3> SUFFICES ASSUME SubSeq(l.at, 1, k) = n PROVE FALSE OBVIOUS
    <3> DEFINE m == SubSeq(l.at, 1, k + 1)
    <3>1. k \in 0..Len(l.at) /\ k + 1 \in 0..Len(l.at) /\ k + 1 \in 1..Len(l.at) BY <2>1
    <3>2. /\ Len(n) = k /\ \A i \in 1..k : n[i] = l.at[i]
          /\ m \in Path /\ Len(m) = k + 1 /\ \A i \in 1..(k + 1) : m[i] = l.at[i]
      BY <2>1, <3>1, FirstPart
    <3>3. m \in dirs \cup {x.at : x \in links}
      <4>1. CASE k + 1 = Len(l.at)
        <5>1. m = l.at BY <2>1, <3>2, <4>1, SamePath
        <5> QED BY <2>1, <5>1
      <4>2. CASE k + 1 # Len(l.at)
        <5>1. k + 1 \in 0..(Len(l.at) - 1) BY <2>1, <3>1, <4>2
        <5> QED BY <1>3, <2>1, <5>1 DEF TreeOK, LinksHeld
      <4> QED BY <4>1, <4>2
    <3> HIDE DEF m
    <3>4. k \in Nat /\ \A i \in 1..Len(n) : n[i] = m[i] BY <3>1, <3>2
    <3>5. IsPrefix(n, m) BY <1>4, <3>2, <3>4, PrefixByName
    <3>6. m \in Children(n) BY <3>2, <3>3, <3>5 DEF Children, Entries
    <3> QED BY <1>1, <3>6
  <2> QED BY <1>1, <2>2, <2>3
<1>9. LinkTargets' BY <1>1, <1>3 DEF TreeOK, LinkTargets, LinkFree
<1>10. NodesNamed' BY <1>1, <1>3 DEF TreeOK, NodesNamed
<1>11. HomesFree' /\ LinksNamed' BY <1>2, HomesStayFree DEF AccessInv
<1>12. SessionsOK' BY <1>1 DEF AccessInv, SessionsOK, AccountOK, RequestTyped
<1>13. Promise'
  <2>1. ASSUME NEW x \in Session, RequestOK(x) PROVE RequestOK(x)'
    BY <1>1, <1>2, <2>1 DEF RequestOK, LinkFree
  <2> QED BY <1>1, <2>1 DEF AccessInv, Promise
<1>14. (config \in File /\ ConfigValid)' BY <1>1 DEF AccessInv, ConfigValid
<1> QED BY <1>5, <1>6, <1>7, <1>8, <1>9, <1>10, <1>11, <1>12, <1>13, <1>14 DEF AccessInv, TreeOK

(* The invariant holds throughout: reloads, logins, the uploads of others  *)
(* and the sweep in any order.                                             *)
THEOREM AccessInvariant == Spec => []AccessInv
<1>1. AccessInv /\ [Next]_vars => AccessInv'
  <2> SUFFICES ASSUME AccessInv, [Next]_vars PROVE AccessInv' OBVIOUS
  <2>1. ASSUME NEW c \in File, Reload(c) PROVE AccessInv' BY <2>1, ReloadInv
  <2>2. ASSUME NEW s \in Session, NEW login \in DOMAIN Build(config), Login(s, login)
        PROVE  AccessInv'
    BY <2>2, LoginInv
  <2>3. ASSUME NEW s \in Session, NEW virtual \in VirtualPath,
               \/ \E op \in Op \ {"put"} : Request(s, op, virtual)
               \/ PutProbe(s, virtual) \/ Put(s, virtual)
        PROVE  AccessInv'
    BY <2>3, RequestInv, PutProbeInv, PutInv
  <2>4. ASSUME NEW s \in Session, Read(s) \/ MakeDir(s) \/ Store(s) PROVE AccessInv'
    BY <2>4, PerformInv
  <2>5. ASSUME NEW s \in Session, Logout(s) PROVE AccessInv' BY <2>5, LogoutInv
  <2>6. ASSUME NEW n \in Entries, Swept(n) PROVE AccessInv' BY <2>6, SweptInv
  <2>7. CASE UNCHANGED vars
    <3>1. UNCHANGED <<config, dirs, files, links, user, grant, request, dangled>>
      BY <2>7 DEF vars, treeVars
    <3>2. TreeOK' BY <3>1, TreeStays DEF AccessInv
    <3>3. HomesFree' /\ LinksNamed' BY <3>1, HomesStayFree DEF AccessInv
    <3>4. SessionsOK' BY <3>1 DEF AccessInv, SessionsOK, AccountOK, RequestTyped
    <3>5. Promise' BY <3>1 DEF AccessInv, Promise, LinksLead, RequestOK, LinkFree
    <3> QED BY <3>1, <3>2, <3>3, <3>4, <3>5 DEF AccessInv, ConfigValid
  <2> QED BY <2>1, <2>2, <2>3, <2>4, <2>5, <2>6, <2>7 DEF Next
<1> QED BY <1>1, InitInv, PTL DEF Spec

(* For every config file and tree, and every set of links the assumptions  *)
(* allow: as long as no link has led nowhere, no operation leads to a      *)
(* place the config file did not give the account, although the tree may   *)
(* change between resolve and the file operation behind the await.         *)
THEOREM AccessStaysInScope == Spec => []AccessInScope
<1>1. AccessInv => AccessInScope
  <2> SUFFICES ASSUME AccessInv, ~dangled, NEW s \in Session, request[s] # None, NEW n \in LeadsTo(s)
               PROVE  \E base \in grant[s][request[s].access] : IsPrefix(base, n)
    BY DEF AccessInScope
  <2> DEFINE r == request[s]
  <2>1. /\ r.path \in Path /\ LinkFree(r.path)
        /\ r.access = "put" => r.name \in Name /\ r.opens \in Name
    BY DEF AccessInv, SessionsOK, RequestTyped, UploadTyped, Promise, RequestOK
  <2>2. PICK base \in grant[s][r.access] : base \in Path /\ IsPrefix(base, r.path)
    BY DEF AccessInv, Promise, RequestOK
  <2>3. Place(r.path) = r.path /\ Canonical(r.path) \in {r.path, None}
    BY <2>1, FreePlace DEF AccessInv
  <2> HIDE DEF r
  <2>4. CASE r.access = "put"
    <3>1. n \in {Append(r.path, r.opens), Append(r.path, r.name)} BY <2>3, <2>4 DEF LeadsTo, r
    <3>2. IsPrefix(base, Append(r.path, r.opens)) /\ IsPrefix(base, Append(r.path, r.name))
      BY <2>1, <2>2, <2>4, PrefixGrows
    <3> QED BY <2>2, <3>1, <3>2 DEF r
  <2>5. CASE r.access # "put"
    <3>1. n = r.path BY <2>3, <2>5 DEF LeadsTo, r
    <3> QED BY <2>2, <3>1 DEF r
  <2> QED BY <2>4, <2>5
<1> QED BY <1>1, AccessInvariant, PTL
-----------------------------------------------------------------------------
(* A name behind a joined path. *)
LEMMA JoinAppend ==
    ASSUME NEW p \in Path, NEW q \in Path, NEW x \in Name
    PROVE  p \o Append(q, x) = Append(p \o q, x)
<1> DEFINE a == p \o Append(q, x)
           b == Append(p \o q, x)
<1>1. Len(p) \in Nat /\ Len(q) \in Nat BY PathType
<1>2. /\ Append(q, x) \in Path /\ Len(Append(q, x)) = Len(q) + 1
      /\ Append(q, x)[Len(q) + 1] = x /\ \A n \in 1..Len(q) : Append(q, x)[n] = q[n]
  BY AppendType
<1>3. /\ a \in Path /\ Len(a) = Len(p) + (Len(q) + 1)
      /\ \A n \in 1..Len(p) : a[n] = p[n]
      /\ \A n \in 1..(Len(q) + 1) : a[Len(p) + n] = Append(q, x)[n]
  BY <1>2, JoinPath
<1>4. /\ p \o q \in Path /\ Len(p \o q) = Len(p) + Len(q)
      /\ \A n \in 1..Len(p) : (p \o q)[n] = p[n]
      /\ \A n \in 1..Len(q) : (p \o q)[Len(p) + n] = q[n]
  BY JoinPath
<1>5. /\ b \in Path /\ Len(b) = (Len(p) + Len(q)) + 1 /\ b[(Len(p) + Len(q)) + 1] = x
      /\ \A n \in 1..(Len(p) + Len(q)) : b[n] = (p \o q)[n]
  BY <1>4, AppendType
<1> HIDE DEF a, b
<1>6. ASSUME NEW n \in 1..Len(a) PROVE a[n] = b[n]
  <2>1. CASE n \in 1..Len(p) BY <1>1, <1>3, <1>4, <1>5, <2>1
  <2>2. CASE n \notin 1..Len(p) /\ n <= Len(p) + Len(q)
    <3>1. n - Len(p) \in 1..Len(q) /\ n - Len(p) \in 1..(Len(q) + 1) /\ Len(p) + (n - Len(p)) = n
      BY <1>1, <1>3, <2>2
    <3>2. a[n] = q[n - Len(p)] BY <1>2, <1>3, <3>1
    <3>3. (p \o q)[n] = q[n - Len(p)] BY <1>4, <3>1
    <3>4. n \in 1..(Len(p) + Len(q)) BY <1>1, <2>2
    <3> QED BY <1>5, <3>2, <3>3, <3>4
  <2>3. CASE n = Len(p) + (Len(q) + 1)
    <3>1. Len(q) + 1 \in 1..(Len(q) + 1) BY <1>1
    <3>2. a[n] = x BY <1>2, <1>3, <2>3, <3>1
    <3> QED BY <1>1, <1>5, <2>3, <3>2
  <2>4. n \in Int /\ (n <= Len(p) + Len(q) \/ n = Len(p) + (Len(q) + 1))
    <3> DEFINE i == Len(p)
               j == Len(q)
    <3>1. i \in Nat /\ j \in Nat BY <1>1
    <3>2. n \in 1..(i + (j + 1)) BY <1>3
    <3> HIDE DEF i, j
    <3>3. n \in Int /\ (n <= i + j \/ n = i + (j + 1)) BY ONLY <3>1, <3>2
    <3> QED BY <3>3 DEF i, j
  <2> QED BY <2>1, <2>2, <2>3, <2>4
<1>7. a = b BY <1>1, <1>3, <1>5, <1>6, SamePath
<1> QED BY <1>7 DEF a, b

(* A child of the place that a path was resolved to resolves from there. *)
LEMMA ContainedChild ==
    ASSUME TreeOK, NEW base \in Path, LinkFree(base), Plain(base),
           NEW tail \in Path, Plain(tail), Contained(base, base \o tail).verdict = "ok",
           NEW place, place = Contained(base, base \o tail).path, Canonical(place) = place,
           NEW x \in Name, Append(place, x) \in dirs \cup files
    PROVE  Contained(base, base \o Append(tail, x)) = Resolved(Append(place, x))
<1> DEFINE p == base \o tail
<1>1. /\ place = Place(p) /\ Canonical(base) = base
      /\ place \in Path /\ IsPrefix(base, place)
      /\ Canonical(place) # None => Canonical(p) = place
  BY ContainedBelow
<1>2. p \in Path BY JoinPath
<1>3. base \o Append(tail, x) = Append(p, x) BY JoinAppend
<1> HIDE DEF p
<1>4. Canonical(p) = place BY <1>1, ScopedAccessAssumption
<1>5. Place(Append(p, x)) = Append(place, x) BY <1>1, <1>2, <1>4, EnterKnown
<1>6. IsPrefix(base, Append(place, x)) BY <1>1, PrefixGrows
<1>7. base # None BY ScopedAccessAssumption
<1> QED BY <1>1, <1>3, <1>5, <1>6, <1>7 DEF Contained

(* An entry of a directory is its name behind the directory. *)
LEMMA ChildNamed ==
    ASSUME TreeOK, NEW d \in Path, NEW n \in Children(d)
    PROVE  /\ Last(n) \in Name /\ n = Append(d, Last(n))
           /\ n \in dirs \cup files => Last(n) \notin {".", ".."}
<1>1. n \in Path BY DEF Children, Entries, TreeOK, NodesNamed, LinksTyped
<1>2. Len(n) = Len(d) + 1 /\ IsPrefix(d, n) BY DEF Children
<1>3. Len(d) \in Nat /\ DOMAIN n = 1..Len(n) BY <1>1, PathType
<1>4. Last(n) = n[Len(n)] /\ Len(n) \in 1..Len(n) BY <1>2, <1>3 DEF Last
<1>5. Last(n) \in Name BY <1>1, <1>4, PathType
<1>6. \A i \in 1..Len(d) : d[i] = n[i] BY <1>1, <1>2, PrefixByName
<1>7. n = Append(d, Last(n))
  <2> DEFINE m == Append(d, Last(n))
  <2>1. /\ m \in Path /\ Len(m) = Len(d) + 1 /\ m[Len(d) + 1] = Last(n)
        /\ \A i \in 1..Len(d) : m[i] = d[i]
    BY <1>5, AppendType
  <2> HIDE DEF m
  <2>2. \A i \in 1..Len(n) : n[i] = m[i] BY <1>2, <1>3, <1>4, <1>6, <2>1
  <2>3. n = m BY <1>1, <1>2, <2>1, <2>2, SamePath
  <2> QED BY <2>3 DEF m
<1>8. n \in dirs \cup files => Last(n) \notin {".", ".."}
  BY <1>3, <1>4 DEF TreeOK, NodesNamed, Plain
<1> QED BY <1>5, <1>7, <1>8

(* An ordinary name behind a virtual path does not make it escape. *)
LEMMA EscapesAppend ==
    ASSUME NEW v \in Path, ~Escapes(v), NEW x \in Name, x # ".."
    PROVE  ~Escapes(Append(v, x))
<1> DEFINE w == Append(v, x)
<1>1. Len(v) \in Nat /\ DOMAIN v = 1..Len(v) BY PathType
<1>2. /\ w \in Path /\ Len(w) = Len(v) + 1 /\ w[Len(v) + 1] = x
      /\ \A n \in 1..Len(v) : w[n] = v[n]
  BY AppendType
<1> HIDE DEF w
<1>3. ASSUME NEW k \in DOMAIN w PROVE w[k] # ".."
  <2>1. k \in 1..(Len(v) + 1) BY <1>2, PathType
  <2>2. CASE k \in 1..Len(v) BY <1>1, <1>2, <2>2 DEF Escapes
  <2>3. CASE k = Len(v) + 1 BY <1>2, <2>3
  <2> QED BY <1>1, <2>1, <2>2, <2>3
<1> QED BY <1>3 DEF Escapes, w

(* The camera names at the synthetic root. *)
LEMMA SyntheticEntry ==
    ASSUME TreeOK, HomesFree, NEW c \in File, NEW name \in CameraNames(c), NEW view,
           view.single = None, name \in DOMAIN view.roots, view.roots[name] = Home(name),
           NEW virtual \in Path, Normalize(virtual) = <<>>, Home(name) \in dirs
    PROVE  Resolve(view, Append(virtual, name)) = Resolved(Home(name))
<1> DEFINE h == Home(name)
           w == Append(virtual, name)
<1>1. name \in Name /\ name # "." /\ name # ".." BY ScopedAccessAssumption
<1>2. ~Escapes(w) BY <1>1, NormalizeEmpty, EscapesAppend
<1>3. Normalize(w) = Append(<<>>, name) BY <1>1, NormalizeAppend
<1>4. <<>> \in Seq(Name) OBVIOUS
<1>5. Append(<<>>, name) # <<>> /\ Append(<<>>, name)[1] = name OBVIOUS
<1>6. Tail(Append(<<>>, name)) = <<>> BY <1>4, HeadTailAppend
<1>7. h \in Homes(c) BY DEF Homes, CameraNames
<1>8. h \in Path /\ LinkFree(h) /\ h # None
  BY <1>7, HomesNamed, ScopedAccessAssumption DEF HomesFree
<1>9. h \o <<>> = h BY <1>8 DEF Path
<1>10. Resolve(view, w) = Contained(h, h) BY <1>2, <1>3, <1>5, <1>6, <1>9 DEF Resolve
<1>11. Canonical(h) = h
  <2>1. Root \in Path /\ Len(Root) \in Nat BY ScopedAccessAssumption, PathType
  <2>2. Len(h) = Len(Root) + 1 /\ \A n \in 1..Len(Root) : h[n] = Root[n]
    BY <1>1, <2>1, AppendType DEF Home
  <2> HIDE DEF h
  <2>3. ASSUME NEW j \in 1..Len(h) PROVE SubSeq(h, 1, j) \in dirs
    <3>1. CASE j = Len(h)
      <4>1. SubSeq(h, 1, Len(h)) = h BY <1>8, <2>1, <2>2, FirstPartIs
      <4> QED BY <3>1, <4>1 DEF h
    <3>2. CASE j # Len(h)
      <4> DEFINE a == SubSeq(Root, 1, j)
      <4>1. j \in 0..Len(Root) /\ j <= Len(h) BY <2>1, <2>2, <3>2
      <4>2. a \in Path /\ Len(a) = j /\ \A n \in 1..j : a[n] = Root[n] BY <2>1, <4>1, FirstPart
      <4>3. a \in dirs BY <4>1 DEF TreeOK, RootKept, Ancestors
      <4> HIDE DEF a
      <4>4. \A n \in 1..j : a[n] = h[n] BY <2>1, <2>2, <4>1, <4>2
      <4>5. SubSeq(h, 1, j) = a BY <1>8, <4>1, <4>2, <4>4, FirstPartIs
      <4> QED BY <4>3, <4>5
    <3> QED BY <3>1, <3>2
  <2> QED BY <1>8, <2>3, ThereLeadsItself
<1>12. Place(h) = h BY <1>8, FreePlace
<1>13. IsPrefix(h, h) BY <1>8, PrefixByName, PathType
<1> QED BY <1>8, <1>10, <1>11, <1>12, <1>13 DEF Contained

(* For every tree and every virtual path: a name that list shows, taken    *)
(* behind the path it was asked for, resolves to that entry.               *)
THEOREM ListingsCanBeFollowed == Spec => []ListingRoundTrip
<1>1. AccessInv => ListingRoundTrip
  <2> SUFFICES ASSUME AccessInv, NEW s \in Session, NEW virtual \in VirtualPath, user[s] # None,
                      CapabilityAllowed(user[s].kind, "list"), NEW name \in Listing(user[s], virtual)
               PROVE  LET r == Resolve(user[s].view, Append(virtual, name))
                      IN  IF AtSyntheticRoot(user[s], virtual)
                          THEN r = Resolved(Home(name)) \/ Home(name) \notin dirs
                          ELSE LET entry == Append(Resolve(user[s].view, virtual).path, name)
                               IN  r = Resolved(entry) \/ \E l \in links : l.at = entry
    BY DEF ListingRoundTrip
  <2> DEFINE view == user[s].view
             parts == Normalize(virtual)
             r0 == Resolve(view, virtual)
             P == r0.path
  <2>1. TreeOK /\ HomesFree /\ virtual \in Path /\ "list" \in Op
    BY ScopedAccessAssumption DEF AccessInv, Op
  <2>2. PICK c \in File : \E login \in DOMAIN Build(c) :
           Validate(c) /\ user[s] = Build(c)[login] /\ grant[s] = Granted(c, login)
    BY DEF AccessInv, SessionsOK, AccountOK
  <2>3. PICK login \in DOMAIN Build(c) : Validate(c) /\ user[s] = Build(c)[login]
    BY <2>2
  <2>4. /\ view.single # None => view.single \in Homes(c) \cup {Root} /\ view.roots = <<>>
        /\ view.single = None =>
              \A n \in DOMAIN view.roots : view.roots[n] = Home(n) /\ n \in CameraNames(c)
    BY <2>1, <2>3, ViewInGrant
  <2>5. CASE AtSyntheticRoot(user[s], virtual)
    <3>1. name \in DOMAIN view.roots /\ parts = <<>> BY <2>5 DEF Listing, AtSyntheticRoot
    <3>2. view.single = None
      <4>1. DOMAIN <<>> = {} OBVIOUS
      <4> QED BY <2>4, <3>1, <4>1
    <3>3. Home(name) \in dirs => Resolve(view, Append(virtual, name)) = Resolved(Home(name))
      BY <2>1, <2>4, <3>1, <3>2, SyntheticEntry
    <3> QED BY <2>5, <3>3
  <2>6. CASE ~AtSyntheticRoot(user[s], virtual)
    <3>1. /\ r0.verdict = "ok" /\ Canonical(P) \in dirs
          /\ \E n \in Children(Canonical(P)) : name = Last(n)
      BY <2>6 DEF Listing
    <3>0. Canonical(P) # None
      <4>1. None \notin dirs BY <2>1, ScopedAccessAssumption DEF TreeOK, NodesNamed
      <4> QED BY <3>1, <4>1
    <3>2. P \in Path /\ LinkFree(P) BY <2>1, <2>3, <3>0, <3>1, ResolveBelow
    <3>3. Canonical(P) = P BY <2>1, <3>0, <3>2, FreePlace
    <3>4. PICK n \in Children(P) : name = Last(n) BY <3>1, <3>3
    <3>5. /\ name \in Name /\ n = Append(P, name)
          /\ n \in dirs \cup files => name # "." /\ name # ".."
      BY <2>1, <3>2, <3>4, ChildNamed
    <3>6. CASE n \notin dirs \cup files
      <4>1. \E l \in links : l.at = n BY <3>4, <3>6 DEF Children, Entries
      <4> QED BY <2>6, <3>5, <4>1
    <3>7. CASE n \in dirs \cup files
      <4>1. ~Escapes(virtual) BY <3>1 DEF Resolve, Refused
      <4>2. parts \in Path /\ Plain(parts) BY <2>1, <4>1, NormalizeType, NormalizePlain
      <4>3. ~Escapes(Append(virtual, name)) BY <2>1, <3>5, <3>7, <4>1, EscapesAppend
      <4>4. Normalize(Append(virtual, name)) = Append(parts, name)
        BY <2>1, <3>5, <3>7, NormalizeAppend
      <4>5. CASE view.single # None
        <5> DEFINE base == view.single
        <5>1. base \in Path /\ Plain(base) /\ LinkFree(base)
          BY <2>1, <2>4, <4>5, HomesNamed DEF HomesFree
        <5>2. r0 = Contained(base, base \o parts) BY <4>1, <4>5 DEF Resolve
        <5>3. Resolve(view, Append(virtual, name)) = Contained(base, base \o Append(parts, name))
          BY <4>3, <4>4, <4>5 DEF Resolve
        <5> HIDE DEF base, parts
        <5>4. Contained(base, base \o Append(parts, name)) = Resolved(Append(P, name))
          BY <2>1, <3>1, <3>3, <3>5, <3>7, <4>2, <5>1, <5>2, ContainedChild
        <5> QED BY <2>6, <5>3, <5>4
      <4>6. CASE view.single = None
        <5> DEFINE base == view.roots[parts[1]]
                   tail == Tail(parts)
        <5>1. parts # <<>> /\ parts[1] \in DOMAIN view.roots /\ r0 = Contained(base, base \o tail)
          BY <3>1, <4>1, <4>6 DEF Resolve, Refused
        <5>2. base \in Homes(c) BY <2>4, <4>6, <5>1 DEF Homes, CameraNames
        <5>3. base \in Path /\ Plain(base) /\ LinkFree(base)
          BY <2>1, <5>2, HomesNamed DEF HomesFree
        <5>4. tail \in Path /\ Plain(tail) BY <4>2, <5>1, TailPlain
        <5>5. /\ Append(parts, name) # <<>> /\ Append(parts, name)[1] = parts[1]
              /\ Tail(Append(parts, name)) = Append(tail, name)
          <6> HIDE DEF parts
          <6>1. parts \in Seq(Name) BY <4>2 DEF Path
          <6>2. Tail(Append(parts, name)) = Append(Tail(parts), name)
            BY <5>1, <6>1, HeadTailAppend
          <6>3. /\ Len(Append(parts, name)) = Len(parts) + 1
                /\ \A i \in 1..Len(parts) : Append(parts, name)[i] = parts[i]
            BY <3>5, <4>2, AppendType
          <6>4. Len(parts) \in Nat /\ Len(parts) # 0 BY <5>1, <6>1
          <6>5. Len(<<>>) = 0 OBVIOUS
          <6>6. Append(parts, name) # <<>> BY <6>3, <6>4, <6>5
          <6> QED BY <6>2, <6>3, <6>4, <6>6
        <5>6. Resolve(view, Append(virtual, name)) = Contained(base, base \o Append(tail, name))
          BY <4>3, <4>4, <4>6, <5>1, <5>5 DEF Resolve
        <5> HIDE DEF base, tail
        <5>7. Contained(base, base \o Append(tail, name)) = Resolved(Append(P, name))
          BY <2>1, <3>1, <3>3, <3>5, <3>7, <5>1, <5>3, <5>4, ContainedChild
        <5> QED BY <2>6, <5>6, <5>7
      <4> QED BY <4>5, <4>6
    <3> QED BY <3>6, <3>7
  <2> QED BY <2>5, <2>6
<1> QED BY <1>1, AccessInvariant, PTL
=============================================================================
