-------------------------- MODULE ConfigFileProofs --------------------------
(***************************************************************************)
(* Theorems about the config file of Operations: accounts in force are the *)
(* ones that were asked for, and a reload keeps them, however many         *)
(* commands write to the file at once, and wherever they are cut off.      *)
(*                                                                         *)
(* The lines of the file do not say who wrote them.  Written says that     *)
(* they can be told apart: by[p] is the job that ended line p, at[p] which *)
(* line of its table that is, and req[j] what job j was asked for.  A line *)
(* that was cut and then left by a newline has at[p] = 0.                  *)
(***************************************************************************)
EXTENDS OperationsProofs, SequenceTheorems, FiniteSetTheorems, WellFoundedInduction

First == Len(FirstLines)

(* The table a job writes, and the lines a file is made of. *)
Table(j, r) == Render(r, HashPassword(r.password, j))
LinesOf(t) == {t[m] : m \in DOMAIN t}
Given == LinesOf(FirstLines) \cup {Torn, Unknown}
            \cup UNION {LinesOf(Table(j, r)) : j \in Job, r \in Request}
Text == Given \cup {Line("name", line.val) : line \in Given}

(* How a line of a table may read in the file: as it is, or not at all; or *)
(* when its job has lost a line, as one of no meaning, or as a name.       *)
Reads(line, source, lossy) ==
    \/ line \in {source, Torn}
    \/ /\ lossy
       /\ \/ line = Unknown /\ source.key \notin {"camera", "viewer"}
          \/ line = Line("name", source.val) /\ source.key = "username"

(* A file is what it was at the start and, behind it, lines of tables:     *)
(* those of one job in their order, and none of them without all that come *)
(* before it in its table.  The jobs in gone have lost a line.             *)
Added(lines) == (First + 1)..Len(lines)
Source(req, by, p) == Table(by[p], req[by[p]])
Ordered(lines, by, at) ==
    \A p, q \in Added(lines) :
        by[p] = by[q] /\ p < q /\ at[p] # 0 /\ at[q] # 0 => at[p] < at[q]
Complete(lines, by, at) ==
    \A p \in Added(lines) : \A m \in 1..at[p] :
        \E q \in Added(lines) : q <= p /\ by[q] = by[p] /\ at[q] = m
Written(lines, gone, req, by, at) ==
    /\ lines \in Seq(Text) /\ First <= Len(lines)
    /\ \A p \in 1..First : lines[p] = FirstLines[p]
    /\ \A p \in Added(lines) :
          /\ by[p] \in Job /\ req[by[p]] \in Request
          /\ at[p] \in 0..Len(Source(req, by, p))
          /\ IF at[p] = 0 THEN lines[p] = Torn
             ELSE Reads(lines[p], Source(req, by, p)[at[p]], by[p] \in gone)
    /\ Ordered(lines, by, at)
    /\ Complete(lines, by, at)
-----------------------------------------------------------------------------
(* What add-camera and add-viewer render: a header, then fields, none      *)
(* twice; the names before the hash.                                       *)
HashKeys == {"upload_password_hash", "password_hash"}
Shape(t, r, hash) ==
    /\ \E S : t \in Seq(S)
    /\ Len(t) \in Nat /\ DOMAIN t = 1..Len(t) /\ 1 \in DOMAIN t
    /\ t[1].key = IF r.kind = "camera" THEN "camera" ELSE "viewer"
    /\ \A m \in 1..Len(t) : m # 1 => t[m].key \notin {"camera", "viewer"}
    /\ \A m, n \in 1..Len(t) : t[m].key = t[n].key => m = n
    /\ \A m, n \in 1..Len(t) : t[m].key \in {"name", "username"} /\ t[n].key \in HashKeys => m < n
    /\ \A m \in 1..Len(t) :
          /\ t[m].key = "name" => t[m].val = Unquote(r.name)
          /\ t[m].key \in HashKeys => t[m].val = hash /\ t[m].key = HashKey(t[1].key)
          /\ t[m].key = "scope" => t[m].val = UnquoteScope(r.scope) /\ t[1].key = "viewer"
          /\ t[m].key = "username" =>
                /\ t[m].val = Unquote(r.username)
                /\ r.username # None /\ r.kind = "camera"
    /\ r.kind = "camera" /\ r.username # None => \E m \in 1..Len(t) : t[m].key = "username"

(* One more line behind a table. *)
LEMMA JoinLine ==
    ASSUME NEW S, NEW s \in Seq(S), NEW x \in S, NEW k, k = Len(s) + 1
    PROVE  /\ s \o <<x>> \in Seq(S) /\ Len(s \o <<x>>) = k
           /\ (s \o <<x>>)[k] = x
           /\ \A n \in 1..Len(s) : (s \o <<x>>)[n] = s[n]
<1>1. <<x>> \in Seq(S) /\ Len(<<x>>) = 1 /\ <<x>>[1] = x OBVIOUS
<1> QED BY <1>1

(* add-camera renders a table of this shape, with or without user name and *)
(* TLS rule.                                                               *)
LEMMA CameraShape ==
    ASSUME NEW r, NEW hash, r.kind = "camera"
    PROVE  Shape(RenderCameraEntry(r, hash), r, hash)
<1> DEFINE head == Line("camera", None)
           name == Line("name", Unquote(r.name))
           user == Line("username", Unquote(r.username))
           pass == Line("upload_password_hash", hash)
           tls == Line("require_tls", TRUE)
           S == {head, name, user, pass, tls}
           a == <<head, name>>
           b == IF r.username # None THEN a \o <<user>> ELSE a
           c == b \o <<pass>>
           d == IF r.tls THEN c \o <<tls>> ELSE c
<1>0. /\ head.key = "camera" /\ name.key = "name" /\ user.key = "username"
      /\ pass.key = "upload_password_hash" /\ tls.key = "require_tls"
      /\ name.val = Unquote(r.name) /\ user.val = Unquote(r.username) /\ pass.val = hash
  BY DEF Line
<1>1. a \in Seq(S) /\ Len(a) = 2 /\ a[1] = head /\ a[2] = name OBVIOUS
<1>2. head \in S /\ name \in S /\ user \in S /\ pass \in S /\ tls \in S OBVIOUS
<1>3. \A s \in Seq(S) : s \o <<>> = s BY ConcatEmptySeq
<1>4. RenderCameraEntry(r, hash) = d
  <2>1. RenderCameraEntry(r, hash) =
           ((a \o Optional("username", Unquote(r.username), r.username # None)) \o <<pass>>)
               \o Optional("require_tls", TRUE, r.tls)
    BY DEF RenderCameraEntry
  <2>2. a \o Optional("username", Unquote(r.username), r.username # None) = b
    BY <1>1, <1>3 DEF Optional
  <2>3. b \in Seq(S) BY <1>1, <1>2, JoinLine
  <2> HIDE DEF S, a, b
  <2>4. c \in Seq(S) BY <1>2, <2>3, JoinLine
  <2> HIDE DEF c
  <2>5. c \o Optional("require_tls", TRUE, r.tls) = d BY <1>3, <2>4 DEF Optional
  <2> QED BY <2>1, <2>2, <2>5 DEF c
<1> HIDE DEF head, name, user, pass, tls, S, a
<1>5. ASSUME NEW s \in Seq(S), NEW x \in S, NEW n \in {2, 3, 4}, Len(s) = n,
             s[1] = head, s[2] = name
      PROVE  LET t == s \o <<x>>
             IN  /\ t \in Seq(S) /\ Len(t) = n + 1 /\ t[1] = head /\ t[2] = name
                 /\ t[n + 1] = x
                 /\ n = 3 => t[3] = s[3]
                 /\ n = 4 => t[3] = s[3] /\ t[4] = s[4]
  <2> DEFINE t == s \o <<x>>
  <2>1. /\ t \in Seq(S) /\ Len(t) = n + 1 /\ t[n + 1] = x
        /\ \A i \in 1..n : t[i] = s[i]
    BY <1>5, JoinLine
  <2> HIDE DEF t
  <2>2. t[1] = s[1] /\ t[2] = s[2] /\ (n = 3 => t[3] = s[3]) /\ (n = 4 => t[3] = s[3] /\ t[4] = s[4])
    BY <2>1
  <2> QED BY <1>5, <2>1, <2>2 DEF t
<1>6. /\ b \in Seq(S) /\ b[1] = head /\ b[2] = name
      /\ IF r.username # None THEN Len(b) = 3 /\ b[3] = user ELSE Len(b) = 2
  BY <1>1, <1>2, <1>5
<1> HIDE DEF b
<1>7. /\ c \in Seq(S) /\ c[1] = head /\ c[2] = name
      /\ IF r.username # None THEN Len(c) = 4 /\ c[3] = user /\ c[4] = pass
                              ELSE Len(c) = 3 /\ c[3] = pass
  BY <1>2, <1>6, <1>5
<1> HIDE DEF c
<1>8. /\ d \in Seq(S) /\ d[1] = head /\ d[2] = name
      /\ \/ r.username # None /\ Len(d) = 5 /\ d[3] = user /\ d[4] = pass /\ d[5] = tls
         \/ r.username # None /\ Len(d) = 4 /\ d[3] = user /\ d[4] = pass
         \/ r.username = None /\ Len(d) = 4 /\ d[3] = pass /\ d[4] = tls
         \/ r.username = None /\ Len(d) = 3 /\ d[3] = pass
  BY <1>2, <1>7, <1>5
<1> HIDE DEF d
<1>9. DOMAIN d = 1..Len(d) BY <1>8
<1>10. CASE r.username # None /\ Len(d) = 5 /\ d[3] = user /\ d[4] = pass /\ d[5] = tls
  <2>1. \A m \in 1..5 : m = 1 \/ m = 2 \/ m = 3 \/ m = 4 \/ m = 5 OBVIOUS
  <2> QED BY <1>0, <1>4, <1>8, <1>9, <1>10, <2>1 DEF Shape, HashKeys, HashKey
<1>11. CASE r.username # None /\ Len(d) = 4 /\ d[3] = user /\ d[4] = pass
  <2>1. \A m \in 1..4 : m = 1 \/ m = 2 \/ m = 3 \/ m = 4 OBVIOUS
  <2> QED BY <1>0, <1>4, <1>8, <1>9, <1>11, <2>1 DEF Shape, HashKeys, HashKey
<1>12. CASE r.username = None /\ Len(d) = 4 /\ d[3] = pass /\ d[4] = tls
  <2>1. \A m \in 1..4 : m = 1 \/ m = 2 \/ m = 3 \/ m = 4 OBVIOUS
  <2> QED BY <1>0, <1>4, <1>8, <1>9, <1>12, <2>1 DEF Shape, HashKeys, HashKey
<1>13. CASE r.username = None /\ Len(d) = 3 /\ d[3] = pass
  <2>1. \A m \in 1..3 : m = 1 \/ m = 2 \/ m = 3 OBVIOUS
  <2> QED BY <1>0, <1>4, <1>8, <1>9, <1>13, <2>1 DEF Shape, HashKeys, HashKey
<1> QED BY <1>8, <1>10, <1>11, <1>12, <1>13

(* So does add-viewer. *)
LEMMA ViewerShape ==
    ASSUME NEW r, NEW hash, r.kind # "camera"
    PROVE  Shape(RenderViewerEntry(r, hash), r, hash)
<1> DEFINE head == Line("viewer", None)
           name == Line("name", Unquote(r.name))
           pass == Line("password_hash", hash)
           scope == Line("scope", UnquoteScope(r.scope))
           d == <<head, name, pass, scope>>
<1>0. /\ head.key = "viewer" /\ name.key = "name" /\ pass.key = "password_hash" /\ scope.key = "scope"
      /\ name.val = Unquote(r.name) /\ pass.val = hash /\ scope.val = UnquoteScope(r.scope)
  BY DEF Line
<1>1. RenderViewerEntry(r, hash) = d BY DEF RenderViewerEntry
<1>2. /\ d \in Seq({head, name, pass, scope}) /\ Len(d) = 4 /\ DOMAIN d = 1..4
      /\ d[1] = head /\ d[2] = name /\ d[3] = pass /\ d[4] = scope
  OBVIOUS
<1>3. \A m \in 1..4 : m = 1 \/ m = 2 \/ m = 3 \/ m = 4 OBVIOUS
<1> HIDE DEF head, name, pass, scope, d
<1> QED BY <1>0, <1>1, <1>2, <1>3 DEF Shape, HashKeys, HashKey

(* So every table a job writes has it. *)
LEMMA TableShape ==
    ASSUME NEW j, NEW r
    PROVE  Shape(Table(j, r), r, HashPassword(r.password, j))
BY CameraShape, ViewerShape DEF Table, Render
-----------------------------------------------------------------------------
(* Reading a table back. *)

(* No key stands twice in a table of a file that parses. *)
LEMMA KeysOnce ==
    ASSUME NEW lines, NEW N \in Nat, DOMAIN lines = 1..N, Parses(lines), NEW i \in Headers(lines),
           NEW k \in Body(lines, i), NEW l \in Body(lines, i), lines[k].key = lines[l].key
    PROVE  k = l
<1> DEFINE B == Body(lines, i)
           K == {lines[m].key : m \in B}
           f == [m \in B |-> lines[m].key]
<1>1. IsFiniteSet(B)
  <2>1. IsFiniteSet(1..N) BY FS_Interval
  <2>2. B \in SUBSET (1..N) BY DEF Body
  <2> QED BY <2>1, <2>2, FS_Subset
<1>2. Cardinality(B) = Cardinality(K) BY DEF Parses
<1> HIDE DEF B
<1>3. f \in Surjection(B, K) BY DEF Surjection
<1>4. f \in Injection(B, K) BY <1>1, <1>2, <1>3, FS_SurjSameCardinalityImpliesInj
<1>5. k \in B /\ l \in B /\ f[k] = f[l] BY DEF B
<1> QED BY <1>4, <1>5 DEF Injection, IsInjective

(* A field is the value of the line with its key. *)
LEMMA FieldIs ==
    ASSUME NEW lines, NEW N \in Nat, DOMAIN lines = 1..N, Parses(lines), NEW i \in Headers(lines),
           NEW k \in Body(lines, i), NEW default
    PROVE  Field(lines, i, lines[k].key, default) = lines[k].val
<1> DEFINE found == {l \in Body(lines, i) : lines[l].key = lines[k].key}
<1>1. found = {k} BY KeysOnce
<1>2. (CHOOSE l \in found : TRUE) = k BY <1>1
<1> QED BY <1>1, <1>2 DEF Field

(* The first file is a sequence of lines. *)
LEMMA FirstIsSeq == FirstLines \in Seq({FirstLines[p] : p \in DOMAIN FirstLines})
<1> DEFINE S == {FirstLines[p] : p \in 1..Len(FirstLines)}
<1>1. Len(FirstLines) \in Nat /\ FirstLines = SubSeq(FirstLines, 1, Len(FirstLines))
  BY FirstLinesAssumption
<1>2. 1 \in Int /\ Len(FirstLines) \in Int /\ \A i \in 1..Len(FirstLines) : FirstLines[i] \in S
  BY <1>1
<1> HIDE DEF S
<1>3. FirstLines \in Seq(S) BY <1>1, <1>2, SubSeqProperties
<1>4. DOMAIN FirstLines = 1..Len(FirstLines) BY <1>3, LenProperties
<1> QED BY <1>3, <1>4 DEF S

(* Its lengths and domains. *)
LEMMA WrittenFacts ==
    ASSUME NEW lines, NEW gone, NEW req, NEW by, NEW at, Written(lines, gone, req, by, at)
    PROVE  /\ First \in Nat /\ Len(lines) \in Nat /\ First <= Len(lines)
           /\ DOMAIN lines = 1..Len(lines) /\ DOMAIN FirstLines = 1..First
<1>1. FirstLines \in Seq({FirstLines[p] : p \in DOMAIN FirstLines}) BY FirstIsSeq
<1>2. First \in Nat /\ DOMAIN FirstLines = 1..First BY <1>1, LenProperties DEF First
<1> QED BY <1>2, LenProperties DEF Written

(* An added line, and the table its job writes. *)
LEMMA AddedLine ==
    ASSUME NEW lines, NEW gone, NEW req, NEW by, NEW at, Written(lines, gone, req, by, at),
           NEW p \in Added(lines)
    PROVE  /\ Shape(Source(req, by, p), req[by[p]], HashPassword(req[by[p]].password, by[p]))
           /\ at[p] \in 0..Len(Source(req, by, p)) /\ at[p] \in Nat
           /\ p \in DOMAIN lines /\ p \in Nat /\ First < p
<1>1. Shape(Source(req, by, p), req[by[p]], HashPassword(req[by[p]].password, by[p]))
  BY TableShape DEF Source
<1>2. at[p] \in 0..Len(Source(req, by, p)) BY DEF Written
<1>3. p \in DOMAIN lines /\ p \in Nat /\ First < p BY WrittenFacts DEF Added
<1> QED BY <1>1, <1>2, <1>3 DEF Shape

(* In a file that parses it is a line of that table, changed or not. *)
LEMMA WholeLine ==
    ASSUME NEW lines, NEW gone, NEW req, NEW by, NEW at, Written(lines, gone, req, by, at),
           Parses(lines), NEW p \in Added(lines)
    PROVE  LET source == Source(req, by, p)[at[p]]
           IN  /\ at[p] \in 1..Len(Source(req, by, p)) /\ at[p] # 0
               /\ lines[p].key \notin {"name", "unknown"} => lines[p] = source
               /\ lines[p].key = "name" => lines[p].val = source.val /\ source.key \in {"name", "username"}
               /\ source.key \in {"camera", "viewer"} => lines[p] = source
               /\ lines[p] # source => by[p] \in gone
<1> DEFINE source == Source(req, by, p)[at[p]]
<1>1. lines[p] # Torn
  <2>1. p \in DOMAIN lines BY AddedLine
  <2>2. Torn.val = Unreadable BY DEF Torn, Line
  <2> QED BY <2>1, <2>2 DEF Parses
<1>2. at[p] \in 1..Len(Source(req, by, p)) /\ at[p] # 0
  <2>1. at[p] \in 0..Len(Source(req, by, p)) /\ at[p] # 0 BY <1>1 DEF Written
  <2> QED BY <2>1, AddedLine DEF Shape
<1>3. Reads(lines[p], source, by[p] \in gone) BY <1>2 DEF Written
<1> HIDE DEF source
<1>4. Unknown.key = "unknown" /\ Line("name", source.val).key = "name"
      /\ Line("name", source.val).val = source.val
  BY DEF Unknown, Line
<1>5. CASE lines[p] = source BY <1>2, <1>5 DEF source
<1>6. CASE by[p] \in gone /\ lines[p] = Unknown /\ source.key \notin {"camera", "viewer"}
  BY <1>2, <1>4, <1>6 DEF source
<1>7. CASE by[p] \in gone /\ lines[p] = Line("name", source.val) /\ source.key = "username"
  BY <1>2, <1>4, <1>7 DEF source
<1> QED BY <1>1, <1>3, <1>5, <1>6, <1>7 DEF Reads

(* Lines of one job in the order of its table. *)
LEMMA LineOrder ==
    ASSUME NEW lines, NEW gone, NEW req, NEW by, NEW at, Written(lines, gone, req, by, at),
           NEW p \in Added(lines), NEW q \in Added(lines), by[p] = by[q], at[p] # 0, at[q] # 0
    PROVE  /\ at[p] < at[q] => p < q
           /\ at[p] = at[q] => p = q
<1>1. /\ p \in Nat /\ q \in Nat /\ at[p] \in Nat /\ at[q] \in Nat BY AddedLine
<1>2. (p < q => at[p] < at[q]) /\ (q < p => at[q] < at[p]) BY DEF Written, Ordered
<1> QED BY <1>1, <1>2

(* An added header is the first line of its table, ... *)
LEMMA HeaderIsFirst ==
    ASSUME NEW lines, NEW gone, NEW req, NEW by, NEW at, Written(lines, gone, req, by, at),
           Parses(lines), NEW i \in Headers(lines), i > First
    PROVE  i \in Added(lines) /\ at[i] = 1 /\ lines[i] = Source(req, by, i)[1]
<1>1. i \in DOMAIN lines /\ lines[i].key \in {"camera", "viewer"} BY DEF Headers
<1>2. i \in Added(lines) BY <1>1, WrittenFacts DEF Added
<1>3. at[i] \in 1..Len(Source(req, by, i)) /\ lines[i] = Source(req, by, i)[at[i]]
  BY <1>1, <1>2, WholeLine
<1>4. at[i] = 1 BY <1>1, <1>2, <1>3, AddedLine DEF Shape
<1> QED BY <1>2, <1>3, <1>4

(* ... and every added line has the header of its table before it. *)
LEMMA HeaderOf ==
    ASSUME NEW lines, NEW gone, NEW req, NEW by, NEW at, Written(lines, gone, req, by, at),
           Parses(lines), NEW p \in Added(lines)
    PROVE  \E i \in Headers(lines) : i > First /\ i \in Added(lines) /\ i <= p /\ by[i] = by[p]
<1>1. 1 \in 1..at[p]
  <2>1. at[p] \in Nat /\ at[p] # 0 BY AddedLine, WholeLine
  <2> QED BY <2>1
<1>2. PICK q \in Added(lines) : q <= p /\ by[q] = by[p] /\ at[q] = 1
  BY <1>1 DEF Written, Complete
<1>3. q \in DOMAIN lines /\ q > First BY AddedLine
<1>4. Source(req, by, q)[1].key \in {"camera", "viewer"} BY AddedLine DEF Shape
<1>5. lines[q] = Source(req, by, q)[1] BY <1>2, <1>4, WholeLine
<1>6. q \in Headers(lines) BY <1>3, <1>4, <1>5 DEF Headers
<1> QED BY <1>2, <1>3, <1>6

(* A set of numbers that is not empty has a least one. *)
LEMMA Least ==
    ASSUME NEW T \in SUBSET Nat, T # {}
    PROVE  \E x \in T : \A y \in T : ~(y < x)
<1>1. PICK x \in T : \A y \in T : ~(<<y, x>> \in OpToRel(<, Nat))
  BY NatLessThanWellFounded, WFMin, Zenon
<1> QED BY <1>1 DEF OpToRel

(* In a file that parses, the hash of a table, and the scope of a viewer,  *)
(* stand in it as the job wrote them.  Were one another job's, the first   *)
(* such table would have taken it from one before it, which has its own.   *)
LEMMA OwnLine ==
    ASSUME NEW lines, NEW gone, NEW req, NEW by, NEW at, Written(lines, gone, req, by, at),
           Parses(lines), NEW i \in Headers(lines), i > First,
           NEW key \in Required(lines[i].key), key # "name"
    PROVE  \E k \in Body(lines, i) : k \in Added(lines) /\ lines[k].key = key /\ by[k] = by[i]
<1> DEFINE Own(h) == \E k \in Body(lines, h) :
                         k \in Added(lines) /\ lines[k].key = key /\ by[k] = by[h]
           T == {h \in Headers(lines) : h > First /\ key \in Required(lines[h].key) /\ ~Own(h)}
<1> SUFFICES ASSUME T # {} PROVE FALSE OBVIOUS
<1>1. T \in SUBSET Nat BY WrittenFacts DEF Headers
<1> HIDE DEF T
<1>2. PICK x \in T : \A y \in T : ~(y < x) BY <1>1, Least
<1>3. x \in Headers(lines) /\ x > First /\ key \in Required(lines[x].key) /\ ~Own(x) BY DEF T
<1>4. PICK k \in Body(lines, x) : lines[k].key = key BY <1>3 DEF Parses
<1>5. /\ k \in DOMAIN lines /\ k > x /\ k \in Nat /\ x \in Nat /\ First \in Nat
      /\ \A h \in Headers(lines) : h > x => k < h
  BY <1>1, WrittenFacts DEF Body
<1>6. k \in Added(lines) BY <1>3, <1>5, WrittenFacts DEF Added
<1>7. PICK q \in Headers(lines) : q > First /\ q \in Added(lines) /\ q <= k /\ by[q] = by[k]
  BY <1>6, HeaderOf
<1>8. q # x BY <1>3, <1>4, <1>6, <1>7
<1>9. q \in Nat /\ q < x BY <1>5, <1>7, <1>8, AddedLine
<1>10. key \in HashKeys \cup {"scope"} BY DEF Required, HashKey, HashKeys
<1>11. ASSUME NEW l \in Added(lines), lines[l].key = key, by[l] = by[k]
       PROVE  /\ lines[l] = Source(req, by, k)[at[l]]
              /\ at[l] \in 1..Len(Source(req, by, k)) /\ at[l] # 0
  <2>1. Source(req, by, l) = Source(req, by, k) BY <1>11 DEF Source
  <2>2. key \notin {"name", "unknown"} BY <1>10 DEF HashKeys
  <2> QED BY <1>11, <2>1, <2>2, WholeLine
<1>12. key \in Required(lines[q].key)
  <2>1. lines[q] = Source(req, by, q)[1] BY <1>7, HeaderIsFirst
  <2>2. Source(req, by, q) = Source(req, by, k) BY <1>7 DEF Source
  <2>3. lines[k] = Source(req, by, k)[at[k]] /\ at[k] \in 1..Len(Source(req, by, k))
    BY <1>4, <1>6, <1>11
  <2>4. /\ key = "scope" => Source(req, by, k)[1].key = "viewer"
        /\ key \in HashKeys => key = HashKey(Source(req, by, k)[1].key)
    BY <1>4, <1>6, <2>3, AddedLine DEF Shape
  <2> QED BY <1>10, <2>1, <2>2, <2>4 DEF Required
<1>13. q \notin T BY <1>2, <1>9
<1>14. Own(q) BY <1>7, <1>12, <1>13 DEF T
<1>15. PICK l \in Body(lines, q) : l \in Added(lines) /\ lines[l].key = key /\ by[l] = by[q]
  BY <1>14
<1>16. l < x BY <1>3, <1>9, <1>15 DEF Body
<1>17. at[l] = at[k] /\ at[l] # 0
  <2> DEFINE t == Source(req, by, k)
  <2>1. lines[l] = t[at[l]] /\ at[l] \in 1..Len(t) /\ at[l] # 0 BY <1>7, <1>11, <1>15
  <2>2. lines[k] = t[at[k]] /\ at[k] \in 1..Len(t) BY <1>4, <1>6, <1>11
  <2>3. Shape(t, req[by[k]], HashPassword(req[by[k]].password, by[k])) BY <1>6, AddedLine
  <2> HIDE DEF t
  <2>4. t[at[l]].key = t[at[k]].key BY <1>4, <1>15, <2>1, <2>2
  <2> QED BY <2>1, <2>2, <2>3, <2>4 DEF Shape
<1>18. l = k BY <1>6, <1>7, <1>15, <1>17, LineOrder
<1> QED BY <1>5, <1>16, <1>18

(* A name in a table is its own as well: a job writes names before the     *)
(* hash, which is in the job's own table.                                  *)
LEMMA OwnName ==
    ASSUME NEW lines, NEW gone, NEW req, NEW by, NEW at, Written(lines, gone, req, by, at),
           Parses(lines), NEW i \in Headers(lines), i > First,
           NEW k \in Body(lines, i), lines[k].key \in {"name", "username"}
    PROVE  /\ k \in Added(lines) /\ by[k] = by[i]
           /\ \A l \in Added(lines) : lines[l].key \in HashKeys /\ by[l] = by[i] => k < l
<1>1. Len(lines) \in Nat /\ DOMAIN lines = 1..Len(lines) /\ First \in Nat BY WrittenFacts
<1>2. k \in DOMAIN lines /\ k > i /\ k \in Nat /\ i \in Nat BY <1>1 DEF Body, Headers
<1>3. k \in Added(lines) BY <1>1, <1>2 DEF Added
<1>4. ASSUME NEW l \in Added(lines), lines[l].key \in HashKeys, by[l] = by[k]
      PROVE  k < l
  <2> DEFINE t == Source(req, by, k)
  <2>1. Source(req, by, l) = t BY <1>4 DEF Source
  <2>2. lines[l] = t[at[l]] /\ at[l] \in 1..Len(t) /\ at[l] # 0
    <3>1. lines[l].key \notin {"name", "unknown"} BY <1>4 DEF HashKeys
    <3> QED BY <2>1, <3>1, WholeLine
  <2>3. /\ t[at[k]].key \in {"name", "username"} /\ at[k] \in 1..Len(t) /\ at[k] # 0
    <3>1. lines[k].key = "username" => lines[k] = t[at[k]] BY <1>3, WholeLine
    <3>2. lines[k].key = "name" => t[at[k]].key \in {"name", "username"} BY <1>3, WholeLine
    <3>3. at[k] \in 1..Len(t) /\ at[k] # 0 BY <1>3, WholeLine
    <3> QED BY <3>1, <3>2, <3>3
  <2>4. Shape(t, req[by[k]], HashPassword(req[by[k]].password, by[k])) BY <1>3, AddedLine
  <2> HIDE DEF t
  <2>5. at[k] < at[l] BY <1>4, <2>2, <2>3, <2>4 DEF Shape
  <2> QED BY <1>3, <1>4, <2>2, <2>3, <2>5, LineOrder
<1>5. PICK q \in Headers(lines) : q > First /\ q \in Added(lines) /\ q <= k /\ by[q] = by[k]
  BY <1>3, HeaderOf
<1>6. q \in Nat BY <1>5, AddedLine
<1>7. q <= i BY <1>2, <1>5, <1>6 DEF Body
<1>8. HashKey(lines[q].key) \in Required(lines[q].key) /\ HashKey(lines[q].key) # "name"
  BY DEF Required, HashKey
<1>9. PICK l \in Body(lines, q) :
          l \in Added(lines) /\ lines[l].key = HashKey(lines[q].key) /\ by[l] = by[q]
  BY <1>5, <1>8, OwnLine
<1>10. k < l /\ l \in Nat
  <2>1. lines[l].key \in HashKeys BY <1>9 DEF HashKey, HashKeys
  <2> QED BY <1>4, <1>5, <1>9, <2>1, AddedLine
<1>11. q = i
  <2> SUFFICES ASSUME q # i PROVE FALSE OBVIOUS
  <2>1. q < i BY <1>2, <1>6, <1>7
  <2>2. l < i BY <1>9, <2>1 DEF Body
  <2> QED BY <1>2, <1>10, <2>2
<1> QED BY <1>3, <1>4, <1>5, <1>11

(* So a table that was added reads back as it was asked for, but for a     *)
(* camera whose job has lost a line: it may have lost its user name, or    *)
(* have it for its name.                                                   *)
CameraNamed(r, lossy, name, username) ==
    \/ /\ name = Unquote(r.name)
       /\ username = IF r.username = None THEN None ELSE Unquote(r.username)
    \/ /\ lossy /\ username = None
       /\ name = Unquote(r.name) \/ (r.username # None /\ name = Unquote(r.username))

(* The fields of such a table. *)
LEMMA OwnFields ==
    ASSUME NEW lines, NEW gone, NEW req, NEW by, NEW at, Written(lines, gone, req, by, at),
           Parses(lines), NEW i \in Headers(lines), i > First, NEW r, r = req[by[i]]
    PROVE  /\ i \in Added(lines)
           /\ lines[i].key = IF r.kind = "camera" THEN "camera" ELSE "viewer"
           /\ Field(lines, i, HashKey(lines[i].key), None) = HashPassword(r.password, by[i])
           /\ r.kind = "camera" =>
                 CameraNamed(r, by[i] \in gone, Field(lines, i, "name", None),
                             Field(lines, i, "username", None))
           /\ r.kind # "camera" =>
                 /\ Field(lines, i, "name", None) = Unquote(r.name)
                 /\ Field(lines, i, "scope", None) = UnquoteScope(r.scope)
<1> DEFINE N == Len(lines)
           hash == HashPassword(r.password, by[i])
           t == Source(req, by, i)
           hk == HashKey(lines[i].key)
<1>1. N \in Nat /\ DOMAIN lines = 1..N /\ First \in Nat BY WrittenFacts
<1>2. i \in Added(lines) /\ i \in Nat /\ at[i] = 1 /\ lines[i] = t[1] BY HeaderIsFirst, AddedLine
<1>3. Shape(t, r, hash) BY <1>2, AddedLine
<1>4. ASSUME NEW k \in Added(lines), by[k] = by[i]
      PROVE  /\ at[k] \in 1..Len(t) /\ at[k] # 0 /\ at[k] \in Nat
             /\ lines[k].key \notin {"name", "unknown"} => lines[k] = t[at[k]]
             /\ lines[k].key = "name" =>
                   lines[k].val = t[at[k]].val /\ t[at[k]].key \in {"name", "username"}
             /\ lines[k] # t[at[k]] => by[i] \in gone
  <2>1. Source(req, by, k) = t BY <1>4 DEF Source
  <2> QED BY <1>4, <2>1, WholeLine, AddedLine
<1> HIDE DEF t, hash
<1>5. lines[i].key = IF r.kind = "camera" THEN "camera" ELSE "viewer" BY <1>2, <1>3 DEF Shape
<1>6. ASSUME NEW key \in Required(lines[i].key), key # "name"
      PROVE  \E k \in Body(lines, i) :
                /\ k \in Added(lines) /\ by[k] = by[i] /\ lines[k].key = key
                /\ lines[k] = t[at[k]] /\ at[k] \in 1..Len(t)
                /\ Field(lines, i, key, None) = lines[k].val
  <2>1. PICK k \in Body(lines, i) : k \in Added(lines) /\ lines[k].key = key /\ by[k] = by[i]
    BY <1>6, OwnLine
  <2>2. Field(lines, i, lines[k].key, None) = lines[k].val BY <1>1, FieldIs
  <2>3. key \notin {"name", "unknown"} BY <1>6 DEF Required, HashKey
  <2> QED BY <1>4, <2>1, <2>2, <2>3
<1>7. hk \in Required(lines[i].key) /\ hk # "name" /\ hk \in HashKeys
  BY DEF Required, HashKey, HashKeys
<1> HIDE DEF hk
<1>8. Field(lines, i, hk, None) = hash BY <1>3, <1>6, <1>7 DEF Shape
<1>9. ASSUME r.kind # "camera" PROVE Field(lines, i, "scope", None) = UnquoteScope(r.scope)
  <2>1. "scope" \in Required(lines[i].key) BY <1>5, <1>9 DEF Required
  <2> QED BY <1>3, <1>6, <2>1 DEF Shape
<1>10. PICK k \in Body(lines, i) : lines[k].key = "name" BY DEF Parses, Required
<1>11. /\ k \in Added(lines) /\ by[k] = by[i]
       /\ Field(lines, i, "name", None) = lines[k].val /\ lines[k].val = t[at[k]].val
       /\ at[k] \in 1..Len(t) /\ at[k] # 0
       /\ t[at[k]].key \in {"name", "username"}
       /\ t[at[k]].key = "username" => by[i] \in gone
  <2>1. k \in Added(lines) /\ by[k] = by[i] BY <1>10, OwnName
  <2>2. Field(lines, i, "name", None) = lines[k].val BY <1>1, <1>10, FieldIs
  <2> QED BY <1>4, <1>10, <2>1, <2>2
<1>12. \/ Field(lines, i, "name", None) = Unquote(r.name) /\ t[at[k]].key = "name"
       \/ /\ t[at[k]].key = "username" /\ by[i] \in gone
          /\ r.username # None /\ r.kind = "camera"
          /\ Field(lines, i, "name", None) = Unquote(r.username)
  BY <1>3, <1>11 DEF Shape
<1>13. ASSUME NEW u \in Body(lines, i), lines[u].key = "username"
       PROVE  /\ Field(lines, i, "username", None) = Unquote(r.username) /\ r.username # None
              /\ Field(lines, i, "name", None) = Unquote(r.name)
  <2>1. u \in Added(lines) /\ by[u] = by[i] BY <1>13, OwnName
  <2>2. lines[u] = t[at[u]] /\ at[u] \in 1..Len(t) /\ at[u] # 0 BY <1>4, <1>13, <2>1
  <2>3. Field(lines, i, "username", None) = lines[u].val BY <1>1, <1>13, FieldIs
  <2>4. lines[u].val = Unquote(r.username) /\ r.username # None BY <1>3, <1>13, <2>2 DEF Shape
  <2>5. t[at[k]].key # "username"
    <3> SUFFICES ASSUME t[at[k]].key = "username" PROVE FALSE OBVIOUS
    <3>1. at[k] = at[u] BY <1>3, <1>11, <1>13, <2>2 DEF Shape
    <3>2. k = u BY <1>11, <2>1, <2>2, <3>1, LineOrder
    <3> QED BY <1>10, <1>13, <3>2
  <2> QED BY <1>12, <2>3, <2>4, <2>5
<1>14. ASSUME \A u \in Body(lines, i) : lines[u].key # "username"
       PROVE  Field(lines, i, "username", None) = None
  BY <1>14 DEF Field
<1>15. ASSUME r.kind = "camera", r.username # None, by[i] \notin gone
       PROVE  \E u \in Body(lines, i) : lines[u].key = "username"
  <2>1. PICK l \in Body(lines, i) :
            /\ l \in Added(lines) /\ by[l] = by[i] /\ lines[l].key = hk
            /\ lines[l] = t[at[l]] /\ at[l] \in 1..Len(t)
    BY <1>6, <1>7
  <2>2. PICK m \in 1..Len(t) : t[m].key = "username" BY <1>3, <1>15 DEF Shape
  <2>3. m < at[l] /\ m \in 1..at[l] /\ m # 1
    <3>1. m < at[l] BY <1>3, <1>7, <2>1, <2>2 DEF Shape
    <3>2. m # 1 BY <1>2, <1>5, <2>2
    <3> QED BY <1>4, <2>1, <3>1, <3>2
  <2>4. PICK q \in Added(lines) : q <= l /\ by[q] = by[l] /\ at[q] = m
    BY <2>1, <2>3 DEF Written, Complete
  <2>5. at[i] < at[q] /\ at[q] # 0 /\ at[i] # 0 BY <1>2, <2>3, <2>4
  <2>6. i < q
    <3>1. i \in Added(lines) /\ q \in Added(lines) /\ by[i] = by[q] BY <1>2, <2>1, <2>4
    <3> QED BY <2>5, <3>1, LineOrder
  <2>7. q \in Nat /\ l \in Nat /\ q \in DOMAIN lines BY <2>1, <2>4, AddedLine
  <2>8. \A h \in Headers(lines) : h \in Nat BY <1>1 DEF Headers
  <2>9. lines[q].key = "username" /\ lines[q] # Unknown
    <3>1. lines[q] = t[at[q]] BY <1>4, <1>15, <2>1, <2>4
    <3>2. Unknown.key = "unknown" BY DEF Unknown, Line
    <3> QED BY <2>2, <2>4, <3>1, <3>2
  <2>10. q \in Body(lines, i) BY <1>2, <2>1, <2>4, <2>6, <2>7, <2>8, <2>9 DEF Body
  <2> QED BY <2>9, <2>10
<1>16. ASSUME r.kind = "camera"
       PROVE  CameraNamed(r, by[i] \in gone, Field(lines, i, "name", None),
                          Field(lines, i, "username", None))
  <2>1. CASE \E u \in Body(lines, i) : lines[u].key = "username"
    BY <1>13, <2>1 DEF CameraNamed
  <2>2. CASE ~\E u \in Body(lines, i) : lines[u].key = "username"
    <3>1. Field(lines, i, "username", None) = None BY <1>14, <2>2
    <3>2. r.username = None \/ by[i] \in gone BY <1>15, <1>16, <2>2
    <3> QED BY <1>12, <3>1, <3>2 DEF CameraNamed
  <2> QED BY <2>1, <2>2
<1>17. r.kind # "camera" => Field(lines, i, "name", None) = Unquote(r.name) BY <1>12
<1> QED BY <1>2, <1>5, <1>8, <1>9, <1>16, <1>17 DEF hash, hk

(* The tables the file began with read back as ever: what was added to     *)
(* them begins with a header.                                              *)
LEMMA FirstTable ==
    ASSUME NEW lines, NEW gone, NEW req, NEW by, NEW at, Written(lines, gone, req, by, at),
           Parses(lines), NEW i \in 1..First
    PROVE  /\ i \in Headers(lines) <=> i \in Headers(FirstLines)
           /\ lines[i] = FirstLines[i]
           /\ \A key, default : Field(lines, i, key, default) = Field(FirstLines, i, key, default)
<1>1. /\ First \in Nat /\ Len(lines) \in Nat /\ First <= Len(lines)
      /\ DOMAIN lines = 1..Len(lines) /\ DOMAIN FirstLines = 1..First
  BY WrittenFacts
<1>2. \A p \in 1..First : lines[p] = FirstLines[p] BY DEF Written
<1>3. \A p \in 1..First : p \in Headers(lines) <=> p \in Headers(FirstLines)
  BY <1>1, <1>2 DEF Headers
<1>4. ASSUME First + 1 \in DOMAIN lines PROVE First + 1 \in Headers(lines)
  <2>1. First + 1 \in Added(lines) BY <1>1, <1>4 DEF Added
  <2>2. PICK q \in Headers(lines) : q > First /\ q \in Added(lines) /\ q <= First + 1
    BY <2>1, HeaderOf
  <2>3. q = First + 1 BY <1>1, <2>2 DEF Added
  <2> QED BY <2>2, <2>3
<1>5. \A h \in Headers(lines) : h \in 1..Len(lines) BY <1>1 DEF Headers
<1>6. \A h \in Headers(FirstLines) : h \in 1..First BY <1>1 DEF Headers
<1>7. ASSUME NEW k \in Body(lines, i) PROVE k \in Body(FirstLines, i)
  <2>1. /\ k \in 1..Len(lines) /\ k > i /\ \A h \in Headers(lines) : h > i => k < h
        /\ lines[k] # Unknown
    BY <1>1 DEF Body
  <2>2. k <= First
    <3> SUFFICES ASSUME k > First PROVE FALSE BY <1>1, <2>1
    <3>1. First + 1 \in DOMAIN lines /\ First + 1 > i BY <1>1, <2>1
    <3>2. First + 1 \in Headers(lines) BY <1>4, <3>1
    <3> QED BY <1>1, <2>1, <3>1, <3>2
  <2>3. k \in DOMAIN FirstLines BY <1>1, <2>1, <2>2
  <2>4. FirstLines[k] # Unknown /\ \A h \in Headers(FirstLines) : h > i => k < h
    BY <1>1, <1>2, <1>3, <1>6, <2>1, <2>3
  <2> QED BY <2>1, <2>3, <2>4 DEF Body
<1>8. ASSUME NEW k \in Body(FirstLines, i) PROVE k \in Body(lines, i)
  <2>1. /\ k \in 1..First /\ k > i /\ \A h \in Headers(FirstLines) : h > i => k < h
        /\ FirstLines[k] # Unknown
    BY <1>1 DEF Body
  <2>2. ASSUME NEW h \in Headers(lines), h > i PROVE k < h
    <3>1. CASE h <= First
      <4>1. h \in 1..First BY <1>1, <1>5, <3>1
      <4> QED BY <1>3, <2>1, <2>2, <4>1
    <3>2. CASE ~(h <= First) BY <1>1, <1>5, <2>1, <3>2
    <3> QED BY <3>1, <3>2
  <2>3. k \in DOMAIN lines /\ lines[k] # Unknown BY <1>1, <1>2, <2>1
  <2> QED BY <2>1, <2>2, <2>3 DEF Body
<1>9. Body(lines, i) = Body(FirstLines, i) BY <1>7, <1>8
<1>10. \A k \in Body(lines, i) : lines[k] = FirstLines[k]
  BY <1>1, <1>2, <1>9 DEF Body
<1>11. ASSUME NEW key, NEW default
       PROVE  Field(lines, i, key, default) = Field(FirstLines, i, key, default)
  <2> DEFINE a == {k \in Body(lines, i) : lines[k].key = key}
             b == {k \in Body(FirstLines, i) : FirstLines[k].key = key}
  <2>1. a = b BY <1>9, <1>10
  <2>2. CASE a = {} BY <2>1, <2>2 DEF Field
  <2>3. CASE a # {}
    <3> DEFINE k == CHOOSE k \in a : TRUE
    <3>1. k \in a BY <2>3
    <3>2. k \in Body(lines, i) BY <3>1
    <3> HIDE DEF k
    <3>3. lines[k].val = FirstLines[k].val BY <1>10, <3>2
    <3>4. Field(lines, i, key, default) = lines[k].val BY <2>3 DEF Field, k
    <3>5. Field(FirstLines, i, key, default) = FirstLines[k].val BY <2>1, <2>3 DEF Field, k
    <3> QED BY <3>3, <3>4, <3>5
  <2> QED BY <2>2, <2>3
<1> QED BY <1>2, <1>3, <1>11
-----------------------------------------------------------------------------
(* What a valid file is turned into: every entry has its own account, and  *)
(* there are no others.                                                    *)
LEMMA BuiltViewer ==
    ASSUME NEW c, Validate(c), NEW v \in c.viewer
    PROVE  v.name \in DOMAIN Build(c) /\ Build(c)[v.name] = Viewer(c, v)
<1>1. v.name \in ViewerNames(c) BY DEF ViewerNames
<1>2. (CHOOSE w \in c.viewer : w.name = v.name) = v BY DEF Validate
<1> QED BY <1>1, <1>2 DEF Build

(* A camera of a valid config has its account, an uploader. *)
LEMMA BuiltCamera ==
    ASSUME NEW c, Validate(c), NEW cam \in c.camera
    PROVE  /\ CameraLogin(cam) \in DOMAIN Build(c)
           /\ Build(c)[CameraLogin(cam)] = Uploader(cam)
<1>1. CameraLogin(cam) \in CameraLogins(c) BY DEF CameraLogins
<1>2. CameraLogin(cam) \notin ViewerNames(c) BY <1>1 DEF Validate
<1>3. (CHOOSE w \in c.camera : CameraLogin(w) = CameraLogin(cam)) = cam BY DEF Validate
<1> QED BY <1>1, <1>2, <1>3 DEF Build

(* There are no accounts but those of the config's entries. *)
LEMMA BuiltFrom ==
    ASSUME NEW c, NEW l \in DOMAIN Build(c)
    PROVE  \/ \E cam \in c.camera : l = CameraLogin(cam)
           \/ \E v \in c.viewer : l = v.name
BY DEF Build, CameraLogins, ViewerNames

(* The entries of a file that parses. *)
LEMMA Entries ==
    ASSUME NEW f
    PROVE  /\ \A cam \in ParseStr(f).camera : \E i \in Headers(f.lines) :
                 f.lines[i].key = "camera" /\ cam = CameraCfg(f.lines, i)
           /\ \A v \in ParseStr(f).viewer : \E i \in Headers(f.lines) :
                 f.lines[i].key = "viewer" /\ v = ViewerCfg(f.lines, i)
           /\ \A i \in Headers(f.lines) :
                 /\ f.lines[i].key = "camera" => CameraCfg(f.lines, i) \in ParseStr(f).camera
                 /\ f.lines[i].key = "viewer" => ViewerCfg(f.lines, i) \in ParseStr(f).viewer
           /\ ParseStr(f).group = <<>>
BY DEF ParseStr

(* Without groups a scope is what its names say, whichever the file. *)
LEMMA ScopeAlone ==
    ASSUME NEW c, NEW d, c.group = d.group, NEW scope
    PROVE  ExpandScope(c, scope) = ExpandScope(d, scope)
BY DEF ExpandScope

(* The accounts of a file that was written by the jobs of the requests in  *)
(* told are those that were told of.                                       *)
LEMMA FileAsTold ==
    ASSUME NEW f, Loads(f), NEW req, NEW by, NEW at, Written(f.lines, lost, req, by, at),
           \A p \in Added(f.lines) :
              [request |-> req[by[p]], hash |-> HashPassword(req[by[p]].password, by[p])] \in told,
           NEW login \in DOMAIN Build(ParseStr(f))
    PROVE  login \in FirstLogins \/ AsTold(login, Build(ParseStr(f))[login])
<1> DEFINE c == ParseStr(f)
           lines == f.lines
<1>1. Parses(lines) /\ Validate(c) BY DEF Loads
<1>2. \A i \in Headers(lines) : i \in Nat /\ First \in Nat /\ (i <= First => i \in 1..First)
  BY WrittenFacts DEF Headers
<1> DEFINE from(i) == [request |-> req[by[i]], hash |-> HashPassword(req[by[i]].password, by[i])]
<1>3. ASSUME NEW i \in Headers(lines), i > First
      PROVE  /\ from(i) \in told
             /\ lines[i].key = IF req[by[i]].kind = "camera" THEN "camera" ELSE "viewer"
             /\ Field(lines, i, HashKey(lines[i].key), None) = from(i).hash
             /\ req[by[i]].kind = "camera" =>
                   CameraNamed(req[by[i]], by[i] \in lost, Field(lines, i, "name", None),
                               Field(lines, i, "username", None))
             /\ req[by[i]].kind # "camera" =>
                   /\ Field(lines, i, "name", None) = Unquote(req[by[i]].name)
                   /\ Field(lines, i, "scope", None) = UnquoteScope(req[by[i]].scope)
             /\ req[by[i]] \in Request /\ from(i).hash.salt = by[i]
  <2>1. from(i).hash.salt = by[i] BY DEF HashPassword
  <2>2. i \in Added(lines) BY <1>1, <1>3, OwnFields
  <2>3. req[by[i]] \in Request /\ from(i) \in told BY <2>2 DEF Written
  <2> HIDE DEF from
  <2>4. from(i).hash = HashPassword(req[by[i]].password, by[i]) BY DEF from
  <2> QED BY <1>1, <1>3, <2>1, <2>3, <2>4, OwnFields
<1>4. ASSUME NEW cam \in c.camera, login = CameraLogin(cam)
      PROVE  login \in FirstLogins \/ AsTold(login, Build(c)[login])
  <2>1. PICK i \in Headers(lines) : lines[i].key = "camera" /\ cam = CameraCfg(lines, i)
    BY Entries
  <2>2. CASE i <= First
    <3>1. i \in 1..First BY <1>2, <2>2
    <3>2. i \in Headers(FirstLines) /\ FirstLines[i].key = "camera" BY <1>1, <2>1, <3>1, FirstTable
    <3>3. CameraCfg(FirstLines, i) = cam
      <4>1. \A key, default : Field(lines, i, key, default) = Field(FirstLines, i, key, default)
        BY <1>1, <3>1, FirstTable
      <4> QED BY <2>1, <4>1 DEF CameraCfg
    <3>4. FirstFile.lines = FirstLines BY DEF FirstFile
    <3>5. cam \in ParseStr(FirstFile).camera BY <3>2, <3>3, <3>4, Entries
    <3> QED BY <1>4, <3>5 DEF FirstLogins, Build, CameraLogins
  <2>3. CASE i > First
    <3> DEFINE t == from(i)
    <3>1. t \in told /\ t.request.kind = "camera" BY <1>3, <2>1, <2>3
    <3>2. /\ CameraNamed(t.request, t.hash.salt \in lost, cam.name, cam.username)
          /\ cam.hash = t.hash /\ t.request \in Request
      <4>1. cam.name = Field(lines, i, "name", None) /\ cam.username = Field(lines, i, "username", None)
        BY <2>1 DEF CameraCfg
      <4>2. cam.hash = Field(lines, i, HashKey(lines[i].key), None)
        BY <2>1 DEF CameraCfg, HashKey
      <4>3. t.request = req[by[i]] OBVIOUS
      <4> HIDE DEF from
      <4> QED BY <1>3, <2>1, <2>3, <3>1, <4>1, <4>2, <4>3
    <3>3. Build(c)[login] = Uploader(cam) BY <1>1, <1>4, BuiltCamera
    <3> HIDE DEF from
    <3> DEFINE name == Unquote(t.request.name)
               user == Unquote(CameraLogin(t.request))
    <3>4. \/ login = user /\ cam.name = name
          \/ t.hash.salt \in lost /\ login \in {name, user} /\ cam.name = login
      <4>1. t.request.username # None => Unquote(t.request.username) # None
        BY <3>1, <3>2, NameAssumption
      <4>2. CASE /\ cam.name = Unquote(t.request.name)
                 /\ cam.username = IF t.request.username = None THEN None ELSE Unquote(t.request.username)
        BY <1>4, <4>1, <4>2 DEF CameraLogin
      <4>3. CASE /\ t.hash.salt \in lost /\ cam.username = None
                 /\ \/ cam.name = Unquote(t.request.name)
                    \/ t.request.username # None /\ cam.name = Unquote(t.request.username)
        BY <1>4, <4>3 DEF CameraLogin
      <4> QED BY <3>2, <4>2, <4>3 DEF CameraNamed
    <3> HIDE DEF t
    <3>5. AsTold(login, Build(c)[login])
      <4> DEFINE account == Build(c)[login]
      <4>1. account.hash = t.hash /\ account.kind = "uploader" /\ account.view = Single(Home(cam.name))
        BY <3>2, <3>3 DEF Uploader
      <4> HIDE DEF account
      <4>2. AsTold(login, account) BY <3>1, <3>4, <4>1 DEF AsTold
      <4> QED BY <4>2 DEF account
    <3> QED BY <3>5
  <2> QED BY <1>2, <2>2, <2>3
<1>5. ASSUME NEW v \in c.viewer, login = v.name
      PROVE  login \in FirstLogins \/ AsTold(login, Build(c)[login])
  <2>1. PICK i \in Headers(lines) : lines[i].key = "viewer" /\ v = ViewerCfg(lines, i)
    BY Entries
  <2>2. CASE i <= First
    <3>1. i \in 1..First BY <1>2, <2>2
    <3>2. i \in Headers(FirstLines) /\ FirstLines[i].key = "viewer" BY <1>1, <2>1, <3>1, FirstTable
    <3>3. ViewerCfg(FirstLines, i) = v
      <4>1. \A key, default : Field(lines, i, key, default) = Field(FirstLines, i, key, default)
        BY <1>1, <3>1, FirstTable
      <4> QED BY <2>1, <4>1 DEF ViewerCfg
    <3>4. FirstFile.lines = FirstLines BY DEF FirstFile
    <3>5. v \in ParseStr(FirstFile).viewer BY <3>2, <3>3, <3>4, Entries
    <3> QED BY <1>5, <3>5 DEF FirstLogins, Build, ViewerNames
  <2>3. CASE i > First
    <3> DEFINE t == from(i)
    <3>1. t \in told /\ t.request.kind # "camera" BY <1>3, <2>1, <2>3
    <3>2. /\ v.name = Unquote(t.request.name) /\ v.hash = t.hash
          /\ v.scope = UnquoteScope(t.request.scope)
      <4>1. v.name = Field(lines, i, "name", None) /\ v.scope = Field(lines, i, "scope", None)
        BY <2>1 DEF ViewerCfg
      <4>2. v.hash = Field(lines, i, HashKey(lines[i].key), None)
        BY <2>1 DEF ViewerCfg, HashKey
      <4>3. t.request = req[by[i]] OBVIOUS
      <4> HIDE DEF from
      <4> QED BY <1>3, <2>1, <2>3, <3>1, <4>1, <4>2, <4>3
    <3>3. Build(c)[login] = Viewer(c, v) BY <1>1, <1>5, BuiltViewer
    <3>4. ExpandScope(c, v.scope) = ExpandScope([group |-> <<>>], v.scope)
      BY Entries, ScopeAlone
    <3> HIDE DEF from, c, t
    <3>5. AsTold(login, Build(c)[login])
      <4> DEFINE account == Build(c)[login]
      <4>1. /\ account.hash = t.hash /\ account.kind = "viewer"
            /\ account.view = ExpandScope([group |-> <<>>], UnquoteScope(t.request.scope))
        BY <3>2, <3>3, <3>4 DEF Viewer
      <4> HIDE DEF account
      <4>2. AsTold(login, account) BY <1>5, <3>1, <3>2, <4>1 DEF AsTold
      <4> QED BY <4>2 DEF account
    <3> QED BY <3>5
  <2> QED BY <1>2, <2>2, <2>3
<1> QED BY <1>4, <1>5, BuiltFrom
-----------------------------------------------------------------------------
(* The first n lines of a file, those of the start at least. *)
PartOf(part, lines, n) == n \in First..Len(lines) /\ part = SubSeq(lines, 1, n)

(* The first lines of a written file are a written file. *)
LEMMA WrittenPart ==
    ASSUME NEW lines, NEW gone, NEW req, NEW by, NEW at, Written(lines, gone, req, by, at),
           NEW n, NEW part, PartOf(part, lines, n)
    PROVE  /\ Written(part, gone, req, by, at) /\ Len(part) = n
           /\ \A p \in 1..n : part[p] = lines[p]
<1>1. /\ First \in Nat /\ Len(lines) \in Nat /\ First <= Len(lines)
      /\ n \in First..Len(lines)
  BY WrittenFacts DEF PartOf
<1>2. lines \in Seq(Text) BY DEF Written
<1>3. /\ part \in Seq(Text) /\ Len(part) = n /\ \A p \in 1..n : part[p] = lines[p]
  <2>1. n \in Int /\ 1 \in Int /\ 0 <= n /\ \A p \in 1..n : lines[p] \in Text
    BY <1>1, <1>2, ElementOfSeq
  <2>2. /\ part \in Seq(Text) /\ Len(part) = IF 1 <= n THEN (n - 1) + 1 ELSE 0
        /\ \A p \in 1..((n - 1) + 1) : part[p] = lines[(1 + p) - 1]
    BY <2>1, SubSeqProperties DEF PartOf
  <2>3. (n - 1) + 1 = n /\ (1 <= n \/ n = 0) BY <2>1
  <2>4. \A p \in 1..n : (1 + p) - 1 = p OBVIOUS
  <2> QED BY <2>2, <2>3, <2>4
<1>4. /\ \A p \in Added(part) : p \in Added(lines) /\ part[p] = lines[p]
      /\ \A p \in Added(part), q \in Added(lines) : q <= p => q \in Added(part)
  BY <1>1, <1>3 DEF Added
<1>5. \A p \in 1..First : part[p] = FirstLines[p] BY <1>1, <1>3 DEF Written
<1>6. Ordered(part, by, at) BY <1>4 DEF Written, Ordered
<1>7. Complete(part, by, at) BY <1>4 DEF Written, Complete
<1>8. ASSUME NEW p \in Added(part)
      PROVE  /\ by[p] \in Job /\ req[by[p]] \in Request
             /\ at[p] \in 0..Len(Source(req, by, p))
             /\ IF at[p] = 0 THEN part[p] = Torn
                ELSE Reads(part[p], Source(req, by, p)[at[p]], by[p] \in gone)
  BY <1>4 DEF Written
<1>9. First <= Len(part) BY <1>1, <1>3
<1>10. Written(part, gone, req, by, at) BY <1>3, <1>5, <1>6, <1>7, <1>8, <1>9 DEF Written
<1> QED BY <1>3, <1>10

(* A table of a part of a file, and in the whole: with the same fields, or *)
(* a TLS rule more.                                                        *)
SameTable(lines, part, i) ==
    /\ i \in Headers(lines) /\ lines[i] = part[i]
    /\ \A key \in {"name", HashKey(part[i].key)} :
          Field(lines, i, key, None) = Field(part, i, key, None)
    /\ part[i].key = "camera" =>
          Field(lines, i, "username", None) = Field(part, i, "username", None)
    /\ part[i].key = "viewer" =>
          Field(lines, i, "scope", None) = Field(part, i, "scope", None)
    /\ \/ Field(part, i, "require_tls", FALSE) = FALSE
       \/ Field(lines, i, "require_tls", FALSE) = Field(part, i, "require_tls", FALSE)

(* A table that was there, in a file that parsed, is still there when it   *)
(* parses again.                                                           *)
LEMMA TableStays ==
    ASSUME NEW lines, NEW gone, NEW req, NEW by, NEW at, Written(lines, gone, req, by, at), Parses(lines),
           NEW n, NEW part, PartOf(part, lines, n), Parses(part),
           NEW i \in Headers(part)
    PROVE  SameTable(lines, part, i)
<1>1. Written(part, gone, req, by, at) /\ Len(part) = n /\ \A p \in 1..n : part[p] = lines[p]
  BY WrittenPart
<1>2. /\ First \in Nat /\ Len(lines) \in Nat /\ n \in Nat /\ n <= Len(lines)
      /\ DOMAIN lines = 1..Len(lines) /\ DOMAIN part = 1..n
  BY <1>1, WrittenFacts DEF PartOf
<1>3. i \in 1..n BY <1>2 DEF Headers
<1>4. \A p \in 1..n : p \in Headers(part) <=> p \in Headers(lines) BY <1>1, <1>2 DEF Headers
<1>5. CASE i <= First
  <2>1. i \in 1..First BY <1>2, <1>3, <1>5
  <2>2. \A key, default : Field(lines, i, key, default) = Field(FirstLines, i, key, default)
    BY <2>1, FirstTable
  <2>3. \A key, default : Field(part, i, key, default) = Field(FirstLines, i, key, default)
    BY <1>1, <2>1, FirstTable
  <2>4. \A key, default : Field(lines, i, key, default) = Field(part, i, key, default)
    BY <2>2, <2>3
  <2>5. i \in Headers(lines) /\ lines[i] = part[i] BY <1>1, <1>3, <1>4
  <2> QED BY <2>4, <2>5 DEF SameTable
<1>6. CASE i > First
  <2>1. i \in Headers(lines) /\ lines[i] = part[i] BY <1>1, <1>3, <1>4
  <2>2. ASSUME NEW k \in Body(part, i)
        PROVE  k \in Body(lines, i) /\ k \in 1..n /\ lines[k] = part[k]
    <3>1. /\ k \in 1..n /\ k > i /\ part[k] # Unknown
          /\ \A h \in Headers(part) : h > i => k < h
      BY <1>2 DEF Body
    <3>2. ASSUME NEW h \in Headers(lines), h > i PROVE k < h
      <4>1. h \in 1..Len(lines) BY <1>2 DEF Headers
      <4>2. CASE h <= n
        <5>1. h \in 1..n BY <1>2, <4>1, <4>2
        <5> QED BY <1>4, <3>1, <3>2, <5>1
      <4>3. CASE ~(h <= n) BY <1>2, <3>1, <4>1, <4>3
      <4> QED BY <4>2, <4>3
    <3>3. lines[k] = part[k] /\ k \in DOMAIN lines BY <1>1, <1>2, <3>1
    <3> QED BY <3>1, <3>2, <3>3 DEF Body
  <2>3. ASSUME NEW k \in Body(part, i), NEW default
        PROVE  Field(lines, i, part[k].key, default) = Field(part, i, part[k].key, default)
    <3>1. Field(part, i, part[k].key, default) = part[k].val BY <1>2, FieldIs
    <3>2. Field(lines, i, lines[k].key, default) = lines[k].val BY <1>2, <2>1, <2>2, FieldIs
    <3> QED BY <2>2, <3>1, <3>2
  <2>4. ASSUME NEW key \in Required(part[i].key)
        PROVE  Field(lines, i, key, None) = Field(part, i, key, None)
    <3>1. PICK k \in Body(part, i) : part[k].key = key BY DEF Parses
    <3> QED BY <2>3, <3>1
  <2>5. Field(lines, i, "username", None) = Field(part, i, "username", None)
    <3>1. CASE \E k \in Body(part, i) : part[k].key = "username" BY <2>3, <3>1
    <3>2. CASE \A k \in Body(part, i) : part[k].key # "username"
      <4>1. Field(part, i, "username", None) = None BY <3>2 DEF Field
      <4>2. ASSUME NEW k \in Body(lines, i), lines[k].key = "username" PROVE FALSE
        <5>1. HashKey(part[i].key) \in Required(part[i].key) /\ HashKey(part[i].key) # "name"
          BY DEF Required, HashKey
        <5>2. PICK l \in Body(part, i) :
                  l \in Added(part) /\ part[l].key = HashKey(part[i].key) /\ by[l] = by[i]
          BY <1>1, <1>6, <5>1, OwnLine
        <5>3. l \in 1..n /\ lines[l] = part[l] /\ l \in Added(lines) /\ l \in Body(lines, i)
          BY <1>2, <2>2, <5>2, <1>1 DEF Added
        <5>4. lines[l].key \in HashKeys BY <5>2, <5>3 DEF HashKey, HashKeys
        <5>5. k < l
          <6>1. lines[k].key \in {"name", "username"} BY <4>2
          <6>2. \A q \in Added(lines) : lines[q].key \in HashKeys /\ by[q] = by[i] => k < q
            BY <1>6, <2>1, <6>1, OwnName
          <6> QED BY <5>2, <5>3, <5>4, <6>2
        <5>6. k \in DOMAIN lines /\ k > i /\ lines[k] # Unknown /\ \A h \in Headers(lines) : h > i => k < h
          BY DEF Body
        <5>7. k \in 1..n BY <1>2, <5>3, <5>5, <5>6
        <5>8. \A h \in Headers(part) : h \in 1..n BY <1>2 DEF Headers
        <5>9. k \in Body(part, i) BY <1>1, <1>2, <1>4, <5>6, <5>7, <5>8 DEF Body
        <5> QED BY <1>1, <3>2, <4>2, <5>7, <5>9
      <4>3. Field(lines, i, "username", None) = None BY <4>2 DEF Field
      <4> QED BY <4>1, <4>3
    <3> QED BY <3>1, <3>2
  <2>6. ASSUME Field(part, i, "require_tls", FALSE) # FALSE
        PROVE  Field(lines, i, "require_tls", FALSE) = Field(part, i, "require_tls", FALSE)
    <3>1. PICK k \in Body(part, i) : part[k].key = "require_tls" BY <2>6 DEF Field
    <3> QED BY <2>3, <3>1
  <2>7. /\ \A key \in {"name", HashKey(part[i].key)} : key \in Required(part[i].key)
        /\ part[i].key = "viewer" => "scope" \in Required(part[i].key)
    BY DEF Required
  <2> QED BY <2>1, <2>4, <2>5, <2>6, <2>7 DEF SameTable
<1>7. i <= First \/ i > First BY <1>2, <1>3
<1> QED BY <1>5, <1>6, <1>7

(* So a reload keeps every account of the file that was loaded before. *)
LEMMA LoadKeeps ==
    ASSUME NEW f, Loads(f), NEW gone, NEW req, NEW by, NEW at, Written(f.lines, gone, req, by, at),
           NEW e, Loads(e), NEW n, PartOf(e.lines, f.lines, n),
           NEW login \in DOMAIN Build(ParseStr(e))
    PROVE  /\ login \in DOMAIN Build(ParseStr(f))
           /\ LET old == Build(ParseStr(e))[login]
                  new == Build(ParseStr(f))[login]
              IN  /\ new.hash = old.hash /\ new.kind = old.kind /\ new.view = old.view
                  /\ old.tls => new.tls
<1> DEFINE c == ParseStr(f)
           d == ParseStr(e)
<1>1. Parses(f.lines) /\ Validate(c) /\ Parses(e.lines) /\ Validate(d) BY DEF Loads
<1>2. ASSUME NEW i \in Headers(e.lines)
      PROVE  SameTable(f.lines, e.lines, i)
  BY <1>1, TableStays
<1>3. ASSUME NEW cam \in d.camera, login = CameraLogin(cam)
      PROVE  /\ login \in DOMAIN Build(c)
             /\ \E new : /\ Build(c)[login] = Uploader(new) /\ Build(d)[login] = Uploader(cam)
                         /\ new.name = cam.name /\ new.hash = cam.hash
                         /\ cam.tls = FALSE \/ new.tls = cam.tls
  <2>1. PICK i \in Headers(e.lines) : e.lines[i].key = "camera" /\ cam = CameraCfg(e.lines, i)
    BY Entries
  <2> DEFINE new == CameraCfg(f.lines, i)
  <2>2. /\ new.name = cam.name /\ new.hash = cam.hash /\ new.username = cam.username
        /\ cam.tls = FALSE \/ new.tls = cam.tls
    BY <1>2, <2>1 DEF CameraCfg, SameTable, HashKey
  <2>3. new \in c.camera BY <1>2, <2>1, Entries DEF SameTable
  <2> HIDE DEF new
  <2>4. CameraLogin(new) = login BY <1>3, <2>2 DEF CameraLogin
  <2>5. login \in DOMAIN Build(c) /\ Build(c)[login] = Uploader(new)
    BY <1>1, <2>3, <2>4, BuiltCamera
  <2>6. Build(d)[login] = Uploader(cam) BY <1>1, <1>3, BuiltCamera
  <2> QED BY <2>2, <2>5, <2>6
<1>4. ASSUME NEW v \in d.viewer, login = v.name
      PROVE  /\ login \in DOMAIN Build(c)
             /\ \E new : /\ Build(c)[login] = Viewer(c, new) /\ Build(d)[login] = Viewer(d, v)
                         /\ new.hash = v.hash /\ new.scope = v.scope
  <2>1. PICK i \in Headers(e.lines) : e.lines[i].key = "viewer" /\ v = ViewerCfg(e.lines, i)
    BY Entries
  <2> DEFINE new == ViewerCfg(f.lines, i)
  <2>2. new.name = v.name /\ new.hash = v.hash /\ new.scope = v.scope
    BY <1>2, <2>1 DEF ViewerCfg, SameTable, HashKey
  <2>3. new \in c.viewer BY <1>2, <2>1, Entries DEF SameTable
  <2> HIDE DEF new
  <2>4. login \in DOMAIN Build(c) /\ Build(c)[login] = Viewer(c, new)
    BY <1>1, <1>4, <2>2, <2>3, BuiltViewer
  <2>5. Build(d)[login] = Viewer(d, v) BY <1>1, <1>4, BuiltViewer
  <2> QED BY <2>2, <2>4, <2>5
<1>5. ASSUME NEW cam \in d.camera, login = CameraLogin(cam)
      PROVE  /\ login \in DOMAIN Build(c)
             /\ LET old == Build(d)[login]
                    new == Build(c)[login]
                IN  /\ new.hash = old.hash /\ new.kind = old.kind /\ new.view = old.view
                    /\ old.tls => new.tls
  <2> HIDE DEF c, d
  <2>1. PICK new : /\ Build(c)[login] = Uploader(new) /\ Build(d)[login] = Uploader(cam)
                   /\ new.name = cam.name /\ new.hash = cam.hash
                   /\ cam.tls = FALSE \/ new.tls = cam.tls
    BY <1>3, <1>5
  <2>2. login \in DOMAIN Build(c) BY <1>3, <1>5
  <2> QED BY <2>1, <2>2 DEF Uploader
<1>6. ASSUME NEW v \in d.viewer, login = v.name
      PROVE  /\ login \in DOMAIN Build(c)
             /\ LET old == Build(d)[login]
                    new == Build(c)[login]
                IN  /\ new.hash = old.hash /\ new.kind = old.kind /\ new.view = old.view
                    /\ old.tls => new.tls
  <2>1. \A scope : ExpandScope(c, scope) = ExpandScope(d, scope) BY Entries, ScopeAlone
  <2> HIDE DEF c, d
  <2>2. PICK new : /\ Build(c)[login] = Viewer(c, new) /\ Build(d)[login] = Viewer(d, v)
                   /\ new.hash = v.hash /\ new.scope = v.scope
    BY <1>4, <1>6
  <2>3. login \in DOMAIN Build(c) BY <1>4, <1>6
  <2> QED BY <2>1, <2>2, <2>3 DEF Viewer
<1> QED BY <1>5, <1>6, BuiltFrom
-----------------------------------------------------------------------------
(* Every table that is or will be in the file was asked for, by a job that *)
(* is under way or over.                                                   *)
Order(req, j) == [request |-> req[j], hash |-> HashPassword(req[j].password, j)]
Asked(lines, req, by) ==
    \A p \in Added(lines) : step[by[p]] # "idle" /\ Order(req, by[p]) \in told

(* The first c lines of the table of j are in the file, and no others. *)
Begun(lines, by, at, j, c) ==
    /\ \A p \in Added(lines) : by[p] = j => at[p] <= c
    /\ \A m \in 1..c : \E p \in Added(lines) : by[p] = j /\ at[p] = m

(* A job in write_all: the first c lines of its table are in the file, the *)
(* others are still to be ended.                                           *)
InWriteAll(j) == step[j] \in {"append", "line", "rest"}
Writing(lines, req, by, at, j, c) ==
    LET t == Table(j, req[j])
    IN  /\ c \in 0..Len(t) /\ Len(todo[j]) = Len(t) - c
        /\ \A m \in 1..Len(todo[j]) : todo[j][m] = t[c + m]
        /\ Begun(lines, by, at, j, c)
Pending(lines, req, by, at) ==
    \A j \in Job : InWriteAll(j) =>
        /\ req[j] \in Request /\ Order(req, j) \in told
        /\ \E c \in Nat : Writing(lines, req, by, at, j, c)

Attributed(lines, req, by, at) ==
    /\ Written(lines, lost, req, by, at)
    /\ Asked(lines, req, by)
    /\ Pending(lines, req, by, at)
TableInv ==
    /\ todo \in [Job -> Seq(Text)]
    /\ \E req, by, at : Attributed(file.lines, req, by, at)

(* The accounts in force are those of a part of the file that loads: what  *)
(* was loaded is only added to, and no repair cuts into it.                *)
Loaded(lines, n) ==
    [lines |-> SubSeq(lines, 1, n), end |-> EndsAt("newline"), recipients |-> {FirstKey}]
AccountsInv ==
    server # None =>
        \E n \in First..Len(file.lines) :
            /\ Loads(Loaded(file.lines, n))
            /\ server.accounts = Build(ParseStr(Loaded(file.lines, n)))

ConfigInv == OperationsInv /\ TableInv /\ AccountsInv
-----------------------------------------------------------------------------
(* Whether a file loads is a matter of its tables, with any recipients. *)
LEMMA LoadsByLines ==
    ASSUME NEW f, NEW g, f.lines = g.lines, f.end.at # "inside", f.recipients # {}, Loads(g)
    PROVE  Loads(f) /\ Build(ParseStr(f)) = Build(ParseStr(g))
<1>1. g.recipients # {} BY LoadsForSomebody
<1>2. ParseStr(f) = ParseStr(g) BY <1>1 DEF ParseStr
<1> QED BY <1>2 DEF Loads

(* The first n lines are known by the lines alone. *)
LEMMA PartIs ==
    ASSUME NEW a \in Seq(Text), NEW b \in Seq(Text), NEW n \in Nat,
           n <= Len(a), Len(b) = n, \A p \in 1..n : b[p] = a[p]
    PROVE  SubSeq(a, 1, n) = b
<1>1. 1 \in Int /\ n \in Int /\ \A p \in 1..n : a[p] \in Text BY LenProperties, ElementOfSeq
<1> DEFINE s == SubSeq(a, 1, n)
<1>2. /\ s \in Seq(Text) /\ Len(s) = IF 1 <= n THEN (n - 1) + 1 ELSE 0
      /\ \A p \in 1..((n - 1) + 1) : s[p] = a[(1 + p) - 1]
  BY <1>1, SubSeqProperties
<1> HIDE DEF s
<1>3. (n - 1) + 1 = n /\ (1 <= n \/ n = 0) OBVIOUS
<1>4. \A p \in 1..n : (1 + p) - 1 = p OBVIOUS
<1>5. Len(s) = n /\ \A p \in 1..n : s[p] = b[p] BY <1>2, <1>3, <1>4
<1>6. s = b BY <1>2, <1>5, SeqEqual
<1> QED BY <1>6 DEF s

(* The file as it was at the start, and what else is in Text. *)
LEMMA TextFacts ==
    /\ First \in Nat /\ FirstLines \in Seq(Text)
    /\ \A j \in Job, r \in Request : Table(j, r) \in Seq(Text)
    /\ Torn \in Text /\ Unknown \in Text
    /\ \A line \in Text : Line("name", line.val) \in Text
<1>1. FirstLines \in Seq({FirstLines[p] : p \in DOMAIN FirstLines}) BY FirstIsSeq
<1>2. First \in Nat BY <1>1, LenProperties DEF First
<1>3. FirstLines \in Seq(Text)
  <2>1. {FirstLines[p] : p \in DOMAIN FirstLines} \subseteq Text BY DEF Text, Given, LinesOf
  <2> QED BY <1>1, <2>1, SeqMonotonic
<1>4. ASSUME NEW j \in Job, NEW r \in Request PROVE Table(j, r) \in Seq(Text)
  <2> DEFINE t == Table(j, r)
  <2>1. Shape(t, r, HashPassword(r.password, j)) BY TableShape
  <2>2. Len(t) \in Nat /\ DOMAIN t = 1..Len(t) BY <2>1 DEF Shape
  <2>3. \A m \in DOMAIN t : t[m] \in Text
    <3>1. LinesOf(t) \subseteq Text BY DEF Text, Given
    <3> QED BY <3>1 DEF LinesOf
  <2>4. PICK S : t \in Seq(S) BY <2>1 DEF Shape
  <2> HIDE DEF t
  <2>5. 1 \in Int /\ Len(t) \in Int /\ \A m \in 1..Len(t) : t[m] \in Text BY <2>2, <2>3
  <2>6. SubSeq(t, 1, Len(t)) \in Seq(Text) BY <2>5, SubSeqProperties
  <2>7. SubSeq(t, 1, Len(t)) = t BY <2>4, SubSeqFull
  <2> QED BY <2>6, <2>7 DEF t
<1>5. Torn \in Text /\ Unknown \in Text BY DEF Text, Given
<1>6. ASSUME NEW line \in Text PROVE Line("name", line.val) \in Text
  <2>1. CASE line \in Given BY <2>1 DEF Text
  <2>2. CASE line \notin Given
    <3>1. PICK l \in Given : line = Line("name", l.val) BY <2>2 DEF Text
    <3>2. line.val = l.val BY <3>1 DEF Line
    <3> QED BY <3>1, <3>2
  <2> QED BY <2>1, <2>2
<1> QED BY <1>2, <1>3, <1>4, <1>5, <1>6
-----------------------------------------------------------------------------
(* At the start nothing is written. *)
LEMMA TableInit == Init => TableInv
<1> SUFFICES ASSUME Init PROVE TableInv OBVIOUS
<1>1. /\ file.lines = FirstLines /\ todo = [j \in Job |-> <<>>]
      /\ \A j \in Job : step[j] = "idle"
  BY DEF Init, FirstFile
<1>2. Added(file.lines) = {} BY <1>1, TextFacts DEF Added, First
<1>3. todo \in [Job -> Seq(Text)] BY <1>1, EmptySeq
<1>4. Written(file.lines, lost, {}, {}, {})
  BY <1>1, <1>2, TextFacts DEF Written, Ordered, Complete, First
<1>5. Asked(file.lines, {}, {}) /\ Pending(file.lines, {}, {}, {})
  BY <1>1, <1>2 DEF Asked, Pending, InWriteAll
<1> QED BY <1>3, <1>4, <1>5 DEF TableInv, Attributed

(* A step that leaves the tables alone, in the file and in the commands. *)
Quiet ==
    /\ file'.lines = file.lines /\ todo' = todo /\ told' = told /\ lost' = lost
    /\ \A j \in Job : InWriteAll(j)' => InWriteAll(j)
    /\ \A j \in Job : step'[j] = "idle" => step[j] = "idle"

(* Such a step keeps the invariant of the tables. *)
LEMMA QuietTable ==
    ASSUME TableInv, Quiet
    PROVE  TableInv'
<1>1. PICK req, by, at : Attributed(file.lines, req, by, at) BY DEF TableInv
<1>2. Written(file'.lines, lost', req, by, at) BY <1>1 DEF Quiet, Attributed
<1>3. \A p \in Added(file.lines) : by[p] \in Job BY <1>1 DEF Written, Attributed
<1>4. Asked(file.lines, req, by)'
  <2>1. Added(file'.lines) = Added(file.lines) BY DEF Quiet
  <2> QED BY <1>1, <1>3, <2>1 DEF Asked, Quiet, Attributed
<1>5. Pending(file.lines, req, by, at)'
  <2> SUFFICES ASSUME NEW j \in Job, InWriteAll(j)'
               PROVE  /\ req[j] \in Request /\ Order(req, j) \in told'
                      /\ \E c \in Nat : Writing(file.lines, req, by, at, j, c)'
    BY DEF Pending
  <2>1. /\ req[j] \in Request /\ Order(req, j) \in told
        /\ \E c \in Nat : Writing(file.lines, req, by, at, j, c)
    BY <1>1 DEF Pending, Quiet, Attributed
  <2>2. ASSUME NEW c \in Nat, Writing(file.lines, req, by, at, j, c)
        PROVE  Writing(file.lines, req, by, at, j, c)'
    BY <2>2 DEF Writing, Quiet
  <2> QED BY <2>1, <2>2 DEF Quiet
<1>6. (todo \in [Job -> Seq(Text)])' BY DEF TableInv, Quiet
<1> QED BY <1>2, <1>4, <1>5, <1>6 DEF TableInv, Attributed

(* A new command has its whole table to write, and no line in the file. *)
LEMMA AddAccountTable ==
    ASSUME OperationsInv, TableInv, NEW j \in Job, NEW r \in Request, AddAccount(j, r)
    PROVE  TableInv'
<1>1. PICK old, by, at :
          /\ Written(file.lines, lost, old, by, at)
          /\ Asked(file.lines, old, by) /\ Pending(file.lines, old, by, at)
  BY DEF TableInv, Attributed
<1> DEFINE req == [i \in Job |-> IF i = j THEN r ELSE old[i]]
           hash == HashPassword(r.password, j)
           t == Table(j, r)
<1>2. /\ step[j] = "idle" /\ step' = [step EXCEPT ![j] = "append"]
      /\ todo' = [todo EXCEPT ![j] = t] /\ file' = file /\ lost' = lost
      /\ told' = told \cup {[request |-> r, hash |-> hash]}
      /\ step \in [Job -> Label] /\ todo \in [Job -> Seq(Text)]
  BY DEF AddAccount, Goto, Table, TableInv, OperationsInv, OperationsTypeOK
<1>3. t \in Seq(Text) /\ Len(t) \in Nat BY TextFacts, LenProperties
<1>4. (todo \in [Job -> Seq(Text)])' BY <1>2, <1>3
<1>5. \A p \in Added(file.lines) : by[p] \in Job /\ by[p] # j /\ old[by[p]] \in Request
  BY <1>1, <1>2 DEF Written, Asked
<1>6. req[j] = r /\ \A i \in Job : i # j => req[i] = old[i] OBVIOUS
<1> HIDE DEF req, t
<1>7. \A p \in Added(file.lines) : Source(req, by, p) = Source(old, by, p)
  BY <1>5, <1>6 DEF Source
<1>8. Written(file.lines, lost, req, by, at) BY <1>1, <1>5, <1>6, <1>7 DEF Written
<1>9. Written(file'.lines, lost', req, by, at) BY <1>2, <1>8
<1>10. Asked(file.lines, req, by)'
  <2>1. \A p \in Added(file.lines) : step[by[p]] # "idle" /\ Order(old, by[p]) \in told
    BY <1>1 DEF Asked
  <2>2. \A p \in Added(file.lines) :
            step'[by[p]] = step[by[p]] /\ Order(req, by[p]) = Order(old, by[p])
    BY <1>2, <1>5, <1>6 DEF Order
  <2> QED BY <1>2, <2>1, <2>2 DEF Asked
<1>11. Order(req, j) \in told' BY <1>2, <1>6 DEF Order
<1>12. Writing(file.lines, req, by, at, j, 0)'
  <2>1. Table(j, req[j]) = t BY <1>6 DEF t
  <2>2. todo'[j] = t /\ Added(file.lines)' = Added(file.lines) BY <1>2
  <2>3. 0 \in 0..Len(t) /\ Len(t) = Len(t) - 0 BY <1>3
  <2>4. \A m \in 1..Len(t) : t[m] = t[0 + m] OBVIOUS
  <2>5. \A m \in 1..0 : FALSE OBVIOUS
  <2> QED BY <1>2, <1>5, <2>1, <2>2, <2>3, <2>4, <2>5 DEF Writing, Begun
<1>13. ASSUME NEW i \in Job, InWriteAll(i)', i # j
       PROVE  /\ req[i] \in Request /\ Order(req, i) \in told'
              /\ \E c \in Nat : Writing(file.lines, req, by, at, i, c)'
  <2>1. InWriteAll(i) /\ todo'[i] = todo[i] /\ req[i] = old[i]
    BY <1>2, <1>6, <1>13 DEF InWriteAll
  <2>2. PICK c \in Nat : Writing(file.lines, old, by, at, i, c) BY <1>1, <2>1 DEF Pending
  <2>3. old[i] \in Request /\ Order(old, i) \in told BY <1>1, <2>1 DEF Pending
  <2>4. Writing(file.lines, req, by, at, i, c)' BY <1>2, <2>1, <2>2 DEF Writing
  <2>5. Order(req, i) \in told' BY <1>2, <2>1, <2>3 DEF Order
  <2> QED BY <2>1, <2>3, <2>4, <2>5
<1>14. Pending(file.lines, req, by, at)' BY <1>6, <1>11, <1>12, <1>13 DEF Pending
<1> QED BY <1>4, <1>9, <1>10, <1>14 DEF TableInv, Attributed
-----------------------------------------------------------------------------
(* Who wrote what, once job j has added lines of its table, from the c-th  *)
(* on, to a file of N lines.                                               *)
ByThen(by, N, j) == [p \in Nat |-> IF p > N THEN j ELSE by[p]]
AtThen(at, N, c) == [p \in Nat |-> IF p > N THEN c + (p - N) ELSE at[p]]

(* new is lines and behind it n lines of a table t, from the c-th on, as   *)
(* they may read.                                                          *)
Longer(new, lines, t, c, n, lossy) ==
    /\ new \in Seq(Text) /\ Len(new) = Len(lines) + n
    /\ \A p \in 1..Len(lines) : new[p] = lines[p]
    /\ \A m \in 1..n : Reads(new[Len(lines) + m], t[c + m], lossy)

(* The lines of a file and of the one it grew into. *)
LEMMA LongerLines ==
    ASSUME NEW lines, NEW gone, NEW req, NEW by, NEW at, Written(lines, gone, req, by, at),
           NEW j \in Job, req[j] \in Request, NEW c \in Nat, NEW n \in Nat,
           NEW new, Longer(new, lines, Table(j, req[j]), c, n, j \in gone)
    PROVE  LET N == Len(lines)
               then == ByThen(by, N, j)
               now == AtThen(at, N, c)
           IN  /\ N \in Nat /\ First \in Nat /\ First <= N
               /\ \A p \in Added(new) : p \in Nat /\ (p \in Added(lines) \/ p \in (N + 1)..(N + n))
               /\ \A p \in Added(lines) :
                     /\ p \in Added(new) /\ p <= N /\ new[p] = lines[p]
                     /\ then[p] = by[p] /\ now[p] = at[p] /\ at[p] \in Nat
               /\ \A p \in (N + 1)..(N + n) :
                     /\ p \in Added(new) /\ p > N
                     /\ then[p] = j /\ now[p] = c + (p - N)
                     /\ Reads(new[p], Table(j, req[j])[c + (p - N)], j \in gone)
<1> DEFINE N == Len(lines)
           then == ByThen(by, N, j)
           now == AtThen(at, N, c)
           t == Table(j, req[j])
<1>1. N \in Nat /\ First \in Nat /\ First <= N BY WrittenFacts
<1>2. /\ Len(new) = N + n /\ \A p \in 1..N : new[p] = lines[p]
      /\ \A m \in 1..n : Reads(new[N + m], t[c + m], j \in gone)
  BY DEF Longer
<1>3. \A p \in Added(lines) : at[p] \in Nat /\ p \in Nat BY AddedLine
<1>4. \A p \in Nat : /\ then[p] = IF p > N THEN j ELSE by[p]
                     /\ now[p] = IF p > N THEN c + (p - N) ELSE at[p]
  BY DEF ByThen, AtThen
<1> HIDE DEF N, then, now, t
<1>5. \A p \in Added(new) : p \in Nat /\ (p \in Added(lines) \/ p \in (N + 1)..(N + n))
  BY <1>1, <1>2 DEF Added, N
<1>6. ASSUME NEW p \in Added(lines)
      PROVE  /\ p \in Added(new) /\ p <= N /\ new[p] = lines[p]
             /\ then[p] = by[p] /\ now[p] = at[p] /\ at[p] \in Nat
  <2>1. p \in 1..N /\ p \in Added(new) BY <1>1, <1>2 DEF Added, N
  <2> QED BY <1>1, <1>2, <1>3, <1>4, <2>1
<1>7. ASSUME NEW p \in (N + 1)..(N + n)
      PROVE  /\ p \in Added(new) /\ p > N
             /\ then[p] = j /\ now[p] = c + (p - N)
             /\ Reads(new[p], t[c + (p - N)], j \in gone)
  <2>1. p \in Added(new) /\ p \in Nat /\ p > N BY <1>1, <1>2 DEF Added
  <2>2. p - N \in 1..n /\ N + (p - N) = p BY <1>1
  <2>3. Reads(new[N + (p - N)], t[c + (p - N)], j \in gone) BY <1>2, <2>2
  <2> QED BY <1>4, <2>1, <2>2, <2>3
<1> QED BY <1>1, <1>5, <1>6, <1>7 DEF N, then, now, t

(* A file stays a written one when a job adds the next lines of its table. *)
LEMMA WrittenLonger ==
    ASSUME NEW lines, NEW gone, NEW req, NEW by, NEW at, Written(lines, gone, req, by, at),
           NEW j \in Job, req[j] \in Request, NEW c \in Nat, NEW n \in Nat,
           Begun(lines, by, at, j, c), c + n <= Len(Table(j, req[j])),
           NEW new, Longer(new, lines, Table(j, req[j]), c, n, j \in gone)
    PROVE  /\ Written(new, gone, req, ByThen(by, Len(lines), j), AtThen(at, Len(lines), c))
           /\ Begun(new, ByThen(by, Len(lines), j), AtThen(at, Len(lines), c), j, c + n)
<1> DEFINE N == Len(lines)
           then == ByThen(by, N, j)
           now == AtThen(at, N, c)
           t == Table(j, req[j])
<1>1. /\ N \in Nat /\ First \in Nat /\ First <= N
      /\ \A p \in Added(new) : p \in Nat /\ (p \in Added(lines) \/ p \in (N + 1)..(N + n))
  BY WrittenFacts DEF Longer, Added
<1>2. \A p \in Added(lines) :
          /\ p \in Added(new) /\ p <= N /\ new[p] = lines[p]
          /\ then[p] = by[p] /\ now[p] = at[p] /\ at[p] \in Nat
  BY LongerLines
<1>3. \A p \in (N + 1)..(N + n) :
          /\ p \in Added(new) /\ p > N
          /\ then[p] = j /\ now[p] = c + (p - N)
          /\ Reads(new[p], t[c + (p - N)], j \in gone)
  BY LongerLines
<1>4. Len(t) \in Nat /\ c + n <= Len(t) BY TextFacts, LenProperties
<1>5. new \in Seq(Text) /\ Len(new) = N + n /\ \A p \in 1..N : new[p] = lines[p]
  BY DEF Longer
<1>6. \A p \in 1..First : new[p] = FirstLines[p] BY <1>1, <1>5 DEF Written
<1> HIDE DEF N, then, now, t
<1>7. ASSUME NEW p \in Added(new)
      PROVE  /\ then[p] \in Job /\ req[then[p]] \in Request
             /\ now[p] \in 0..Len(Source(req, then, p))
             /\ IF now[p] = 0 THEN new[p] = Torn
                ELSE Reads(new[p], Source(req, then, p)[now[p]], then[p] \in gone)
  <2>1. CASE p \in Added(lines)
    <3>1. Source(req, then, p) = Source(req, by, p) BY <1>2, <2>1 DEF Source
    <3> QED BY <1>2, <2>1, <3>1 DEF Written
  <2>2. CASE p \in (N + 1)..(N + n)
    <3>1. Source(req, then, p) = t BY <1>3, <2>2 DEF Source, t
    <3>2. c + (p - N) \in 0..Len(t) /\ c + (p - N) # 0 BY <1>1, <1>4, <2>2
    <3> QED BY <1>3, <2>2, <3>1, <3>2
  <2> QED BY <1>1, <2>1, <2>2
<1>8. Ordered(new, then, now)
  <2> SUFFICES ASSUME NEW p \in Added(new), NEW q \in Added(new), then[p] = then[q], p < q,
                      now[p] # 0, now[q] # 0
               PROVE  now[p] < now[q]
    BY DEF Ordered
  <2>1. CASE p \in Added(lines) /\ q \in Added(lines)
    <3>1. by[p] = by[q] /\ now[p] = at[p] /\ now[q] = at[q] BY <1>2, <2>1
    <3> QED BY <2>1, <3>1 DEF Written, Ordered
  <2>2. CASE p \in Added(lines) /\ q \in (N + 1)..(N + n)
    <3>1. by[p] = j /\ now[p] = at[p] /\ at[p] \in Nat /\ now[q] = c + (q - N)
      BY <1>2, <1>3, <2>2
    <3>2. at[p] <= c BY <2>2, <3>1 DEF Begun
    <3> QED BY <1>1, <2>2, <3>1, <3>2
  <2>3. CASE p \in (N + 1)..(N + n) /\ q \in Added(lines)
    <3>1. p > N /\ q <= N BY <1>2, <1>3, <2>3
    <3> QED BY <1>1, <3>1
  <2>4. CASE p \in (N + 1)..(N + n) /\ q \in (N + 1)..(N + n)
    <3>1. now[p] = c + (p - N) /\ now[q] = c + (q - N) BY <1>3, <2>4
    <3> QED BY <1>1, <3>1
  <2> QED BY <1>1, <2>1, <2>2, <2>3, <2>4
<1>9. \A m \in 1..c : \E q \in Added(lines) : then[q] = j /\ now[q] = m
  BY <1>2 DEF Begun
<1>10. ASSUME NEW m \in 1..(c + n), m > c
       PROVE  /\ N + (m - c) \in (N + 1)..(N + n)
              /\ then[N + (m - c)] = j /\ now[N + (m - c)] = m
  <2>1. N + (m - c) \in (N + 1)..(N + n) /\ c + ((N + (m - c)) - N) = m BY <1>1, <1>10
  <2> QED BY <1>3, <2>1
<1>11. Complete(new, then, now)
  <2> SUFFICES ASSUME NEW p \in Added(new), NEW m \in 1..now[p]
               PROVE  \E q \in Added(new) : q <= p /\ then[q] = then[p] /\ now[q] = m
    BY DEF Complete
  <2>1. CASE p \in Added(lines)
    <3>1. now[p] = at[p] /\ then[p] = by[p] BY <1>2, <2>1
    <3>2. PICK q \in Added(lines) : q <= p /\ by[q] = by[p] /\ at[q] = m
      BY <2>1, <3>1 DEF Written, Complete
    <3> QED BY <1>2, <3>1, <3>2
  <2>2. CASE p \in (N + 1)..(N + n)
    <3>1. then[p] = j /\ now[p] = c + (p - N) /\ p > N /\ p - N <= n BY <1>1, <1>3, <2>2
    <3>2. m \in 1..(c + n) BY <1>1, <2>2, <3>1
    <3>3. CASE m <= c
      <4>1. m \in 1..c BY <3>2, <3>3
      <4>2. PICK q \in Added(lines) : then[q] = j /\ now[q] = m BY <1>9, <4>1
      <4>3. q \in Added(new) /\ q <= N BY <1>2
      <4>4. q \in Nat /\ p \in Nat BY <1>1, <4>3
      <4>5. q <= p BY <1>1, <3>1, <4>3, <4>4
      <4> QED BY <3>1, <4>2, <4>3, <4>5
    <3>4. CASE m > c
      <4> DEFINE q == N + (m - c)
      <4>1. q \in (N + 1)..(N + n) /\ then[q] = j /\ now[q] = m BY <1>10, <3>2, <3>4
      <4>2. q <= p BY <1>1, <2>2, <3>1, <3>2
      <4> HIDE DEF q
      <4>3. q \in Added(new) BY <1>3, <4>1
      <4> QED BY <3>1, <4>1, <4>2, <4>3
    <3> QED BY <3>2, <3>3, <3>4
  <2> QED BY <1>1, <2>1, <2>2
<1>12. Begun(new, then, now, j, c + n)
  <2>1. ASSUME NEW p \in Added(new), then[p] = j PROVE now[p] <= c + n
    <3>1. CASE p \in Added(lines)
      <4>1. by[p] = j /\ now[p] = at[p] /\ at[p] \in Nat BY <1>2, <2>1, <3>1
      <4>2. at[p] <= c BY <3>1, <4>1 DEF Begun
      <4> QED BY <4>1, <4>2
    <3>2. CASE p \in (N + 1)..(N + n)
      <4>1. now[p] = c + (p - N) BY <1>3, <3>2
      <4> QED BY <1>1, <3>2, <4>1
    <3> QED BY <1>1, <3>1, <3>2
  <2>2. ASSUME NEW m \in 1..(c + n) PROVE \E p \in Added(new) : then[p] = j /\ now[p] = m
    <3>1. CASE m <= c
      <4>1. m \in 1..c BY <3>1
      <4> QED BY <1>2, <1>9, <4>1
    <3>2. CASE m > c BY <1>3, <1>10, <3>2
    <3> QED BY <3>1, <3>2
  <2> QED BY <2>1, <2>2 DEF Begun
<1>13. First <= Len(new) BY <1>1, <1>5
<1>14. Written(new, gone, req, then, now)
  BY <1>5, <1>6, <1>7, <1>8, <1>11, <1>13 DEF Written
<1> QED BY <1>12, <1>14 DEF N, then, now

(* A line that was cut and left behind belongs to no table. *)
LEMMA AddTorn ==
    ASSUME NEW lines, NEW req, NEW by, NEW at, Attributed(lines, req, by, at),
           NEW j \in Job, InWriteAll(j)
    PROVE  \E then, now : Attributed(Append(lines, Torn), req, then, now)
<1> DEFINE N == Len(lines)
           new == Append(lines, Torn)
           then == ByThen(by, N, j)
           now == ByThen(at, N, 0)
<1>1. Written(lines, lost, req, by, at) BY DEF Attributed
<1>2. N \in Nat /\ First \in Nat /\ First <= N BY <1>1, WrittenFacts
<1>3. /\ new \in Seq(Text) /\ Len(new) = N + 1 /\ new[N + 1] = Torn
      /\ \A p \in 1..N : new[p] = lines[p]
  <2>1. lines \in Seq(Text) /\ Torn \in Text BY <1>1, TextFacts DEF Written
  <2> QED BY <2>1, AppendProperties
<1>4. \A p \in Nat : /\ then[p] = IF p > N THEN j ELSE by[p]
                     /\ now[p] = IF p > N THEN 0 ELSE at[p]
  BY DEF ByThen
<1> HIDE DEF N, new, then, now
<1>5. \A p \in Added(new) : p \in Nat /\ (p \in Added(lines) \/ p = N + 1)
  BY <1>2, <1>3 DEF Added, N
<1>6. ASSUME NEW p \in Added(lines)
      PROVE  /\ p \in Added(new) /\ p <= N /\ new[p] = lines[p]
             /\ then[p] = by[p] /\ now[p] = at[p] /\ at[p] \in Nat
  <2>1. p \in 1..N /\ p \in Added(new) BY <1>2, <1>3 DEF Added, N
  <2>2. at[p] \in Nat BY <1>1, AddedLine
  <2> QED BY <1>2, <1>3, <1>4, <2>1, <2>2
<1>7. then[N + 1] = j /\ now[N + 1] = 0 BY <1>2, <1>4
<1>8. req[j] \in Request /\ Order(req, j) \in told BY DEF Attributed, Pending
<1>9. ASSUME NEW p \in Added(new)
      PROVE  /\ then[p] \in Job /\ req[then[p]] \in Request
             /\ now[p] \in 0..Len(Source(req, then, p))
             /\ IF now[p] = 0 THEN new[p] = Torn
                ELSE Reads(new[p], Source(req, then, p)[now[p]], then[p] \in lost)
  <2>1. CASE p \in Added(lines)
    <3>1. Source(req, then, p) = Source(req, by, p) BY <1>6, <2>1 DEF Source
    <3> QED BY <1>1, <1>6, <2>1, <3>1 DEF Written
  <2>2. CASE p = N + 1
    <3>1. Source(req, then, p) = Table(j, req[j]) BY <1>7, <2>2 DEF Source
    <3>2. Len(Source(req, then, p)) \in Nat BY <1>8, <3>1, TextFacts, LenProperties
    <3> QED BY <1>3, <1>7, <1>8, <2>2, <3>2
  <2> QED BY <1>5, <2>1, <2>2
<1>10. Ordered(new, then, now)
  <2> SUFFICES ASSUME NEW p \in Added(new), NEW q \in Added(new), then[p] = then[q], p < q,
                      now[p] # 0, now[q] # 0
               PROVE  now[p] < now[q]
    BY DEF Ordered
  <2>1. p \in Added(lines) /\ q \in Added(lines) BY <1>5, <1>7
  <2> QED BY <1>1, <1>6, <2>1 DEF Written, Ordered
<1>11. Complete(new, then, now)
  <2> SUFFICES ASSUME NEW p \in Added(new), NEW m \in 1..now[p]
               PROVE  \E q \in Added(new) : q <= p /\ then[q] = then[p] /\ now[q] = m
    BY DEF Complete
  <2>1. p \in Added(lines) BY <1>5, <1>7
  <2>2. PICK q \in Added(lines) : q <= p /\ by[q] = by[p] /\ at[q] = m
    BY <1>1, <1>6, <2>1 DEF Written, Complete
  <2> QED BY <1>6, <2>1, <2>2
<1>12. Written(new, lost, req, then, now)
  <2>1. \A p \in 1..First : new[p] = FirstLines[p] BY <1>1, <1>2, <1>3 DEF Written
  <2>2. First <= Len(new) BY <1>2, <1>3
  <2> QED BY <1>3, <1>9, <1>10, <1>11, <2>1, <2>2 DEF Written
<1>13. Asked(new, req, then)
  <2>1. ASSUME NEW p \in Added(new) PROVE step[then[p]] # "idle" /\ Order(req, then[p]) \in told
    <3>1. CASE p \in Added(lines) BY <1>6, <3>1 DEF Attributed, Asked
    <3>2. CASE p = N + 1 BY <1>7, <1>8, <3>2 DEF InWriteAll
    <3> QED BY <1>5, <3>1, <3>2
  <2> QED BY <2>1 DEF Asked
<1>14. Pending(new, req, then, now)
  <2>1. ASSUME NEW i \in Job, InWriteAll(i)
        PROVE  \E c \in Nat : Writing(new, req, then, now, i, c)
    <3>1. PICK c \in Nat : Writing(lines, req, by, at, i, c) BY <2>1 DEF Attributed, Pending
    <3>2. Begun(lines, by, at, i, c) BY <3>1 DEF Writing
    <3>3. ASSUME NEW p \in Added(new), then[p] = i PROVE now[p] <= c
      <4>1. CASE p \in Added(lines) BY <1>6, <3>2, <3>3, <4>1 DEF Begun
      <4>2. CASE p = N + 1 BY <1>7, <4>2
      <4> QED BY <1>5, <4>1, <4>2
    <3>4. \A m \in 1..c : \E p \in Added(new) : then[p] = i /\ now[p] = m
      BY <1>6, <3>2 DEF Begun
    <3>5. Begun(new, then, now, i, c) BY <3>3, <3>4 DEF Begun
    <3> QED BY <3>1, <3>5 DEF Writing
  <2> QED BY <2>1 DEF Attributed, Pending
<1> QED BY <1>12, <1>13, <1>14 DEF Attributed, new

(* What a job adds to the file: the next lines of those it has to write,   *)
(* as they may read, perhaps behind a line that was cut.                   *)
LEMMA WritesAdd ==
    ASSUME OperationsInv, TableInv, NEW j \in Job, Writes(j)
    PROVE  /\ lost \subseteq lost'
           /\ \E base \in {file.lines, Append(file.lines, Torn)}, n \in 0..Len(todo[j]) :
                 /\ Longer(file'.lines, base, todo[j], 0, n, j \in lost')
                 /\ todo' = [todo EXCEPT ![j] = SubSeq(todo[j], n + 1, Len(todo[j]))]
<1> DEFINE lines == file.lines
           N == Len(lines)
           L == Len(todo[j])
           Adds(base, n) == /\ Longer(file'.lines, base, todo[j], 0, n, j \in lost')
                            /\ todo' = [todo EXCEPT ![j] = SubSeq(todo[j], n + 1, Len(todo[j]))]
<1>1. /\ lines \in Seq(Text) /\ N \in Nat /\ todo \in [Job -> Seq(Text)]
      /\ todo[j] \in Seq(Text) /\ L \in Nat
  BY LenProperties DEF TableInv, Attributed, Written
<1>2. ASSUME NEW n, NEW end, NEW new, NEW own, Wrote(j, n, end, new, own)
      PROVE  /\ file'.lines = new
             /\ todo' = [todo EXCEPT ![j] = SubSeq(todo[j], n + 1, Len(todo[j]))]
  <2>1. file = [lines |-> file.lines, end |-> file.end, recipients |-> file.recipients]
    BY DEF OperationsInv, KeyInv
  <2>2. PICK e : file' = [file EXCEPT !.lines = new, !.end = e] BY <1>2 DEF Wrote
  <2>3. file'.lines = new BY <2>1, <2>2
  <2> QED BY <1>1, <1>2, <2>3 DEF Wrote
<1> HIDE DEF lines, N, L
<1>3. ASSUME NEW base \in Seq(Text), NEW u \in Seq(Text), NEW n \in Nat, Len(u) = n,
             \A m \in 1..n : Reads(u[m], todo[j][m], j \in lost')
      PROVE  Longer(base \o u, base, todo[j], 0, n, j \in lost')
  <2> DEFINE new == base \o u
             M == Len(base)
  <2>1. /\ new \in Seq(Text) /\ Len(new) = M + n /\ M \in Nat
        /\ \A i \in 1..(M + n) : new[i] = IF i <= M THEN base[i] ELSE u[i - M]
    BY <1>3, ConcatProperties, LenProperties
  <2> HIDE DEF new, M
  <2>2. \A p \in 1..M : new[p] = base[p] BY <2>1
  <2>3. ASSUME NEW m \in 1..n PROVE Reads(new[M + m], todo[j][0 + m], j \in lost')
    <3>1. M + m \in 1..(M + n) /\ ~(M + m <= M) /\ (M + m) - M = m /\ 0 + m = m BY <2>1
    <3>2. new[M + m] = u[m] BY <2>1, <3>1
    <3> QED BY <1>3, <3>1, <3>2
  <2> QED BY <2>1, <2>2, <2>3 DEF Longer, new, M
<1>4. ASSUME NEW a \in Nat, NEW n \in Nat, n <= L, a >= 1
      PROVE  /\ SubSeq(todo[j], a, n) \in Seq(Text)
             /\ Len(SubSeq(todo[j], a, n)) = IF a <= n THEN (n - a) + 1 ELSE 0
             /\ \A m \in 1..((n - a) + 1) : SubSeq(todo[j], a, n)[m] = todo[j][(a + m) - 1]
  <2>1. a \in Int /\ n \in Int /\ \A p \in a..n : todo[j][p] \in Text
    BY <1>1, <1>4, ElementOfSeq DEF L
  <2> QED BY <2>1, SubSeqProperties
<1>5. ASSUME NEW n \in 0..L, NEW end \in Ends, WriteAll(j, n, end)
      PROVE  /\ lost' = lost
             /\ \E base \in {lines, Append(lines, Torn)} : Adds(base, n)
  <2>1. PICK base \in {lines, Append(lines, Torn)} : Wrote(j, n, end, base \o SubSeq(todo[j], 1, n), TRUE)
    BY <1>5 DEF WriteAll, lines
  <2>2. base \in Seq(Text)
    <3>1. Torn \in Text BY TextFacts
    <3>2. Append(lines, Torn) \in Seq(Text) BY <1>1, <3>1, AppendProperties
    <3> QED BY <1>1, <2>1, <3>2
  <2> DEFINE u == SubSeq(todo[j], 1, n)
  <2>3. /\ u \in Seq(Text) /\ Len(u) = IF 1 <= n THEN (n - 1) + 1 ELSE 0
        /\ \A m \in 1..((n - 1) + 1) : u[m] = todo[j][(1 + m) - 1]
    <3>1. 1 \in Nat /\ n \in Nat /\ n <= L /\ 1 >= 1 BY <1>1
    <3> HIDE DEF u
    <3> QED BY <1>4, <3>1 DEF u
  <2>4. file'.lines = base \o u /\ todo' = [todo EXCEPT ![j] = SubSeq(todo[j], n + 1, Len(todo[j]))]
    BY <1>2, <2>1
  <2> HIDE DEF u
  <2>5. Len(u) = n /\ n \in Nat BY <1>1, <2>3
  <2>6. ASSUME NEW m \in 1..n PROVE Reads(u[m], todo[j][m], j \in lost')
    <3>1. m \in 1..((n - 1) + 1) /\ (1 + m) - 1 = m BY <2>5
    <3> QED BY <2>3, <3>1 DEF Reads
  <2>7. Longer(base \o u, base, todo[j], 0, n, j \in lost') BY <1>3, <2>2, <2>3, <2>5, <2>6
  <2>8. Adds(base, n) BY <2>4, <2>7
  <2> QED BY <1>5, <2>1, <2>8 DEF WriteAll
<1>6. ASSUME SpliceInside(j) PROVE lost' = lost /\ Adds(lines, 0)
  <2>1. Wrote(j, 0, "inside", lines, FALSE) /\ lost' = lost BY <1>6 DEF SpliceInside, lines
  <2>2. file'.lines = lines /\ todo' = [todo EXCEPT ![j] = SubSeq(todo[j], 0 + 1, Len(todo[j]))]
    BY <1>2, <2>1
  <2>3. Longer(lines, lines, todo[j], 0, 0, j \in lost') BY <1>1 DEF Longer, N
  <2> QED BY <2>1, <2>2, <2>3
<1>7. ASSUME NEW n \in 1..L, NEW end \in Ends, NEW s, Splice(j, n, end, s)
      PROVE  lost \subseteq lost' /\ Adds(lines, n)
  <2> DEFINE line == todo[j][1]
             u == SubSeq(todo[j], 2, n)
             base == Append(lines, s)
             new == base \o u
  <2>1. line = Head(todo[j]) /\ line \in Text /\ n \in Nat /\ n >= 1
    BY <1>1, ElementOfSeq DEF L
  <2>2. /\ Wrote(j, n, end, new, TRUE)
        /\ lost' = IF s \in {Torn, line} THEN lost ELSE lost \cup {j}
    BY <1>7, <2>1 DEF Splice, lines
  <2>3. Reads(s, line, j \in lost') /\ s \in Text
    <3>1. \/ s = Torn
          \/ s = Unknown /\ line.key \notin {"camera", "viewer"}
          \/ s = Line("name", line.val) /\ line.key = "username"
          \/ s = line
      BY <1>7, <2>1 DEF Splice
    <3>2. s \in {Torn, line} \/ j \in lost' BY <2>2
    <3> HIDE DEF line
    <3>3. s \in Text BY <2>1, <3>1, TextFacts
    <3> QED BY <3>1, <3>2, <3>3 DEF Reads
  <2>4. /\ u \in Seq(Text) /\ Len(u) = n - 1
        /\ \A m \in 1..(n - 1) : u[m] = todo[j][m + 1]
    <3>1. /\ u \in Seq(Text) /\ Len(u) = IF 2 <= n THEN (n - 2) + 1 ELSE 0
          /\ \A m \in 1..((n - 2) + 1) : u[m] = todo[j][(2 + m) - 1]
      <4>1. 2 \in Nat /\ n \in Nat /\ n <= L /\ 2 >= 1 BY <1>1
      <4> HIDE DEF u
      <4> QED BY <1>4, <4>1 DEF u
    <3> HIDE DEF u
    <3>2. (n - 2) + 1 = n - 1 /\ \A m \in 1..(n - 1) : (2 + m) - 1 = m + 1 BY <2>1
    <3> QED BY <2>1, <3>1, <3>2
  <2>5. /\ base \in Seq(Text) /\ Len(base) = N + 1 /\ base[N + 1] = s
        /\ \A p \in 1..N : base[p] = lines[p]
    BY <1>1, <2>3, AppendProperties DEF N
  <2> HIDE DEF line, u, base
  <2>6. /\ new \in Seq(Text) /\ Len(new) = (N + 1) + (n - 1)
        /\ \A i \in 1..((N + 1) + (n - 1)) : new[i] = IF i <= N + 1 THEN base[i] ELSE u[i - (N + 1)]
    <3>1. base \in Seq(Text) /\ u \in Seq(Text) BY <2>4, <2>5
    <3>2. /\ base \o u \in Seq(Text) /\ Len(base \o u) = Len(base) + Len(u)
          /\ \A i \in 1..(Len(base) + Len(u)) :
                (base \o u)[i] = IF i <= Len(base) THEN base[i] ELSE u[i - Len(base)]
      BY <3>1, ConcatProperties, Zenon
    <3>3. Len(base) = N + 1 /\ Len(u) = n - 1 BY <2>4, <2>5
    <3> QED BY <3>2, <3>3
  <2> HIDE DEF new
  <2>7. Len(new) = N + n /\ \A p \in 1..N : new[p] = lines[p] BY <1>1, <2>1, <2>5, <2>6
  <2>8. ASSUME NEW m \in 1..n PROVE Reads(new[N + m], todo[j][0 + m], j \in lost')
    <3>1. CASE m = 1
      <4>1. new[N + 1] = s BY <1>1, <2>1, <2>5, <2>6
      <4> QED BY <2>3, <3>1, <4>1 DEF line
    <3>2. CASE m # 1
      <4>1. /\ N + m \in 1..((N + 1) + (n - 1)) /\ ~(N + m <= N + 1)
            /\ (N + m) - (N + 1) = m - 1 /\ m - 1 \in 1..(n - 1) /\ (m - 1) + 1 = m /\ 0 + m = m
        BY <1>1, <2>1, <3>2
      <4>2. new[N + m] = todo[j][m] BY <2>4, <2>6, <4>1
      <4> QED BY <4>1, <4>2 DEF Reads
    <3> QED BY <3>1, <3>2
  <2>9. Longer(new, lines, todo[j], 0, n, j \in lost') BY <2>6, <2>7, <2>8 DEF Longer, N
  <2>10. file'.lines = new /\ todo' = [todo EXCEPT ![j] = SubSeq(todo[j], n + 1, Len(todo[j]))]
    BY <1>2, <2>2
  <2> QED BY <2>2, <2>9, <2>10
<1>8. \A n \in 1..L : n \in 0..L BY <1>1
<1>9. 0 \in 0..L BY <1>1
<1>10. \/ \E n \in 0..L, end \in Ends : WriteAll(j, n, end)
       \/ SpliceInside(j)
       \/ \E n \in 1..L, end \in Ends : \E s : Splice(j, n, end, s)
  BY DEF Writes, L
<1> HIDE DEF Adds
<1>11. /\ lost \subseteq lost'
       /\ \E base \in {lines, Append(lines, Torn)}, n \in 0..L : Adds(base, n)
  BY <1>5, <1>6, <1>7, <1>8, <1>9, <1>10
<1> QED BY <1>11 DEF Adds, lines, L

(* A line may read as it did when more jobs have lost one. *)
LEMMA WrittenMore ==
    ASSUME NEW lines, NEW gone, NEW req, NEW by, NEW at, Written(lines, gone, req, by, at),
           NEW more, gone \subseteq more
    PROVE  Written(lines, more, req, by, at)
<1>1. ASSUME NEW p \in Added(lines), at[p] # 0
      PROVE  Reads(lines[p], Source(req, by, p)[at[p]], by[p] \in more)
  <2>1. Reads(lines[p], Source(req, by, p)[at[p]], by[p] \in gone) BY <1>1 DEF Written
  <2> QED BY <2>1 DEF Reads
<1> QED BY <1>1 DEF Written

(* write_all adds the next lines of a table. *)
LEMMA WritesTable ==
    ASSUME OperationsInv, TableInv, NEW j \in Job, Writes(j)
    PROVE  /\ TableInv'
           /\ Len(file.lines) <= Len(file'.lines)
           /\ \A p \in 1..Len(file.lines) : file'.lines[p] = file.lines[p]
<1>0. PICK lines \in {file.lines, Append(file.lines, Torn)}, n \in 0..Len(todo[j]) :
          /\ Longer(file'.lines, lines, todo[j], 0, n, j \in lost')
          /\ todo' = [todo EXCEPT ![j] = SubSeq(todo[j], n + 1, Len(todo[j]))]
  BY WritesAdd
<1>1. PICK req, by, at : Attributed(lines, req, by, at)
  <2>1. PICK req, b, a : Attributed(file.lines, req, b, a) BY DEF TableInv
  <2>2. InWriteAll(j) BY WritesDoes DEF InWriteAll
  <2> QED BY <1>0, <2>1, <2>2, AddTorn
<1> DEFINE new == file'.lines
           N == Len(lines)
           t == Table(j, req[j])
<1>2. /\ InWriteAll(j) /\ todo \in [Job -> Seq(Text)] /\ step \in [Job -> Label]
      /\ todo' = [todo EXCEPT ![j] = SubSeq(todo[j], n + 1, Len(todo[j]))]
      /\ \E label \in {"append", "line", "rest", "done"} : step' = [step EXCEPT ![j] = label]
      /\ told' = told /\ lost \subseteq lost'
  BY <1>0, WritesDoes, WritesAdd DEF InWriteAll, TableInv, OperationsInv, OperationsTypeOK
<1>3. /\ req[j] \in Request /\ Order(req, j) \in told
      /\ \E c \in Nat : Writing(lines, req, by, at, j, c)
  BY <1>1, <1>2 DEF Pending, Attributed
<1>4. PICK c \in Nat : Writing(lines, req, by, at, j, c) BY <1>3
<1>5. /\ c \in 0..Len(t) /\ Len(todo[j]) = Len(t) - c
      /\ \A m \in 1..Len(todo[j]) : todo[j][m] = t[c + m]
      /\ Begun(lines, by, at, j, c)
  BY <1>4 DEF Writing
<1>6. /\ Len(t) \in Nat /\ N \in Nat /\ n \in Nat /\ n <= Len(todo[j])
      /\ todo[j] \in Seq(Text) /\ Len(todo[j]) \in Nat /\ lines \in Seq(Text)
  BY <1>0, <1>1, <1>2, <1>3, TextFacts, LenProperties DEF Written, Attributed
<1> HIDE DEF t
<1>7. c + n <= Len(t) BY <1>5, <1>6
<1>8. Longer(new, lines, t, c, n, j \in lost')
  <2>1. ASSUME NEW m \in 1..n PROVE Reads(new[N + m], t[c + m], j \in lost')
    <3>1. m \in 1..Len(todo[j]) /\ 0 + m = m BY <1>6
    <3>2. Reads(new[N + m], todo[j][0 + m], j \in lost') BY <1>0 DEF Longer
    <3> QED BY <1>5, <3>1, <3>2
  <2> QED BY <1>0, <2>1 DEF Longer
<1>9. PICK then, now : then = ByThen(by, N, j) /\ now = AtThen(at, N, c) OBVIOUS
<1>10. Written(new, lost', req, then, now) /\ Begun(new, then, now, j, c + n)
  <2>1. Written(lines, lost', req, by, at) BY <1>1, <1>2, WrittenMore DEF Attributed
  <2> QED BY <1>3, <1>5, <1>6, <1>7, <1>8, <1>9, <2>1, WrittenLonger DEF t
<1>11. \A p \in Added(new) : p \in Added(lines) \/ p \in (N + 1)..(N + n)
  BY <1>6, <1>8, TextFacts DEF Added, Longer
<1>12. \A p \in Added(lines) : p \in Added(new) /\ then[p] = by[p] /\ now[p] = at[p]
  <2>1. \A p \in Added(lines) : p \in Added(new) /\ p \in Nat /\ ~(p > N)
    BY <1>6, <1>8, TextFacts DEF Added, Longer
  <2> QED BY <1>9, <2>1 DEF ByThen, AtThen
<1>13. \A p \in (N + 1)..(N + n) : then[p] = j
  <2>1. \A p \in (N + 1)..(N + n) : p \in Nat /\ p > N BY <1>6
  <2> QED BY <1>9, <2>1 DEF ByThen
<1>14. (todo \in [Job -> Seq(Text)])'
  <2>1. n + 1 \in Int /\ Len(todo[j]) \in Int /\ \A p \in (n + 1)..Len(todo[j]) : todo[j][p] \in Text
    BY <1>6, ElementOfSeq
  <2>2. SubSeq(todo[j], n + 1, Len(todo[j])) \in Seq(Text) BY <2>1, SubSeqProperties
  <2> QED BY <1>2, <2>2
<1>15. Asked(file.lines, req, then)'
  <2>1. ASSUME NEW p \in Added(new)
        PROVE  step'[then[p]] # "idle" /\ Order(req, then[p]) \in told'
    <3>1. CASE p \in Added(lines)
      <4>1. then[p] = by[p] /\ by[p] \in Job BY <1>1, <1>11, <1>12, <1>13, <3>1 DEF Written, Attributed
      <4>2. step[by[p]] # "idle" /\ Order(req, by[p]) \in told BY <1>1, <3>1 DEF Asked, Attributed
      <4> QED BY <1>2, <4>1, <4>2
    <3>2. CASE p \in (N + 1)..(N + n)
      <4>1. then[p] = j BY <1>11, <1>12, <1>13, <3>2
      <4> QED BY <1>2, <1>3, <4>1
    <3> QED BY <1>11, <1>12, <1>13, <3>1, <3>2
  <2> QED BY <2>1 DEF Asked
<1>16. Writing(file.lines, req, then, now, j, c + n)'
  <2> DEFINE rest == SubSeq(todo[j], n + 1, Len(todo[j]))
  <2>1. n + 1 \in Int /\ Len(todo[j]) \in Int /\ \A p \in (n + 1)..Len(todo[j]) : todo[j][p] \in Text
    BY <1>6, ElementOfSeq
  <2>2. /\ Len(rest) = IF n + 1 <= Len(todo[j]) THEN (Len(todo[j]) - (n + 1)) + 1 ELSE 0
        /\ \A m \in 1..((Len(todo[j]) - (n + 1)) + 1) : rest[m] = todo[j][((n + 1) + m) - 1]
    BY <2>1, SubSeqProperties
  <2> HIDE DEF rest
  <2>3. Len(rest) = Len(todo[j]) - n BY <1>6, <2>2
  <2>4. c + n \in 0..Len(t) /\ Len(rest) = Len(t) - (c + n) BY <1>5, <1>6, <1>7, <2>3
  <2>5. ASSUME NEW m \in 1..Len(rest) PROVE rest[m] = t[(c + n) + m]
    <3>1. /\ m \in 1..((Len(todo[j]) - (n + 1)) + 1) /\ ((n + 1) + m) - 1 = n + m
          /\ n + m \in 1..Len(todo[j]) /\ c + (n + m) = (c + n) + m
      BY <1>6, <2>3
    <3> QED BY <1>5, <2>2, <3>1
  <2>6. todo'[j] = rest BY <1>2 DEF rest
  <2> QED BY <1>10, <2>4, <2>5, <2>6 DEF Writing, t
<1>17. ASSUME NEW i \in Job, InWriteAll(i)', i # j
       PROVE  /\ req[i] \in Request /\ Order(req, i) \in told'
              /\ \E k \in Nat : Writing(file.lines, req, then, now, i, k)'
  <2>1. InWriteAll(i) /\ todo'[i] = todo[i] BY <1>2, <1>17 DEF InWriteAll
  <2>2. PICK k \in Nat : Writing(lines, req, by, at, i, k) BY <1>1, <2>1 DEF Pending, Attributed
  <2>3. Begun(lines, by, at, i, k) BY <2>2 DEF Writing
  <2>4. Begun(new, then, now, i, k)
    <3>1. ASSUME NEW p \in Added(new), then[p] = i PROVE now[p] <= k
      <4>1. p \in Added(lines) BY <1>11, <1>12, <1>13, <1>17, <3>1
      <4> QED BY <1>11, <1>12, <1>13, <2>3, <3>1, <4>1 DEF Begun
    <3>2. \A m \in 1..k : \E p \in Added(new) : then[p] = i /\ now[p] = m
      BY <1>11, <1>12, <1>13, <2>3 DEF Begun
    <3> QED BY <3>1, <3>2 DEF Begun
  <2>5. Writing(file.lines, req, then, now, i, k)' BY <2>1, <2>2, <2>4 DEF Writing
  <2>6. req[i] \in Request /\ Order(req, i) \in told' BY <1>1, <1>2, <2>1 DEF Pending, Attributed
  <2> QED BY <2>5, <2>6
<1>18. Pending(file.lines, req, then, now)'
  <2>1. c + n \in Nat BY <1>6
  <2>2. Order(req, j) \in told' BY <1>2, <1>3
  <2> QED BY <1>3, <1>16, <1>17, <2>1, <2>2 DEF Pending
<1>19. TableInv' BY <1>10, <1>14, <1>15, <1>18 DEF TableInv, Attributed
<1>20. N <= Len(new) /\ \A p \in 1..N : new[p] = lines[p]
  BY <1>6, <1>8 DEF Longer
<1>21. /\ Len(file.lines) \in Nat /\ Len(file.lines) <= N
       /\ \A p \in 1..Len(file.lines) : lines[p] = file.lines[p]
  <2>1. file.lines \in Seq(Text) /\ Torn \in Text BY TextFacts DEF TableInv, Attributed, Written
  <2>2. Len(file.lines) \in Nat BY <2>1, LenProperties
  <2>3. CASE lines = file.lines BY <2>2, <2>3
  <2>4. CASE lines = Append(file.lines, Torn) BY <2>1, <2>2, <2>4, AppendProperties
  <2> QED BY <1>0, <2>3, <2>4
<1>22. /\ Len(file.lines) <= Len(new) /\ Len(new) \in Nat
       /\ \A p \in 1..Len(file.lines) : p \in 1..N /\ new[p] = file.lines[p]
  <2>1. Len(new) \in Nat BY <1>8, LenProperties DEF Longer
  <2>2. \A p \in 1..Len(file.lines) : p \in 1..N BY <1>6, <1>21
  <2> QED BY <1>6, <1>20, <1>21, <2>1, <2>2
<1> QED BY <1>19, <1>22
-----------------------------------------------------------------------------
(* Two files that begin alike have the same first lines. *)
LEMMA SamePart ==
    ASSUME NEW a \in Seq(Text), NEW b \in Seq(Text), NEW n \in Nat,
           n <= Len(a), n <= Len(b), \A p \in 1..n : a[p] = b[p]
    PROVE  SubSeq(a, 1, n) = SubSeq(b, 1, n)
<1> DEFINE s == SubSeq(b, 1, n)
<1>1. Len(b) \in Nat /\ 1 \in Int /\ n \in Int /\ \A p \in 1..n : b[p] \in Text
  BY LenProperties, ElementOfSeq
<1>2. /\ s \in Seq(Text) /\ Len(s) = IF 1 <= n THEN (n - 1) + 1 ELSE 0
      /\ \A p \in 1..((n - 1) + 1) : s[p] = b[(1 + p) - 1]
  BY <1>1, SubSeqProperties
<1> HIDE DEF s
<1>3. (n - 1) + 1 = n /\ (1 <= n \/ n = 0) /\ \A p \in 1..n : (1 + p) - 1 = p OBVIOUS
<1>4. Len(s) = n /\ \A p \in 1..n : s[p] = a[p] BY <1>2, <1>3
<1>5. SubSeq(a, 1, n) = s BY <1>2, <1>4, PartIs
<1> QED BY <1>5 DEF s

(* What the operator's repair leaves: the longest part that loads, and so  *)
(* no less than any part that was ever loaded, or than the first file.     *)
LEMMA RepairLeaves ==
    ASSUME TableInv, OperationsInv, RepairFile
    PROVE  \E n \in First..Len(file.lines) :
              /\ file'.lines = SubSeq(file.lines, 1, n)
              /\ \A m \in First..Len(file.lines) : Loads(Loaded(file.lines, m)) => m <= n
<1> DEFINE lines == file.lines
           prefix(n) == [file EXCEPT !.lines = SubSeq(@, 1, n), !.end = EndsAt("newline")]
           good == {n \in First..Len(lines) : Loads(prefix(n))}
<1>1. PICK n \in good : (\A m \in good : m <= n) /\ file' = prefix(n) BY DEF RepairFile, First
<1>2. file = [lines |-> file.lines, end |-> file.end, recipients |-> file.recipients]
  BY DEF OperationsInv, KeyInv
<1>3. ASSUME NEW m
      PROVE  /\ prefix(m).lines = SubSeq(lines, 1, m) /\ prefix(m).recipients = file.recipients
             /\ prefix(m).end = EndsAt("newline")
  <2>1. DOMAIN file = {"lines", "end", "recipients"} BY <1>2
  <2> QED BY <2>1
<1>4. file.recipients # {}
  <2>1. prefix(n).recipients # {} BY <1>1, LoadsForSomebody
  <2> QED BY <1>3, <2>1
<1> HIDE DEF prefix
<1>5. ASSUME NEW m \in First..Len(lines), Loads(Loaded(lines, m)) PROVE m <= n
  <2>1. /\ prefix(m).lines = Loaded(lines, m).lines /\ prefix(m).recipients # {}
        /\ prefix(m).end.at # "inside"
    BY <1>3, <1>4 DEF Loaded, EndsAt
  <2>2. Loads(prefix(m)) BY <1>5, <2>1, LoadsByLines
  <2> QED BY <1>1, <2>2
<1>6. file'.lines = SubSeq(lines, 1, n) BY <1>1, <1>3
<1> QED BY <1>1, <1>5, <1>6

(* What a repair leaves is a written file. *)
LEMMA RepairTable ==
    ASSUME OperationsInv, TableInv, RepairFile
    PROVE  TableInv'
<1>1. PICK req, by, at : Attributed(file.lines, req, by, at) BY DEF TableInv
<1>2. PICK n \in First..Len(file.lines) : file'.lines = SubSeq(file.lines, 1, n)
  BY RepairLeaves
<1>3. PartOf(file'.lines, file.lines, n) BY <1>2 DEF PartOf
<1>4. Written(file'.lines, lost, req, by, at) /\ Len(file'.lines) = n
  BY <1>1, <1>3, WrittenPart DEF Attributed
<1>5. /\ step' = step /\ told' = told /\ todo' = todo /\ lost' = lost
      /\ \A j \in Job : ~InWriteAll(j)
  BY DEF RepairFile, InWriteAll
<1>6. Asked(file.lines, req, by)'
  <2>1. First \in Nat /\ Len(file.lines) \in Nat BY <1>1, WrittenFacts DEF Attributed
  <2>2. Added(file'.lines) \subseteq Added(file.lines) BY <1>2, <1>4, <2>1 DEF Added
  <2> QED BY <1>1, <1>5, <2>2 DEF Asked, Attributed
<1>7. Pending(file.lines, req, by, at)' BY <1>5 DEF Pending, InWriteAll
<1>8. (todo \in [Job -> Seq(Text)])' BY <1>5 DEF TableInv
<1> QED BY <1>4, <1>5, <1>6, <1>7, <1>8 DEF TableInv, Attributed

(* The steps, by what they do to tables and accounts. *)
LEMMA StepKinds ==
    ASSUME OperationsInv, [Next]_vars
    PROVE  \/ \E j \in Job, r \in Request : AddAccount(j, r)
           \/ \E j \in Job : Writes(j)
           \/ RepairFile
           \/ Quiet /\ (Start \/ Stop \/ Reload \/ server' = server)
<1> USE DEF OperationsInv, OperationsTypeOK, Goto, Quiet, InWriteAll, Label,
           vars, configVars, serverVars, keyVars, decryptVars
<1> DEFINE Calm == Quiet /\ (Start \/ Stop \/ Reload \/ server' = server)
<1>1. ASSUME NEW j \in Job, NEW k \in Key, NEW p \in IdentityPath \cup {None}, Genkey(j, k, p)
      PROVE  Calm
  BY <1>1 DEF Genkey
<1>2. ASSUME NEW j \in Job,
             CreateIdentity(j) \/ WriteIdentity(j) \/ PrintSecret(j) \/ ShowRecipient(j)
      PROVE  Calm
  BY <1>2 DEF CreateIdentity, WriteIdentity, PutIdentity, PrintSecret, ShowRecipient
<1>3. ASSUME NEW j \in Job, NEW k \in Key, NEW o \in {None, "out"}, NEW files \in Batch,
             Decrypt(j, k, o, files)
      PROVE  Calm
  BY <1>3 DEF Decrypt
<1>4. ASSUME NEW j \in Job, NextInput(j) PROVE Calm
  BY <1>4 DEF NextInput
<1>5. ASSUME NEW j \in Job, CopyBlock(j) \/ EndOfClip(j) \/ DecryptError(j) PROVE Calm
  BY <1>5 DEF CopyBlock, EndOfClip, DecryptError
<1>6. ASSUME NEW j \in Job, Kill(j) PROVE Calm
  BY <1>6 DEF Kill
<1>7. ASSUME Start \/ Stop \/ Sighup \/ Reload PROVE Calm
  BY <1>7 DEF Start, Stop, Sighup, Reload
<1>8. ASSUME NEW c \in Clip, Store(c) \/ \E n \in 0..Blocks : Download(c, n) PROVE Calm
  BY <1>8 DEF Store, Download
<1>9. ASSUME NEW keys \in SUBSET shown, EditRecipients(keys) PROVE Calm
  BY <1>9 DEF EditRecipients, KeyInv
<1>10. ASSUME UNCHANGED vars PROVE Calm
  BY <1>10
<1> HIDE DEF Calm, OperationsInv, OperationsTypeOK, Goto, Quiet, InWriteAll, Label,
           vars, configVars, serverVars, keyVars, decryptVars
<1>11. \/ \E j \in Job, r \in Request : AddAccount(j, r)
       \/ \E j \in Job : Writes(j)
       \/ RepairFile
       \/ Calm
  BY <1>1, <1>2, <1>3, <1>4, <1>5, <1>6, <1>7, <1>8, <1>9, <1>10 DEF Next, Command, Serve
<1> QED BY <1>11 DEF Calm

(* Tables stay in order. *)
LEMMA TableStep == OperationsInv /\ TableInv /\ [Next]_vars => TableInv'
BY StepKinds, QuietTable, AddAccountTable, WritesTable, RepairTable
-----------------------------------------------------------------------------
(* The whole file is the part of it that ends with its last line. *)
LEMMA WholeFile ==
    ASSUME TableInv, Loads(file)
    PROVE  /\ Len(file.lines) \in First..Len(file.lines)
           /\ Loads(Loaded(file.lines, Len(file.lines)))
           /\ Build(ParseStr(Loaded(file.lines, Len(file.lines)))) = Build(ParseStr(file))
<1>1. PICK req, by, at : Written(file.lines, lost, req, by, at) BY DEF TableInv, Attributed
<1>2. Len(file.lines) \in First..Len(file.lines) BY <1>1, WrittenFacts
<1> DEFINE whole == Loaded(file.lines, Len(file.lines))
<1>3. whole.lines = file.lines BY <1>1, SubSeqFull DEF Loaded, Written
<1>4. whole.recipients # {} /\ whole.end.at # "inside" BY DEF Loaded, EndsAt
<1> HIDE DEF whole
<1>5. Loads(whole) /\ Build(ParseStr(whole)) = Build(ParseStr(file)) BY <1>3, <1>4, LoadsByLines
<1> QED BY <1>2, <1>5 DEF whole

(* The accounts a process takes up in a start or a reload. *)
LEMMA TakenUp ==
    ASSUME OperationsInv, Start \/ Reload
    PROVE  /\ server' # None => server'.accounts =
                 IF Loads(file) THEN Build(ParseStr(file)) ELSE server.accounts
           /\ Start => server = None /\ Loads(file)
           /\ Reload => server # None
<1>1. CASE Start BY <1>1 DEF Start, Process, Reload, OperationsInv, OperationsTypeOK
<1>2. CASE Reload
  <2>1. server # None BY <1>2 DEF Reload, OperationsInv, OperationsTypeOK
  <2>2. server = [accounts |-> server.accounts, recipients |-> server.recipients]
    BY <2>1 DEF OperationsInv, KeyInv
  <2>3. server'.accounts = IF Loads(file) THEN Process(file).accounts ELSE server.accounts
    BY <1>2, <2>2 DEF Reload
  <2>4. Process(file).accounts = Build(ParseStr(file)) BY DEF Process
  <2>5. ~Start BY <2>1 DEF Start
  <2> QED BY <2>1, <2>3, <2>4, <2>5
<1> QED BY <1>1, <1>2

(* The accounts in force remain those of a part of the file that loads. *)
LEMMA AccountsStep == OperationsInv /\ TableInv /\ AccountsInv /\ [Next]_vars => AccountsInv'
<1> SUFFICES ASSUME OperationsInv, TableInv, AccountsInv, [Next]_vars PROVE AccountsInv'
  OBVIOUS
<1>1. TableInv' BY TableStep
<1>2. PICK req, by, at : Written(file.lines, lost, req, by, at) BY DEF TableInv, Attributed
<1>3. \E q, b, a : Written(file'.lines, lost', q, b, a) BY <1>1 DEF TableInv, Attributed
<1>4. /\ file.lines \in Seq(Text) /\ file'.lines \in Seq(Text) /\ First \in Nat
      /\ Len(file.lines) \in Nat /\ Len(file'.lines) \in Nat
  BY <1>2, <1>3, TextFacts, LenProperties DEF Written
<1>5. ASSUME server' = server,
             \A m \in First..Len(file.lines) : Loads(Loaded(file.lines, m)) =>
                /\ m <= Len(file'.lines)
                /\ \A p \in 1..m : file'.lines[p] = file.lines[p]
      PROVE  AccountsInv'
  <2> SUFFICES ASSUME server # None
               PROVE  \E n \in First..Len(file'.lines) :
                         /\ Loads(Loaded(file'.lines, n))
                         /\ server.accounts = Build(ParseStr(Loaded(file'.lines, n)))
    BY <1>5 DEF AccountsInv
  <2>1. PICK n \in First..Len(file.lines) :
            /\ Loads(Loaded(file.lines, n))
            /\ server.accounts = Build(ParseStr(Loaded(file.lines, n)))
    BY DEF AccountsInv
  <2>2. n \in Nat /\ n <= Len(file.lines) /\ n <= Len(file'.lines) /\ n \in First..Len(file'.lines)
    BY <1>4, <1>5, <2>1
  <2>3. SubSeq(file'.lines, 1, n) = SubSeq(file.lines, 1, n)
    BY <1>4, <1>5, <2>1, <2>2, SamePart
  <2>4. Loaded(file'.lines, n) = Loaded(file.lines, n) BY <2>3 DEF Loaded
  <2> QED BY <2>1, <2>2, <2>4
<1>6. ASSUME server' = server, file'.lines = file.lines PROVE AccountsInv'
  BY <1>6 DEF AccountsInv
<1>7. ASSUME NEW j \in Job, NEW r \in Request, AddAccount(j, r) PROVE AccountsInv'
  BY <1>6, <1>7 DEF AddAccount, serverVars
<1>8. ASSUME NEW j \in Job, Writes(j) PROVE AccountsInv'
  <2>1. /\ Len(file.lines) <= Len(file'.lines)
        /\ \A p \in 1..Len(file.lines) : file'.lines[p] = file.lines[p]
    BY <1>8, WritesTable
  <2>2. server' = server BY <1>8, WritesDoes DEF serverVars
  <2>3. ASSUME NEW m \in First..Len(file.lines)
        PROVE  m <= Len(file'.lines) /\ \A p \in 1..m : file'.lines[p] = file.lines[p]
    BY <1>4, <2>1
  <2> QED BY <1>5, <2>2, <2>3
<1>9. ASSUME RepairFile PROVE AccountsInv'
  <2>1. PICK n \in First..Len(file.lines) :
            /\ file'.lines = SubSeq(file.lines, 1, n)
            /\ \A m \in First..Len(file.lines) : Loads(Loaded(file.lines, m)) => m <= n
    BY <1>9, RepairLeaves
  <2>2. PartOf(file'.lines, file.lines, n) BY <2>1 DEF PartOf
  <2>3. Len(file'.lines) = n /\ \A p \in 1..n : file'.lines[p] = file.lines[p]
    BY <1>2, <2>2, WrittenPart
  <2>4. server' = server BY <1>9 DEF RepairFile, serverVars
  <2>5. ASSUME NEW m \in First..Len(file.lines), Loads(Loaded(file.lines, m))
        PROVE  m <= Len(file'.lines) /\ \A p \in 1..m : file'.lines[p] = file.lines[p]
    <3>1. m <= n /\ m \in Nat /\ n \in Nat BY <1>4, <2>1, <2>5
    <3>2. \A p \in 1..m : p \in 1..n BY <3>1
    <3> QED BY <2>3, <3>1, <3>2
  <2> QED BY <1>5, <2>4, <2>5
<1>10. ASSUME Quiet, Start \/ Reload PROVE AccountsInv'
  <2>1. file'.lines = file.lines BY <1>10 DEF Quiet
  <2>2. CASE ~Loads(file)
    <3>1. Reload BY <1>10, <2>2, TakenUp
    <3>2. server # None /\ (server' # None => server'.accounts = server.accounts)
      BY <2>2, <3>1, TakenUp
    <3> QED BY <2>1, <3>2 DEF AccountsInv
  <2>3. CASE Loads(file)
    <3>1. server' # None => server'.accounts = Build(ParseStr(file)) BY <1>10, <2>3, TakenUp
    <3> QED BY <2>1, <2>3, <3>1, WholeFile DEF AccountsInv
  <2> QED BY <2>2, <2>3
<1>11. ASSUME Stop PROVE AccountsInv'
  BY <1>11 DEF Stop, AccountsInv
<1>12. ASSUME Quiet, server' = server PROVE AccountsInv'
  BY <1>6, <1>12 DEF Quiet
<1> QED BY <1>7, <1>8, <1>9, <1>10, <1>11, <1>12, StepKinds

(* The whole invariant holds at the start. *)
LEMMA ConfigInit == Init => ConfigInv
<1>1. Init => AccountsInv BY DEF Init, AccountsInv
<1> QED BY <1>1, InvInit, TableInit DEF ConfigInv

(* Every step keeps the whole invariant. *)
LEMMA ConfigStep == ConfigInv /\ [Next]_vars => ConfigInv'
BY InvStep, TableStep, AccountsStep DEF ConfigInv

(* What add-camera and add-viewer append can at all times be told apart,   *)
(* although write_all may come out short at any byte and the text of two   *)
(* commands run into one line: every line behind the first file was ended  *)
(* by one command as a line of its table, in their order and without gaps, *)
(* or is a cut line that TOML refuses; and where it reads as something     *)
(* else, that command is on record.  The accounts in force are those of a  *)
(* part of the file that loads.                                            *)
THEOREM TablesAttributable == Spec => [](TableInv /\ AccountsInv)
<1>1. ConfigInv => TableInv /\ AccountsInv BY DEF ConfigInv
<1> QED BY <1>1, ConfigInit, ConfigStep, PTL DEF Spec

(* An account build made and the server has in force is one of the first   *)
(* file or has the hash, the role, the scope and the login of one request  *)
(* of add-camera or add-viewer, names as TOML reads them.  A camera whose  *)
(* command is on record may have lost one of its two names, and goes by    *)
(* the other; all else that is torn, interleaved or repeated does not load.*)
THEOREM AccountsInForceAsTold == Spec => []AccountsAsTold
<1>1. ASSUME ConfigInv PROVE AccountsAsTold
  <2> SUFFICES ASSUME server # None, NEW login \in DOMAIN server.accounts
               PROVE  login \in FirstLogins \/ AsTold(login, server.accounts[login])
    BY DEF AccountsAsTold
  <2>1. PICK n \in First..Len(file.lines) :
            /\ Loads(Loaded(file.lines, n))
            /\ server.accounts = Build(ParseStr(Loaded(file.lines, n)))
    BY <1>1 DEF ConfigInv, AccountsInv
  <2>2. PICK req, by, at : Written(file.lines, lost, req, by, at) /\ Asked(file.lines, req, by)
    BY <1>1 DEF ConfigInv, TableInv, Attributed
  <2> DEFINE f == Loaded(file.lines, n)
  <2>3. f.lines = SubSeq(file.lines, 1, n) BY DEF Loaded
  <2>4. PartOf(f.lines, file.lines, n) BY <2>1, <2>3 DEF PartOf
  <2> HIDE DEF f
  <2>5. Written(f.lines, lost, req, by, at) /\ Len(f.lines) = n BY <2>2, <2>4, WrittenPart
  <2>6. First \in Nat /\ Len(file.lines) \in Nat BY <2>2, WrittenFacts
  <2>7. Added(f.lines) \subseteq Added(file.lines) BY <2>1, <2>5, <2>6 DEF Added
  <2>8. \A p \in Added(f.lines) :
            [request |-> req[by[p]], hash |-> HashPassword(req[by[p]].password, by[p])] \in told
    BY <2>2, <2>7 DEF Asked, Order
  <2>9. Loads(f) /\ server.accounts = Build(ParseStr(f)) BY <2>1 DEF f
  <2> QED BY <2>5, <2>8, <2>9, FileAsTold
<1> QED BY <1>1, ConfigInit, ConfigStep, PTL DEF Spec

(* Under a running server a reload takes no account away, changes neither  *)
(* its password nor its role nor its scope, and drops no TLS rule,         *)
(* whatever was appended to the file since it was last read.               *)
THEOREM ReloadsKeepAccounts == Spec => AccountsKept
<1> DEFINE Keeps ==
       server # None /\ server' # None =>
          \A login \in DOMAIN server.accounts :
              /\ login \in DOMAIN server'.accounts
              /\ LET old == server.accounts[login]
                     new == server'.accounts[login]
                 IN  /\ new.hash = old.hash /\ new.kind = old.kind /\ new.view = old.view
                     /\ old.tls => new.tls
<1>1. ASSUME ConfigInv, [Next]_vars PROVE Keeps
  <2>1. ASSUME server # None, server'.accounts = server.accounts PROVE Keeps BY <2>1
  <2>2. ASSUME server' = server PROVE Keeps BY <2>2
  <2>3. ASSUME Start \/ Stop PROVE Keeps BY <2>3 DEF Start, Stop
  <2>4. ASSUME Reload PROVE Keeps
    <3> SUFFICES ASSUME server # None, server' # None, Loads(file) PROVE Keeps
      BY <1>1, <2>1, <2>4, TakenUp DEF ConfigInv
    <3>1. server'.accounts = Build(ParseStr(file)) BY <1>1, <2>4, TakenUp DEF ConfigInv
    <3>2. PICK n \in First..Len(file.lines) :
              /\ Loads(Loaded(file.lines, n))
              /\ server.accounts = Build(ParseStr(Loaded(file.lines, n)))
      BY <1>1 DEF ConfigInv, AccountsInv
    <3>3. PICK req, by, at : Written(file.lines, lost, req, by, at)
      BY <1>1 DEF ConfigInv, TableInv, Attributed
    <3> DEFINE e == Loaded(file.lines, n)
    <3>4. e.lines = SubSeq(file.lines, 1, n) BY DEF Loaded
    <3>5. PartOf(e.lines, file.lines, n) BY <3>2, <3>4 DEF PartOf
    <3>6. Loads(e) /\ server.accounts = Build(ParseStr(e)) BY <3>2
    <3> HIDE DEF e
    <3>7. ASSUME NEW login \in DOMAIN server.accounts
          PROVE  /\ login \in DOMAIN server'.accounts
                 /\ LET old == server.accounts[login]
                        new == server'.accounts[login]
                    IN  /\ new.hash = old.hash /\ new.kind = old.kind /\ new.view = old.view
                        /\ old.tls => new.tls
      <4>1. login \in DOMAIN Build(ParseStr(e)) BY <3>6
      <4>2. /\ login \in DOMAIN Build(ParseStr(file))
            /\ LET old == Build(ParseStr(e))[login]
                   new == Build(ParseStr(file))[login]
               IN  /\ new.hash = old.hash /\ new.kind = old.kind /\ new.view = old.view
                   /\ old.tls => new.tls
        BY <3>3, <3>5, <3>6, <4>1, LoadKeeps
      <4> QED BY <3>1, <3>6, <4>2
    <3> QED BY <3>7
  <2>5. ASSUME NEW j \in Job, NEW r \in Request, AddAccount(j, r) PROVE Keeps
    BY <2>2, <2>5 DEF AddAccount, serverVars
  <2>6. ASSUME NEW j \in Job, Writes(j) PROVE Keeps
    BY <1>1, <2>2, <2>6, WritesDoes DEF serverVars, ConfigInv
  <2>7. ASSUME RepairFile PROVE Keeps BY <2>2, <2>7 DEF RepairFile, serverVars
  <2> HIDE DEF Keeps
  <2> QED BY <1>1, <2>2, <2>3, <2>4, <2>5, <2>6, <2>7, StepKinds DEF ConfigInv
<1>2. ConfigInv /\ [Next]_vars => [Keeps]_vars BY <1>1
<1> QED BY <1>2, ConfigInit, ConfigStep, PTL DEF Spec, AccountsKept
=============================================================================
