----------------------------- MODULE PathProofs -----------------------------
(***************************************************************************)
(* Lemmas about the operators of ScopedAccess that work on paths: what     *)
(* Canonical, Place and Normalize answer for every path and every tree.    *)
(*                                                                         *)
(* Canonical and Normalize are recursive functions over the names of a     *)
(* path.  Induction and Recursion below carry over to them what the        *)
(* library proves of sets: the natural numbers are well-founded under <.   *)
(***************************************************************************)
EXTENDS ScopedAccess, SequenceTheorems, WellFoundedInduction, TLAPS

(* Induction over the natural numbers, with a set in place of a formula: a *)
(* smallest counterexample would have a predecessor.                       *)
LEMMA Induction ==
    ASSUME NEW S, 0 \in S, \A n \in Nat : n \in S => n + 1 \in S
    PROVE  Nat \subseteq S
<1> DEFINE T == Nat \ S
<1> SUFFICES ASSUME T # {} PROVE FALSE OBVIOUS
<1>1. PICK x \in T : \A y \in T : ~(<<y, x>> \in OpToRel(<, Nat))
  <2>1. T \subseteq Nat OBVIOUS
  <2> HIDE DEF T
  <2> QED BY <2>1, NatLessThanWellFounded, WFMin, Zenon
<1>2. x # 0 /\ x - 1 \in Nat /\ x - 1 < x OBVIOUS
<1>3. x - 1 \notin T BY <1>1, <1>2 DEF OpToRel
<1> QED BY <1>2, <1>3

(* A set of numbers up to N that has 0 has a greatest element. *)
LEMMA Greatest ==
    ASSUME NEW N \in Nat, NEW S \in SUBSET (0..N), 0 \in S
    PROVE  \E m \in S : \A n \in S : n <= m
<1> DEFINE T == {N - n : n \in S}
<1>1. T \subseteq Nat /\ T # {}
  <2>1. N - 0 \in T OBVIOUS
  <2>2. ASSUME NEW n \in S PROVE N - n \in Nat OBVIOUS
  <2> QED BY <2>1, <2>2
<1>2. PICK x \in T : \A y \in T : ~(<<y, x>> \in OpToRel(<, Nat))
  <2> HIDE DEF T
  <2> QED BY <1>1, NatLessThanWellFounded, WFMin, Zenon
<1>3. PICK m \in S : x = N - m OBVIOUS
<1>4. ASSUME NEW n \in S PROVE n <= m
  <2>1. N - n \in T OBVIOUS
  <2>2. ~(N - n < N - m) BY <1>1, <1>2, <1>3, <2>1 DEF OpToRel
  <2> QED BY <2>2
<1> QED BY <1>4

(* f has the values in V that step makes, each of the one before. *)
Chain(V, step, N, f) ==
    /\ f \in [0..N -> V]
    /\ f[0] = <<>> /\ \A n \in 1..N : f[n] = step[n][f[n - 1]]

(* A function that is given from its value at the number before exists, up *)
(* to every number.                                                        *)
LEMMA Recursion ==
    ASSUME NEW V, <<>> \in V, NEW step \in [Nat -> [V -> V]], NEW M \in Nat
    PROVE  \E f : Chain(V, step, M, f)
<1> DEFINE S == {N \in Nat : \E f : Chain(V, step, N, f)}
<1>1. 0 \in S
  <2> DEFINE f == [n \in 0..0 |-> <<>>]
  <2>1. f \in [0..0 -> V] /\ f[0] = <<>> OBVIOUS
  <2>2. \A n \in 1..0 : f[n] = step[n][f[n - 1]] OBVIOUS
  <2> HIDE DEF f
  <2> QED BY <2>1, <2>2 DEF Chain
<1>2. ASSUME NEW N \in Nat, N \in S PROVE N + 1 \in S
  <2>1. PICK f : Chain(V, step, N, f) BY <1>2
  <2> DEFINE g == [n \in 0..(N + 1) |-> IF n = N + 1 THEN step[N + 1][f[N]] ELSE f[n]]
  <2>2. g \in [0..(N + 1) -> V] BY <2>1 DEF Chain
  <2>3. g[0] = <<>> BY <2>1 DEF Chain
  <2>4. ASSUME NEW n \in 1..(N + 1) PROVE g[n] = step[n][g[n - 1]]
    <3>1. CASE n = N + 1 BY <3>1
    <3>2. CASE n # N + 1
      <4>1. n \in 1..N /\ n - 1 \in 0..N BY <3>2
      <4> QED BY <2>1, <4>1 DEF Chain
    <3> QED BY <3>1, <3>2
  <2> HIDE DEF g
  <2>5. Chain(V, step, N + 1, g) BY <2>2, <2>3, <2>4 DEF Chain
  <2> QED BY <2>5
<1>3. Nat \subseteq S
  <2> HIDE DEF S
  <2> QED BY <1>1, <1>2, Induction
<1> QED BY <1>3

(* A name behind a path. *)
LEMMA AppendType ==
    ASSUME NEW d \in Path, NEW x \in Name
    PROVE  /\ Append(d, x) \in Path /\ Len(Append(d, x)) = Len(d) + 1
           /\ Append(d, x)[Len(d) + 1] = x
           /\ \A n \in 1..Len(d) : Append(d, x)[n] = d[n]
BY AppendProperties DEF Path

(* The names of a path. *)
LEMMA PathType ==
    ASSUME NEW p \in Path
    PROVE  Len(p) \in Nat /\ DOMAIN p = 1..Len(p) /\ \A n \in 1..Len(p) : p[n] \in Name
BY DEF Path

(* The part of a path behind its first i names, up to the k-th. *)
LEMMA SubPath ==
    ASSUME NEW p \in Path, NEW i \in Nat, NEW k \in 0..Len(p)
    PROVE  /\ SubSeq(p, i + 1, k) \in Path
           /\ Len(SubSeq(p, i + 1, k)) = IF i <= k THEN k - i ELSE 0
           /\ \A n \in 1..(k - i) : SubSeq(p, i + 1, k)[n] = p[i + n]
<1>1. ASSUME NEW N, NEW q \in Seq(N), NEW j \in 0..Len(q)
      PROVE  /\ SubSeq(q, i + 1, j) \in Seq(N)
             /\ Len(SubSeq(q, i + 1, j)) = IF i <= j THEN j - i ELSE 0
             /\ \A n \in 1..(j - i) : SubSeq(q, i + 1, j)[n] = q[i + n]
  OBVIOUS
<1> QED BY <1>1 DEF Path

(* The first k names of a path. *)
LEMMA FirstPart ==
    ASSUME NEW p \in Path, NEW k \in 0..Len(p)
    PROVE  /\ SubSeq(p, 1, k) \in Path /\ Len(SubSeq(p, 1, k)) = k
           /\ \A n \in 1..k : SubSeq(p, 1, k)[n] = p[n]
<1>1. 0 \in Nat /\ 0 + 1 = 1 /\ k \in Nat /\ k - 0 = k BY PathType
<1> QED BY <1>1, SubPath

(* A path behind a path. *)
LEMMA JoinPath ==
    ASSUME NEW p \in Path, NEW q \in Path
    PROVE  /\ p \o q \in Path /\ Len(p \o q) = Len(p) + Len(q)
           /\ \A n \in 1..Len(p) : (p \o q)[n] = p[n]
           /\ \A n \in 1..Len(q) : (p \o q)[Len(p) + n] = q[n]
BY DEF Path

(* Paths with the same names are the same. *)
LEMMA SamePath ==
    ASSUME NEW p \in Path, NEW q \in Path, Len(p) = Len(q),
           \A n \in 1..Len(p) : p[n] = q[n]
    PROVE  p = q
BY DEF Path

(* Prefixes, name by name. *)
LEMMA PrefixByName ==
    ASSUME NEW p \in Path, NEW q \in Path
    PROVE  IsPrefix(p, q) <=> Len(p) <= Len(q) /\ \A n \in 1..Len(p) : p[n] = q[n]
<1>1. CASE ~(Len(p) <= Len(q)) BY <1>1 DEF IsPrefix
<1>2. CASE Len(p) <= Len(q)
  <2>1. Len(p) \in 0..Len(p) /\ Len(p) \in 0..Len(q) BY <1>2, PathType
  <2> DEFINE a == SubSeq(p, 1, Len(p))
             b == SubSeq(q, 1, Len(p))
  <2>2. a \in Path /\ Len(a) = Len(p) /\ \A n \in 1..Len(p) : a[n] = p[n] BY <2>1, FirstPart
  <2>3. b \in Path /\ Len(b) = Len(p) /\ \A n \in 1..Len(p) : b[n] = q[n] BY <2>1, FirstPart
  <2>4. IsPrefix(p, q) <=> a = b BY <1>2 DEF IsPrefix
  <2> HIDE DEF a, b
  <2>5. (\A n \in 1..Len(p) : p[n] = q[n]) => a = b BY <2>2, <2>3, SamePath
  <2> QED BY <1>2, <2>2, <2>3, <2>4, <2>5
<1> QED BY <1>1, <1>2

-----------------------------------------------------------------------------
(* Canonical.  Links are between paths; a walk is at a path or nowhere. *)
LinksTyped == \A l \in links : l.at \in Path /\ l.to \in Path
PathOrNone == Path \cup {None}

Walk(d, name) == IF d = None THEN None ELSE Enter(d, name)

(* A step of the walk ends at a path or nowhere. *)
LEMMA WalkType ==
    ASSUME LinksTyped, NEW d \in PathOrNone, NEW name \in Name
    PROVE  Walk(d, name) \in PathOrNone
<1>1. CASE d # None
  <2>0. d \in Path BY <1>1 DEF PathOrNone
  <2>1. Append(d, name) \in Path BY <2>0, AppendType
  <2> DEFINE to == {l.to : l \in {m \in links : m.at = Append(d, name)}} \cap dirs
  <2>2. to \subseteq Path BY DEF LinksTyped
  <2>3. to # {} => (CHOOSE t \in to : TRUE) \in Path BY <2>2
  <2> HIDE DEF to
  <2>4. Enter(d, name) = IF Append(d, name) \in dirs \cup files THEN Append(d, name)
                         ELSE IF to # {} THEN CHOOSE t \in to : TRUE ELSE None
    BY DEF Enter, to
  <2> QED BY <1>1, <2>1, <2>3, <2>4 DEF Walk, PathOrNone
<1> QED BY <1>1 DEF Walk, PathOrNone

(* The recursive function in Canonical. *)
Real(p) == CHOOSE real :
    real = [n \in 0..Len(p) |-> IF n = 0 THEN <<>>
                                ELSE IF real[n - 1] = None THEN None
                                ELSE Enter(real[n - 1], p[n])]

(* Canonical walks the path name by name: its recursive function exists,   *)
(* begins at the top and makes one step for each name.                     *)
LEMMA RealWalks ==
    ASSUME LinksTyped, NEW p \in Path
    PROVE  /\ Real(p) \in [0..Len(p) -> PathOrNone]
           /\ Real(p)[0] = <<>>
           /\ \A n \in 1..Len(p) : Real(p)[n] = Walk(Real(p)[n - 1], p[n])
           /\ Canonical(p) = Real(p)[Len(p)]
<1> DEFINE step == [n \in Nat |-> [d \in PathOrNone |->
                        IF n \in 1..Len(p) THEN Walk(d, p[n]) ELSE d]]
           Good(f) == f = [n \in 0..Len(p) |-> IF n = 0 THEN <<>>
                                ELSE IF f[n - 1] = None THEN None
                                ELSE Enter(f[n - 1], p[n])]
<1>1. step \in [Nat -> [PathOrNone -> PathOrNone]]
  <2>1. ASSUME NEW n \in 1..Len(p), NEW d \in PathOrNone PROVE Walk(d, p[n]) \in PathOrNone
    <3>1. p[n] \in Name BY PathType
    <3> QED BY <3>1, WalkType
  <2> QED BY <2>1
<1>2. <<>> \in PathOrNone /\ Len(p) \in Nat BY PathType DEF PathOrNone, Path
<1>3. PICK f : Chain(PathOrNone, step, Len(p), f)
  <2> HIDE DEF step
  <2> QED BY <1>1, <1>2, Recursion
<1>4. ASSUME NEW n \in 1..Len(p) PROVE f[n] = Walk(f[n - 1], p[n])
  <2>1. f[n - 1] \in PathOrNone /\ n \in Nat BY <1>2, <1>3 DEF Chain
  <2> QED BY <1>3, <2>1 DEF Chain
<1>5. Good(f) BY <1>2, <1>3, <1>4 DEF Walk, Chain
<1>6. Real(p) = CHOOSE g : Good(g) BY DEF Real
<1>7. Good(Real(p)) BY <1>5, <1>6
<1>8. Canonical(p) = Real(p)[Len(p)] BY DEF Canonical, Real
<1>9. \A n \in 1..Len(p) : Real(p)[n] = Walk(Real(p)[n - 1], p[n])
  BY <1>2, <1>7 DEF Walk
<1>10. Real(p)[0] = <<>> BY <1>2, <1>7
<1>11. Real(p) \in [0..Len(p) -> PathOrNone]
  <2> DEFINE S == {n \in Nat : n \in 0..Len(p) => Real(p)[n] \in PathOrNone}
  <2>1. 0 \in S BY <1>2, <1>10
  <2>2. ASSUME NEW n \in Nat, n \in S PROVE n + 1 \in S
    <3> SUFFICES ASSUME n + 1 \in 0..Len(p) PROVE Real(p)[n + 1] \in PathOrNone OBVIOUS
    <3>1. n \in 0..Len(p) /\ n + 1 \in 1..Len(p) /\ (n + 1) - 1 = n BY <1>2
    <3>2. Real(p)[n] \in PathOrNone /\ p[n + 1] \in Name BY <2>2, <3>1, PathType
    <3>3. Real(p)[n + 1] = Walk(Real(p)[n], p[n + 1]) BY <1>9, <3>1
    <3> QED BY <3>2, <3>3, WalkType
  <2>3. Nat \subseteq S
    <3> HIDE DEF S
    <3> QED BY <2>1, <2>2, Induction
  <2>4. \A n \in 0..Len(p) : Real(p)[n] \in PathOrNone BY <1>2, <2>3
  <2>5. Real(p) = [n \in 0..Len(p) |-> Real(p)[n]] BY <1>7
  <2> QED BY <2>4, <2>5
<1> QED BY <1>8, <1>9, <1>10, <1>11

(* On its way along a path, Canonical is where the part so far leads. *)
LEMMA RealOfPrefix ==
    ASSUME LinksTyped, NEW p \in Path, NEW k \in 0..Len(p)
    PROVE  Canonical(SubSeq(p, 1, k)) = Real(p)[k]
<1> DEFINE q == SubSeq(p, 1, k)
           S == {n \in Nat : n \in 0..k => Real(q)[n] = Real(p)[n]}
<1>1. q \in Path /\ Len(q) = k /\ \A n \in 1..k : q[n] = p[n] BY FirstPart
<1> HIDE DEF q
<1>2. k \in Nat /\ k <= Len(p) /\ Len(p) \in Nat BY PathType
<1>3. Real(q)[0] = <<>> /\ Real(p)[0] = <<>> BY <1>1, RealWalks
<1>4. \A n \in 1..k : Real(q)[n] = Walk(Real(q)[n - 1], q[n]) BY <1>1, RealWalks
<1>5. \A n \in 1..k : Real(p)[n] = Walk(Real(p)[n - 1], p[n]) BY <1>2, RealWalks
<1>6. 0 \in S BY <1>3
<1>7. ASSUME NEW n \in Nat, n \in S PROVE n + 1 \in S
  <2> SUFFICES ASSUME n + 1 \in 0..k PROVE Real(q)[n + 1] = Real(p)[n + 1] OBVIOUS
  <2>1. n \in 0..k /\ n + 1 \in 1..k /\ (n + 1) - 1 = n BY <1>2
  <2>2. Real(q)[n] = Real(p)[n] BY <1>7, <2>1
  <2> QED BY <1>1, <1>4, <1>5, <2>1, <2>2
<1>8. Nat \subseteq S
  <2> HIDE DEF S
  <2> QED BY <1>6, <1>7, Induction
<1>9. Real(q)[k] = Real(p)[k] BY <1>2, <1>8
<1>10. Canonical(q) = Real(q)[k] BY <1>1, RealWalks
<1> QED BY <1>9, <1>10 DEF q

(* A path that agrees with the first names of another is its first part. *)
LEMMA FirstPartIs ==
    ASSUME NEW p \in Path, NEW q \in Path, Len(q) <= Len(p),
           \A n \in 1..Len(q) : q[n] = p[n]
    PROVE  SubSeq(p, 1, Len(q)) = q
<1> DEFINE a == SubSeq(p, 1, Len(q))
<1>1. Len(q) \in 0..Len(p) BY PathType
<1>2. a \in Path /\ Len(a) = Len(q) /\ \A n \in 1..Len(q) : a[n] = p[n] BY <1>1, FirstPart
<1> HIDE DEF a
<1>3. a = q BY <1>2, SamePath
<1> QED BY <1>3 DEF a

(* A path is its first part and the rest. *)
LEMMA SplitPath ==
    ASSUME NEW p \in Path, NEW k \in 0..Len(p)
    PROVE  SubSeq(p, 1, k) \o SubSeq(p, k + 1, Len(p)) = p
<1> DEFINE a == SubSeq(p, 1, k)
           b == SubSeq(p, k + 1, Len(p))
<1>1. Len(p) \in Nat /\ Len(p) \in 0..Len(p) /\ k \in Nat /\ k <= Len(p) BY PathType
<1>2. a \in Path /\ Len(a) = k /\ \A n \in 1..k : a[n] = p[n] BY FirstPart
<1>3. b \in Path /\ Len(b) = Len(p) - k /\ \A n \in 1..(Len(p) - k) : b[n] = p[k + n]
  BY <1>1, SubPath
<1> HIDE DEF a, b
<1>4. /\ a \o b \in Path /\ Len(a \o b) = Len(p)
      /\ \A n \in 1..k : (a \o b)[n] = p[n]
      /\ \A n \in 1..(Len(p) - k) : (a \o b)[k + n] = p[k + n]
  BY <1>1, <1>2, <1>3, JoinPath
<1>5. ASSUME NEW n \in 1..Len(p) PROVE (a \o b)[n] = p[n]
  <2>1. CASE n \notin 1..k
    <3>1. n - k \in 1..(Len(p) - k) /\ k + (n - k) = n BY <1>1, <2>1
    <3> QED BY <1>4, <3>1
  <2> QED BY <1>4, <2>1
<1>6. a \o b = p BY <1>4, <1>5, SamePath
<1> QED BY <1>6 DEF a, b

(* Behind the last name of a path there is nothing. *)
LEMMA NothingBehind ==
    ASSUME NEW p \in Path, NEW q \in Path
    PROVE  p \o SubSeq(q, Len(q) + 1, Len(q)) = p
<1> DEFINE t == SubSeq(q, Len(q) + 1, Len(q))
<1>1. Len(q) \in Nat /\ Len(q) \in 0..Len(q) /\ Len(p) \in Nat BY PathType
<1>2. t \in Path /\ Len(t) = IF Len(q) <= Len(q) THEN Len(q) - Len(q) ELSE 0 BY <1>1, SubPath
<1> HIDE DEF t
<1>3. Len(t) = 0 BY <1>1, <1>2
<1>4. p \o t \in Path /\ Len(p \o t) = Len(p) /\ \A n \in 1..Len(p) : (p \o t)[n] = p[n]
  BY <1>1, <1>2, <1>3, JoinPath
<1>5. p \o t = p BY <1>4, SamePath
<1> QED BY <1>5 DEF t

(* A first part is a prefix. *)
LEMMA PartIsPrefix ==
    ASSUME NEW p \in Path, NEW k \in 0..Len(p)
    PROVE  IsPrefix(SubSeq(p, 1, k), p)
<1> DEFINE a == SubSeq(p, 1, k)
<1>1. Len(p) \in Nat BY PathType
<1>2. a \in Path /\ Len(a) = k /\ \A n \in 1..k : a[n] = p[n] BY FirstPart
<1> HIDE DEF a
<1>3. IsPrefix(a, p) BY <1>1, <1>2, PrefixByName
<1> QED BY <1>3 DEF a

-----------------------------------------------------------------------------
(* The tree.  No link stands on the way along p.                           *)
LinkFree(p) == \A l \in links : ~IsPrefix(l.at, p)

(* The way to the root is there.  A link is no directory or file, lies in  *)
(* directories that are there, and leads to a place without links.         *)
LinksApart == \A l \in links : l.at \notin dirs \cup files
LinksHeld == \A l \in links : \A n \in 0..(Len(l.at) - 1) : SubSeq(l.at, 1, n) \in dirs
LinkTargets == \A l \in links : LinkFree(l.to) /\ Plain(l.to)
NodesNamed == \A n \in dirs \cup files : n \in Path /\ Plain(n)
RootKept == Ancestors(Root) \subseteq dirs
TreeOK == RootKept /\ LinksTyped /\ LinksApart /\ LinksHeld /\ LinkTargets /\ NodesNamed

(* What Enter finds: a directory or file, a link that leads somewhere, or  *)
(* nothing.                                                                *)
LEMMA EnterCases ==
    ASSUME NEW d \in Path, NEW x \in Name
    PROVE  LET n == Append(d, x)
           IN  \/ n \in dirs \cup files /\ Enter(d, x) = n
               \/ /\ n \notin dirs \cup files
                  /\ \E l \in links : l.at = n /\ l.to \in dirs /\ Enter(d, x) = l.to
               \/ /\ n \notin dirs \cup files
                  /\ ~\E l \in links : l.at = n /\ l.to \in dirs
                  /\ Enter(d, x) = None
<1> DEFINE n == Append(d, x)
           to == {l.to : l \in {m \in links : m.at = n}} \cap dirs
<1>1. Enter(d, x) = IF n \in dirs \cup files THEN n
                    ELSE IF to # {} THEN CHOOSE t \in to : TRUE ELSE None
  BY DEF Enter
<1>2. to # {} => (CHOOSE t \in to : TRUE) \in to
  <2> HIDE DEF to
  <2> QED OBVIOUS
<1>3. \A t \in to : \E l \in links : l.at = n /\ t = l.to /\ t \in dirs OBVIOUS
<1>4. to = {} => ~\E l \in links : l.at = n /\ l.to \in dirs OBVIOUS
<1> HIDE DEF to, n
<1>5. \/ n \in dirs \cup files /\ Enter(d, x) = n
      \/ n \notin dirs \cup files /\ \E l \in links : l.at = n /\ l.to \in dirs /\ Enter(d, x) = l.to
      \/ /\ n \notin dirs \cup files /\ Enter(d, x) = None
         /\ ~\E l \in links : l.at = n /\ l.to \in dirs
  BY <1>1, <1>2, <1>3, <1>4
<1> QED BY <1>5 DEF n

(* One more name on a path without links, if no link has it. *)
LEMMA FreeAppend ==
    ASSUME LinksTyped, NEW d \in Path, NEW x \in Name, LinkFree(d),
           ~\E l \in links : l.at = Append(d, x)
    PROVE  LinkFree(Append(d, x))
<1> SUFFICES ASSUME NEW l \in links, IsPrefix(l.at, Append(d, x)) PROVE FALSE BY DEF LinkFree
<1> DEFINE n == Append(d, x)
<1>1. l.at \in Path BY DEF LinksTyped
<1>2. n \in Path /\ Len(n) = Len(d) + 1 /\ \A k \in 1..Len(d) : n[k] = d[k] BY AppendType
<1> HIDE DEF n
<1>3. Len(l.at) <= Len(n) /\ \A k \in 1..Len(l.at) : l.at[k] = n[k]
  BY <1>1, <1>2, PrefixByName DEF n
<1>4. Len(l.at) \in Nat /\ Len(d) \in Nat BY <1>1, PathType
<1>5. CASE Len(l.at) = Len(n)
  <2>1. l.at = n BY <1>1, <1>2, <1>3, <1>5, SamePath
  <2> QED BY <2>1 DEF n
<1>6. CASE Len(l.at) # Len(n)
  <2>1. Len(l.at) <= Len(d) /\ \A k \in 1..Len(l.at) : l.at[k] = d[k]
    BY <1>2, <1>3, <1>4, <1>6
  <2>2. IsPrefix(l.at, d) BY <1>1, <2>1, PrefixByName
  <2> QED BY <2>2 DEF LinkFree
<1> QED BY <1>5, <1>6

(* The top of the file system is there, and is no link. *)
LEMMA TopIsFree ==
    ASSUME TreeOK
    PROVE  <<>> \in Path /\ <<>> \in dirs /\ LinkFree(<<>>) /\ Plain(<<>>)
<1>1. <<>> \in Path /\ Len(<<>>) = 0 /\ Plain(<<>>) BY DEF Path, Plain
<1>2. Root \in Path BY ScopedAccessAssumption
<1>3. <<>> \in dirs
  <2>1. 0 \in 0..Len(Root) BY <1>2, PathType
  <2>2. SubSeq(Root, 1, 0) \in Path /\ Len(SubSeq(Root, 1, 0)) = 0 BY <1>2, <2>1, FirstPart
  <2>3. SubSeq(Root, 1, 0) = <<>> BY <2>2 DEF Path
  <2> QED BY <2>1, <2>3 DEF TreeOK, RootKept, Ancestors
<1>4. ASSUME NEW l \in links, IsPrefix(l.at, <<>>) PROVE FALSE
  <2>1. l.at \in Path /\ Len(l.at) \in Nat BY PathType DEF TreeOK, LinksTyped
  <2>2. Len(l.at) = 0 BY <1>1, <1>4, <2>1, PrefixByName
  <2>3. l.at = <<>> BY <2>1, <2>2 DEF Path
  <2> QED BY <1>3, <2>3 DEF TreeOK, LinksApart
<1> QED BY <1>1, <1>3, <1>4 DEF LinkFree

(* A step from a place without links ends at one. *)
LEMMA WalkIsFree ==
    ASSUME TreeOK, NEW d \in Path, LinkFree(d), NEW x \in Name, Enter(d, x) # None
    PROVE  Enter(d, x) \in Path /\ LinkFree(Enter(d, x)) /\ Plain(Enter(d, x))
<1>1. CASE Append(d, x) \in dirs \cup files /\ Enter(d, x) = Append(d, x)
  <2>1. ~\E l \in links : l.at = Append(d, x) BY <1>1 DEF TreeOK, LinksApart
  <2>2. LinkFree(Append(d, x)) BY <2>1, FreeAppend DEF TreeOK
  <2> QED BY <1>1, <2>2 DEF TreeOK, NodesNamed
<1>2. CASE \E l \in links : l.at = Append(d, x) /\ Enter(d, x) = l.to
  BY <1>2 DEF TreeOK, LinksTyped, LinkTargets
<1> QED BY <1>1, <1>2, EnterCases

(* Where a path leads, no link stands on the way any more. *)
LEMMA RealIsFree ==
    ASSUME TreeOK, NEW p \in Path, NEW k \in 0..Len(p), Real(p)[k] # None
    PROVE  Real(p)[k] \in Path /\ LinkFree(Real(p)[k]) /\ Plain(Real(p)[k])
<1> DEFINE Good(d) == d \in Path /\ LinkFree(d) /\ Plain(d)
           S == {n \in Nat : n \in 0..Len(p) /\ Real(p)[n] # None => Good(Real(p)[n])}
<1>1. LinksTyped /\ Len(p) \in Nat BY PathType DEF TreeOK
<1>2. 0 \in S BY <1>1, RealWalks, TopIsFree
<1>3. ASSUME NEW n \in Nat, n \in S PROVE n + 1 \in S
  <2> SUFFICES ASSUME n + 1 \in 0..Len(p), Real(p)[n + 1] # None PROVE Good(Real(p)[n + 1])
    OBVIOUS
  <2>1. n \in 0..Len(p) /\ n + 1 \in 1..Len(p) /\ (n + 1) - 1 = n BY <1>1
  <2>2. Real(p)[n + 1] = Walk(Real(p)[n], p[n + 1]) BY <1>1, <2>1, RealWalks
  <2>3. Real(p)[n] # None BY <2>2 DEF Walk
  <2>4. Good(Real(p)[n]) BY <1>3, <2>1, <2>3
  <2>5. Real(p)[n + 1] = Enter(Real(p)[n], p[n + 1]) BY <2>2, <2>3 DEF Walk
  <2>6. p[n + 1] \in Name BY <2>1, PathType
  <2> QED BY <2>4, <2>5, <2>6, WalkIsFree
<1>4. Nat \subseteq S
  <2> HIDE DEF S
  <2> QED BY <1>2, <1>3, Induction
<1> QED BY <1>1, <1>4

(* The first k names are the first k - 1 and one more. *)
LEMMA FirstPartGrows ==
    ASSUME NEW p \in Path, NEW k \in 1..Len(p)
    PROVE  SubSeq(p, 1, k) = Append(SubSeq(p, 1, k - 1), p[k])
<1>1. Len(p) \in Nat /\ k \in 0..Len(p) /\ k - 1 \in 0..Len(p) /\ p[k] \in Name BY PathType
<1> DEFINE a == SubSeq(p, 1, k)
           b == SubSeq(p, 1, k - 1)
<1>2. a \in Path /\ Len(a) = k /\ \A n \in 1..k : a[n] = p[n] BY <1>1, FirstPart
<1>3. b \in Path /\ Len(b) = k - 1 /\ \A n \in 1..(k - 1) : b[n] = p[n] BY <1>1, FirstPart
<1> HIDE DEF a, b
<1>4. /\ Append(b, p[k]) \in Path /\ Len(Append(b, p[k])) = k
      /\ Append(b, p[k])[k] = p[k]
      /\ \A n \in 1..(k - 1) : Append(b, p[k])[n] = p[n]
  BY <1>1, <1>3, AppendType
<1>5. a = Append(b, p[k])
  <2>1. \A n \in 1..k : a[n] = Append(b, p[k])[n] BY <1>1, <1>2, <1>4
  <2> QED BY <1>2, <1>4, <2>1, SamePath
<1> QED BY <1>5 DEF a, b

(* A path without links is where it says it is. *)
LEMMA FreeLeadsItself ==
    ASSUME TreeOK, NEW p \in Path, LinkFree(p), NEW k \in 0..Len(p), Real(p)[k] # None
    PROVE  /\ Real(p)[k] = SubSeq(p, 1, k)
           /\ \A j \in 1..k : SubSeq(p, 1, j) \in dirs \cup files
<1> DEFINE Good(n) == /\ Real(p)[n] = SubSeq(p, 1, n)
                      /\ \A j \in 1..n : SubSeq(p, 1, j) \in dirs \cup files
           S == {n \in Nat : n \in 0..Len(p) /\ Real(p)[n] # None => Good(n)}
<1>1. LinksTyped /\ Len(p) \in Nat BY PathType DEF TreeOK
<1>2. 0 \in S
  <2>1. 0 \in 0..Len(p) BY <1>1
  <2>2. SubSeq(p, 1, 0) \in Path /\ Len(SubSeq(p, 1, 0)) = 0 BY <2>1, FirstPart
  <2>3. SubSeq(p, 1, 0) = <<>> BY <2>2 DEF Path
  <2>4. Real(p)[0] = SubSeq(p, 1, 0) BY <1>1, <2>3, RealWalks
  <2>5. \A j \in 1..0 : SubSeq(p, 1, j) \in dirs \cup files OBVIOUS
  <2> QED BY <2>4, <2>5
<1>3. ASSUME NEW n \in Nat, n \in S PROVE n + 1 \in S
  <2> SUFFICES ASSUME n + 1 \in 0..Len(p), Real(p)[n + 1] # None PROVE Good(n + 1)
    OBVIOUS
  <2>1. n \in 0..Len(p) /\ n + 1 \in 1..Len(p) /\ (n + 1) - 1 = n BY <1>1
  <2>2. Real(p)[n + 1] = Walk(Real(p)[n], p[n + 1]) BY <1>1, <2>1, RealWalks
  <2>3. Real(p)[n] # None BY <2>2 DEF Walk
  <2>4. Good(n) BY <1>3, <2>1, <2>3
  <2>5. Real(p)[n + 1] = Enter(SubSeq(p, 1, n), p[n + 1]) BY <2>2, <2>3, <2>4 DEF Walk
  <2>6. p[n + 1] \in Name /\ SubSeq(p, 1, n) \in Path BY <2>1, PathType, FirstPart
  <2>7. SubSeq(p, 1, n + 1) = Append(SubSeq(p, 1, n), p[n + 1]) BY <2>1, FirstPartGrows
  <2>8. ~\E l \in links : l.at = SubSeq(p, 1, n + 1)
    <3> SUFFICES ASSUME NEW l \in links, l.at = SubSeq(p, 1, n + 1) PROVE FALSE OBVIOUS
    <3>1. IsPrefix(l.at, p) BY PartIsPrefix
    <3> QED BY <3>1 DEF LinkFree
  <2>9. SubSeq(p, 1, n + 1) \in dirs \cup files /\ Real(p)[n + 1] = SubSeq(p, 1, n + 1)
    BY <2>5, <2>6, <2>7, <2>8, EnterCases
  <2> QED BY <2>4, <2>9
<1>4. Nat \subseteq S
  <2> HIDE DEF S
  <2> QED BY <1>2, <1>3, Induction
<1> QED BY <1>1, <1>4

(* A path of which every part is there leads to itself. *)
LEMMA ThereLeadsItself ==
    ASSUME TreeOK, NEW p \in Path, \A j \in 1..Len(p) : SubSeq(p, 1, j) \in dirs \cup files
    PROVE  Canonical(p) = p
<1> DEFINE S == {n \in Nat : n \in 0..Len(p) => Real(p)[n] = SubSeq(p, 1, n)}
<1>1. LinksTyped /\ Len(p) \in Nat BY PathType DEF TreeOK
<1>2. 0 \in S
  <2>1. 0 \in 0..Len(p) BY <1>1
  <2>2. SubSeq(p, 1, 0) \in Path /\ Len(SubSeq(p, 1, 0)) = 0 BY <2>1, FirstPart
  <2>3. SubSeq(p, 1, 0) = <<>> BY <2>2 DEF Path
  <2>4. Real(p)[0] = SubSeq(p, 1, 0) BY <1>1, <2>3, RealWalks
  <2> QED BY <2>4
<1>3. ASSUME NEW n \in Nat, n \in S PROVE n + 1 \in S
  <2> SUFFICES ASSUME n + 1 \in 0..Len(p) PROVE Real(p)[n + 1] = SubSeq(p, 1, n + 1)
    OBVIOUS
  <2>1. n \in 0..Len(p) /\ n + 1 \in 1..Len(p) /\ (n + 1) - 1 = n BY <1>1
  <2>2. Real(p)[n + 1] = Walk(Real(p)[n], p[n + 1]) BY <1>1, <2>1, RealWalks
  <2>3. Real(p)[n] = SubSeq(p, 1, n) BY <1>3, <2>1
  <2>4. p[n + 1] \in Name /\ SubSeq(p, 1, n) \in Path BY <2>1, PathType, FirstPart
  <2>5. SubSeq(p, 1, n) # None BY <2>4, ScopedAccessAssumption
  <2>6. SubSeq(p, 1, n + 1) = Append(SubSeq(p, 1, n), p[n + 1]) BY <2>1, FirstPartGrows
  <2>7. SubSeq(p, 1, n + 1) \in dirs \cup files BY <2>1
  <2> QED BY <2>2, <2>3, <2>4, <2>5, <2>6, <2>7, EnterCases DEF Walk
<1>4. Nat \subseteq S
  <2> HIDE DEF S
  <2> QED BY <1>2, <1>3, Induction
<1>5. Real(p)[Len(p)] = SubSeq(p, 1, Len(p)) BY <1>1, <1>4
<1>6. SubSeq(p, 1, Len(p)) = p
  <2>1. Len(p) \in 0..Len(p) BY <1>1
  <2> QED BY <2>1, FirstPart, SamePath
<1> QED BY <1>1, <1>5, <1>6, RealWalks

(* Place takes the longest part that leads somewhere. *)
LEMMA PlaceSplits ==
    ASSUME TreeOK, NEW p \in Path
    PROVE  \E k \in 0..Len(p) :
              /\ Real(p)[k] # None
              /\ \A n \in 0..Len(p) : Real(p)[n] # None => n <= k
              /\ Place(p) = Real(p)[k] \o SubSeq(p, k + 1, Len(p))
<1> DEFINE S == {n \in 0..Len(p) : Canonical(SubSeq(p, 1, n)) # None}
           k == Max(S)
<1>1. LinksTyped /\ Len(p) \in Nat BY PathType DEF TreeOK
<1>2. \A n \in 0..Len(p) : Canonical(SubSeq(p, 1, n)) = Real(p)[n] BY <1>1, RealOfPrefix
<1>3. 0 \in S
  <2>1. Real(p)[0] # None BY <1>1, RealWalks, TopIsFree, ScopedAccessAssumption
  <2> QED BY <1>1, <1>2, <2>1
<1>4. S \in SUBSET (0..Len(p)) OBVIOUS
<1>5. k \in S /\ \A n \in S : n <= k
  <2> HIDE DEF S
  <2>1. PICK m \in S : \A n \in S : n <= m BY <1>1, <1>3, <1>4, Greatest
  <2>2. \A n \in S : n \in Int BY <1>1, <1>4
  <2>3. \A n \in S : m >= n BY <2>1, <2>2
  <2>4. k \in S /\ \A n \in S : k >= n BY <2>3 DEF Max
  <2> QED BY <2>2, <2>4
<1>6. Place(p) = Canonical(SubSeq(p, 1, k)) \o SubSeq(p, k + 1, Len(p)) BY DEF Place
<1> HIDE DEF k
<1> QED BY <1>2, <1>5, <1>6

(* A path without links is its own place, and leads to itself or nowhere. *)
LEMMA FreePlace ==
    ASSUME TreeOK, NEW p \in Path, LinkFree(p)
    PROVE  /\ Place(p) = p /\ Canonical(p) \in {p, None}
           /\ Canonical(p) = p => \A j \in 1..Len(p) : SubSeq(p, 1, j) \in dirs \cup files
<1>1. LinksTyped /\ Len(p) \in Nat /\ Len(p) \in 0..Len(p) BY PathType DEF TreeOK
<1>2. SubSeq(p, 1, Len(p)) = p BY <1>1, FirstPart, SamePath
<1>3. Canonical(p) = Real(p)[Len(p)] BY <1>1, RealWalks
<1>4. Canonical(p) # None => /\ Canonical(p) = p
                             /\ \A j \in 1..Len(p) : SubSeq(p, 1, j) \in dirs \cup files
  BY <1>1, <1>2, <1>3, FreeLeadsItself
<1>5. p # None BY ScopedAccessAssumption
<1>6. Place(p) = p
  <2>1. PICK k \in 0..Len(p) :
           /\ Real(p)[k] # None
           /\ Place(p) = Real(p)[k] \o SubSeq(p, k + 1, Len(p))
    BY PlaceSplits
  <2>2. Real(p)[k] = SubSeq(p, 1, k) BY <2>1, FreeLeadsItself
  <2>3. SubSeq(p, 1, k) \o SubSeq(p, k + 1, Len(p)) = p BY SplitPath
  <2> QED BY <2>1, <2>2, <2>3
<1> QED BY <1>4, <1>5, <1>6

(* A walk that leads nowhere stays there. *)
LEMMA NowhereStays ==
    ASSUME LinksTyped, NEW p \in Path, NEW k \in 0..Len(p), Real(p)[k] = None
    PROVE  Canonical(p) = None
<1> DEFINE S == {n \in Nat : k + n \in 0..Len(p) => Real(p)[k + n] = None}
<1>1. Len(p) \in Nat /\ k \in Nat /\ k + 0 = k BY PathType
<1>2. 0 \in S BY <1>1
<1>3. ASSUME NEW n \in Nat, n \in S PROVE n + 1 \in S
  <2> SUFFICES ASSUME k + (n + 1) \in 0..Len(p) PROVE Real(p)[k + (n + 1)] = None OBVIOUS
  <2>1. k + n \in 0..Len(p) /\ k + (n + 1) \in 1..Len(p) /\ (k + (n + 1)) - 1 = k + n BY <1>1
  <2>2. Real(p)[k + n] = None BY <1>3, <2>1
  <2> QED BY <2>1, <2>2, RealWalks DEF Walk
<1>4. Nat \subseteq S
  <2> HIDE DEF S
  <2> QED BY <1>2, <1>3, Induction
<1>5. Len(p) - k \in Nat /\ k + (Len(p) - k) = Len(p) BY <1>1
<1>6. Real(p)[Len(p)] = None BY <1>1, <1>4, <1>5
<1> QED BY <1>6, RealWalks

(* What Place answers: what the path leads to, or a path that leads        *)
(* nowhere; and one without links, unless a link leads nowhere.            *)
LEMMA PlaceIsFree ==
    ASSUME TreeOK, NEW p \in Path
    PROVE  /\ Place(p) \in Path
           /\ LinksLead \/ Canonical(p) # None => LinkFree(Place(p))
           /\ Plain(p) => Plain(Place(p))
           /\ Canonical(p) = Place(p) \/ Canonical(Place(p)) = None
<1>1. LinksTyped /\ Len(p) \in Nat BY PathType DEF TreeOK
<1>2. PICK k \in 0..Len(p) :
         /\ Real(p)[k] # None
         /\ \A n \in 0..Len(p) : Real(p)[n] # None => n <= k
         /\ Place(p) = Real(p)[k] \o SubSeq(p, k + 1, Len(p))
  BY PlaceSplits
<1> DEFINE r == Real(p)[k]
           t == SubSeq(p, k + 1, Len(p))
           P == r \o t
<1>3. r \in Path /\ LinkFree(r) /\ Plain(r) /\ Len(r) \in Nat BY <1>2, RealIsFree, PathType
<1>4. k \in Nat /\ k <= Len(p) /\ Len(p) \in 0..Len(p) BY <1>1
<1>5. t \in Path /\ Len(t) = Len(p) - k /\ \A n \in 1..(Len(p) - k) : t[n] = p[k + n]
  BY <1>1, <1>4, SubPath
<1> HIDE DEF t, r
<1>6. /\ P \in Path /\ Len(P) = Len(r) + Len(t)
      /\ \A n \in 1..Len(r) : P[n] = r[n]
      /\ \A n \in 1..Len(t) : P[Len(r) + n] = t[n]
  BY <1>3, <1>5, JoinPath
<1> HIDE DEF P
<1>7. Place(p) = P BY <1>2 DEF P, r, t
<1>8. Plain(p) => Plain(P)
  <2> SUFFICES ASSUME Plain(p), NEW n \in DOMAIN P PROVE P[n] \notin {".", ".."} BY DEF Plain
  <2>1. n \in 1..(Len(r) + Len(t)) BY <1>6, PathType
  <2>2. CASE n \in 1..Len(r) BY <1>3, <1>6, <2>2, PathType DEF Plain
  <2>3. CASE n \notin 1..Len(r)
    <3>1. n - Len(r) \in 1..Len(t) /\ Len(r) + (n - Len(r)) = n
      BY <1>1, <1>3, <1>4, <1>5, <2>1, <2>3
    <3>2. P[n] = p[k + (n - Len(r))] BY <1>5, <1>6, <3>1
    <3>3. k + (n - Len(r)) \in DOMAIN p BY <1>1, <1>3, <1>4, <1>5, <3>1, PathType
    <3> QED BY <3>2, <3>3 DEF Plain
  <2> QED BY <2>2, <2>3
<1>9. CASE k = Len(p)
  <2>1. P = r BY <1>3, <1>5, <1>6, <1>9, SamePath
  <2>2. Canonical(p) = r BY <1>1, <1>9, RealWalks DEF r
  <2> QED BY <1>3, <1>7, <1>8, <2>1, <2>2
<1>10. CASE k # Len(p)
  <2> DEFINE q == Append(r, p[k + 1])
  <2>1. k + 1 \in 1..Len(p) /\ k + 1 \in 0..Len(p) /\ (k + 1) - 1 = k /\ ~(k + 1 <= k)
    BY <1>1, <1>4, <1>10
  <2>2. Real(p)[k + 1] = None BY <1>2, <2>1
  <2>3. p[k + 1] \in Name BY <2>1, PathType
  <2>4. Enter(r, p[k + 1]) = None BY <1>1, <1>2, <2>1, <2>2, RealWalks DEF Walk, r
  <2>5. q \notin dirs \cup files /\ (LinksLead => ~\E l \in links : l.at = q)
    <3>1. q \in Path BY <1>3, <2>3, AppendType
    <3>2. q # None BY <3>1, ScopedAccessAssumption
    <3>3. \A l \in links : l.to # None BY <1>1, ScopedAccessAssumption DEF LinksTyped
    <3> QED BY <1>3, <2>3, <2>4, <3>2, <3>3, EnterCases DEF LinksLead
  <2>6. Len(r) + 1 \in 1..Len(P) BY <1>1, <1>3, <1>4, <1>5, <1>6, <2>1
  <2>7. /\ q \in Path /\ Len(q) = Len(r) + 1 /\ \A n \in 1..Len(q) : q[n] = P[n]
    <3>1. 1 \in 1..Len(t) BY <1>1, <1>4, <1>5, <2>1
    <3>2. P[Len(r) + 1] = p[k + 1] BY <1>5, <1>6, <3>1
    <3> QED BY <1>3, <1>6, <2>3, <3>2, AppendType
  <2> HIDE DEF q
  <2>8. SubSeq(P, 1, Len(r) + 1) = q
    <3>1. Len(r) + 1 \in 0..Len(P) BY <1>3, <2>6
    <3> QED BY <1>6, <2>7, <3>1, FirstPartIs
  <2>9. ASSUME LinksLead PROVE LinkFree(P)
    <3> SUFFICES ASSUME NEW l \in links, IsPrefix(l.at, P) PROVE FALSE BY DEF LinkFree
    <3>1. l.at \in Path /\ Len(l.at) \in Nat BY <1>1, PathType DEF LinksTyped
    <3>2. Len(l.at) <= Len(P) /\ \A n \in 1..Len(l.at) : l.at[n] = P[n]
      BY <1>6, <3>1, PrefixByName
    <3>3. CASE Len(l.at) <= Len(r)
      <4>1. IsPrefix(l.at, r) BY <1>3, <1>6, <3>1, <3>2, <3>3, PrefixByName
      <4> QED BY <1>3, <4>1 DEF LinkFree
    <3>4. CASE Len(l.at) = Len(r) + 1
      <4>1. l.at = q BY <2>7, <3>1, <3>2, <3>4, SamePath
      <4> QED BY <2>5, <2>9, <4>1
    <3>5. CASE Len(l.at) > Len(r) + 1
      <4>1. Len(r) + 1 \in 0..(Len(l.at) - 1) /\ Len(r) + 1 \in 0..Len(l.at)
        BY <1>3, <3>1, <3>5
      <4>2. SubSeq(l.at, 1, Len(r) + 1) = q
        BY <2>7, <3>1, <3>2, <4>1, FirstPartIs
      <4>3. q \in dirs BY <4>1, <4>2 DEF TreeOK, LinksHeld
      <4> QED BY <2>5, <4>3
    <3> QED BY <1>3, <3>1, <3>3, <3>4, <3>5
  <2>10. Canonical(P) = None
    <3>1. Len(r) \in 0..Len(P) /\ (Len(r) + 1) - 1 = Len(r) /\ Len(r) + 1 \in 0..Len(P)
      BY <1>3, <1>6, <2>6
    <3>2. SubSeq(P, 1, Len(r)) = r BY <1>3, <1>6, <3>1, FirstPartIs
    <3>3. Real(P)[Len(r)] = Canonical(r) BY <1>1, <1>6, <3>1, <3>2, RealOfPrefix
    <3>4. Canonical(r) \in {r, None} BY <1>3, FreePlace
    <3>5. P[Len(r) + 1] = p[k + 1] BY <2>7, <1>3, <2>3, AppendType DEF q
    <3>6. Real(P)[Len(r) + 1] = Walk(Canonical(r), p[k + 1])
      <4>1. \A n \in 1..Len(P) : Real(P)[n] = Walk(Real(P)[n - 1], P[n])
        BY <1>1, <1>6, RealWalks
      <4>2. Real(P)[Len(r) + 1] = Walk(Real(P)[(Len(r) + 1) - 1], P[Len(r) + 1])
        BY ONLY <2>6, <4>1
      <4> QED BY <3>1, <3>3, <3>5, <4>2
    <3>7. Real(P)[Len(r) + 1] = None BY <2>4, <3>4, <3>6 DEF Walk
    <3> QED BY <1>1, <1>6, <3>1, <3>7, NowhereStays
  <2>11. Canonical(p) = None
    <3>1. k + 1 \in 0..Len(p) BY <2>1
    <3> QED BY <1>1, <2>2, <3>1, NowhereStays
  <2> QED BY <1>6, <1>7, <1>8, <2>9, <2>10, <2>11
<1> QED BY <1>9, <1>10

(* One more name, behind a path that leads to a directory that has it. *)
LEMMA EnterKnown ==
    ASSUME TreeOK, NEW p \in Path, NEW x \in Name, Canonical(p) \in Path,
           Append(Canonical(p), x) \in dirs \cup files
    PROVE  /\ Canonical(Append(p, x)) = Append(Canonical(p), x)
           /\ Place(Append(p, x)) = Append(Canonical(p), x)
<1> DEFINE q == Append(p, x)
<1>1. LinksTyped /\ Len(p) \in Nat BY PathType DEF TreeOK
<1>2. q \in Path /\ Len(q) = Len(p) + 1 /\ q[Len(p) + 1] = x /\ \A n \in 1..Len(p) : q[n] = p[n]
  BY AppendType
<1> HIDE DEF q
<1>3. Len(p) \in 0..Len(q) /\ Len(q) \in 1..Len(q) /\ Len(q) - 1 = Len(p) BY <1>1, <1>2
<1>4. SubSeq(q, 1, Len(p)) = p BY <1>1, <1>2, FirstPartIs
<1>5. Real(q)[Len(p)] = Canonical(p) BY <1>1, <1>2, <1>3, <1>4, RealOfPrefix
<1>6. Real(q)[Len(q)] = Walk(Canonical(p), x) BY <1>1, <1>2, <1>3, <1>5, RealWalks
<1>7. Canonical(p) # None BY ScopedAccessAssumption
<1>8. Enter(Canonical(p), x) = Append(Canonical(p), x) BY EnterCases
<1>9. Canonical(q) = Append(Canonical(p), x) BY <1>1, <1>2, <1>6, <1>7, <1>8, RealWalks DEF Walk
<1>10. Place(q) = Canonical(q)
  <2>1. PICK k \in 0..Len(q) :
           /\ \A n \in 0..Len(q) : Real(q)[n] # None => n <= k
           /\ Place(q) = Real(q)[k] \o SubSeq(q, k + 1, Len(q))
    BY <1>2, PlaceSplits
  <2>2. Append(Canonical(p), x) \in Path /\ Append(Canonical(p), x) # None
    <3>1. Append(Canonical(p), x) \in Path BY AppendType
    <3>2. None \notin Path BY ScopedAccessAssumption
    <3> QED BY ONLY <3>1, <3>2
  <2>3. Real(q)[Len(q)] = Canonical(q) BY <1>1, <1>2, RealWalks
  <2>4. Len(q) <= k BY <1>3, <1>9, <2>1, <2>2, <2>3
  <2>5. k = Len(q) BY <1>1, <1>2, <2>1, <2>4
  <2>6. Canonical(q) \o SubSeq(q, Len(q) + 1, Len(q)) = Canonical(q)
    BY <1>2, <1>9, <2>2, NothingBehind
  <2> QED BY <2>1, <2>3, <2>5, <2>6
<1> QED BY <1>9, <1>10 DEF q

-----------------------------------------------------------------------------
(* Normalize, and the recursive function in it. *)
Out(v) == CHOOSE out :
    out = [n \in 0..Len(v) |-> IF n = 0 THEN <<>> ELSE Push(out[n - 1], v[n])]

(* Normalize pushes name by name: its recursive function exists, begins    *)
(* empty and makes one push for each part.                                 *)
LEMMA OutPushes ==
    ASSUME NEW v \in Path
    PROVE  /\ Out(v)[0] = <<>>
           /\ \A n \in 1..Len(v) : Out(v)[n] = Push(Out(v)[n - 1], v[n])
           /\ \A n \in 0..Len(v) : Out(v)[n] \in Path
           /\ Normalize(v) = Out(v)[Len(v)]
<1> DEFINE step == [n \in Nat |-> [d \in Path |->
                        IF n \in 1..Len(v) THEN Push(d, v[n]) ELSE d]]
           Good(f) == f = [n \in 0..Len(v) |-> IF n = 0 THEN <<>> ELSE Push(f[n - 1], v[n])]
<1>1. step \in [Nat -> [Path -> Path]]
  <2>1. ASSUME NEW n \in 1..Len(v), NEW d \in Path PROVE Push(d, v[n]) \in Path
    <3>1. v[n] \in Name BY PathType
    <3> QED BY <3>1, AppendType DEF Push
  <2> QED BY <2>1
<1>2. <<>> \in Path /\ Len(v) \in Nat BY PathType DEF Path
<1>3. PICK f : Chain(Path, step, Len(v), f)
  <2> HIDE DEF step
  <2> QED BY <1>1, <1>2, Recursion
<1>4. ASSUME NEW n \in 1..Len(v) PROVE f[n] = Push(f[n - 1], v[n])
  <2>1. f[n - 1] \in Path /\ n \in Nat BY <1>2, <1>3 DEF Chain
  <2> QED BY <1>3, <2>1 DEF Chain
<1>5. Good(f) BY <1>2, <1>3, <1>4 DEF Chain
<1>6. Out(v) = CHOOSE g : Good(g) BY DEF Out
<1>7. Good(Out(v)) BY <1>5, <1>6
<1>8. Normalize(v) = Out(v)[Len(v)] BY DEF Normalize, Out
<1>9. \A n \in 1..Len(v) : Out(v)[n] = Push(Out(v)[n - 1], v[n]) BY <1>2, <1>7
<1>10. Out(v)[0] = <<>> BY <1>2, <1>7
<1>11. \A n \in 0..Len(v) : Out(v)[n] \in Path
  <2> DEFINE S == {n \in Nat : n \in 0..Len(v) => Out(v)[n] \in Path}
  <2>1. 0 \in S BY <1>2, <1>10
  <2>2. ASSUME NEW n \in Nat, n \in S PROVE n + 1 \in S
    <3> SUFFICES ASSUME n + 1 \in 0..Len(v) PROVE Out(v)[n + 1] \in Path OBVIOUS
    <3>1. n \in 0..Len(v) /\ n + 1 \in 1..Len(v) /\ (n + 1) - 1 = n BY <1>2
    <3>2. Out(v)[n] \in Path /\ v[n + 1] \in Name BY <2>2, <3>1, PathType
    <3>3. Out(v)[n + 1] = Push(Out(v)[n], v[n + 1]) BY <1>9, <3>1
    <3> QED BY <3>2, <3>3, AppendType DEF Push
  <2>3. Nat \subseteq S
    <3> HIDE DEF S
    <3> QED BY <2>1, <2>2, Induction
  <2> QED BY <1>2, <2>3
<1> QED BY <1>8, <1>9, <1>10, <1>11

(* Normalize makes a path of a path. *)
LEMMA NormalizeType ==
    ASSUME NEW v \in Path
    PROVE  Normalize(v) \in Path
<1>1. Len(v) \in 0..Len(v) BY PathType
<1> QED BY <1>1, OutPushes

(* What is pushed are the names of the virtual path, without the dots. *)
LEMMA NormalizePlain ==
    ASSUME NEW v \in Path, ~Escapes(v)
    PROVE  Plain(Normalize(v))
<1> DEFINE S == {n \in Nat : n \in 0..Len(v) => Plain(Out(v)[n])}
<1>1. Len(v) \in Nat BY PathType
<1>2. 0 \in S
  <2>1. Plain(<<>>) BY DEF Plain
  <2> QED BY <2>1, OutPushes
<1>3. ASSUME NEW n \in Nat, n \in S PROVE n + 1 \in S
  <2> SUFFICES ASSUME n + 1 \in 0..Len(v) PROVE Plain(Out(v)[n + 1]) OBVIOUS
  <2>1. n \in 0..Len(v) /\ n + 1 \in 1..Len(v) /\ (n + 1) - 1 = n BY <1>1
  <2>2. Plain(Out(v)[n]) BY <1>3, <2>1
  <2>3. Out(v)[n + 1] = Push(Out(v)[n], v[n + 1]) BY <2>1, OutPushes
  <2>4. v[n + 1] # ".." BY <2>1, PathType DEF Escapes
  <2>5. Out(v)[n] \in Path /\ v[n + 1] \in Name BY <2>1, OutPushes, PathType
  <2>6. CASE v[n + 1] # "."
    <3> DEFINE d == Append(Out(v)[n], v[n + 1])
    <3>1. /\ d \in Path /\ Len(d) = Len(Out(v)[n]) + 1
          /\ d[Len(Out(v)[n]) + 1] = v[n + 1]
          /\ \A k \in 1..Len(Out(v)[n]) : d[k] = Out(v)[n][k]
      BY <2>5, AppendType
    <3> HIDE DEF d
    <3>2. Len(Out(v)[n]) \in Nat /\ DOMAIN Out(v)[n] = 1..Len(Out(v)[n]) BY <2>5, PathType
    <3>3. ASSUME NEW k \in DOMAIN d PROVE d[k] \notin {".", ".."}
      <4>1. k \in 1..(Len(Out(v)[n]) + 1) BY <3>1, PathType
      <4>2. CASE k = Len(Out(v)[n]) + 1 BY <2>4, <2>6, <3>1, <4>2
      <4>3. CASE k \in 1..Len(Out(v)[n]) BY <2>2, <3>1, <3>2, <4>3 DEF Plain
      <4> QED BY <3>2, <4>1, <4>2, <4>3
    <3>4. Plain(d) BY <3>3 DEF Plain
    <3> QED BY <2>3, <2>6, <3>4 DEF Push, d
  <2>7. CASE v[n + 1] = "." BY <2>2, <2>3, <2>7 DEF Push
  <2> QED BY <2>6, <2>7
<1>4. Nat \subseteq S
  <2> HIDE DEF S
  <2> QED BY <1>2, <1>3, Induction
<1>5. Plain(Out(v)[Len(v)]) BY <1>1, <1>4
<1> QED BY <1>5, OutPushes

(* What has been pushed does not depend on the parts to come. *)
LEMMA OutOfPrefix ==
    ASSUME NEW v \in Path, NEW x \in Name
    PROVE  \A n \in 0..Len(v) : Out(Append(v, x))[n] = Out(v)[n]
<1> DEFINE w == Append(v, x)
           S == {n \in Nat : n \in 0..Len(v) => Out(w)[n] = Out(v)[n]}
<1>1. Len(v) \in Nat BY PathType
<1>2. w \in Path /\ Len(w) = Len(v) + 1 /\ \A n \in 1..Len(v) : w[n] = v[n] BY AppendType
<1> HIDE DEF w
<1>3. 0 \in S BY <1>2, OutPushes
<1>4. ASSUME NEW n \in Nat, n \in S PROVE n + 1 \in S
  <2> SUFFICES ASSUME n + 1 \in 0..Len(v) PROVE Out(w)[n + 1] = Out(v)[n + 1] OBVIOUS
  <2>1. n \in 0..Len(v) /\ n + 1 \in 1..Len(v) /\ n + 1 \in 1..Len(w) /\ (n + 1) - 1 = n
    BY <1>1, <1>2
  <2>2. Out(w)[n] = Out(v)[n] BY <1>4, <2>1
  <2>3. Out(w)[n + 1] = Push(Out(w)[n], w[n + 1]) BY <1>2, <2>1, OutPushes
  <2>4. Out(v)[n + 1] = Push(Out(v)[n], v[n + 1]) BY <2>1, OutPushes
  <2> QED BY <1>2, <2>1, <2>2, <2>3, <2>4
<1>5. Nat \subseteq S
  <2> HIDE DEF S
  <2> QED BY <1>3, <1>4, Induction
<1> QED BY <1>1, <1>5 DEF w

(* A name behind a virtual path is a name behind its names. *)
LEMMA NormalizeAppend ==
    ASSUME NEW v \in Path, NEW x \in Name, x # "."
    PROVE  Normalize(Append(v, x)) = Append(Normalize(v), x)
<1> DEFINE w == Append(v, x)
<1>1. Len(v) \in Nat BY PathType
<1>2. w \in Path /\ Len(w) = Len(v) + 1 /\ w[Len(v) + 1] = x BY AppendType
<1>3. Out(w)[Len(v)] = Out(v)[Len(v)] BY <1>1, OutOfPrefix
<1> HIDE DEF w
<1>4. Len(w) \in 1..Len(w) /\ Len(w) - 1 = Len(v) BY <1>1, <1>2
<1>5. Normalize(w) = Push(Out(v)[Len(v)], x) BY <1>2, <1>3, <1>4, OutPushes
<1>6. Normalize(v) = Out(v)[Len(v)] BY OutPushes
<1> QED BY <1>5, <1>6 DEF Push, w

(* A virtual path without names has nothing but dots. *)
LEMMA NormalizeEmpty ==
    ASSUME NEW v \in Path, Normalize(v) = <<>>
    PROVE  ~Escapes(v)
<1>0. \A k \in 1..Len(v) : Len(v) - k \in Nat /\ k + (Len(v) - k) = Len(v) BY PathType
<1> SUFFICES ASSUME NEW k \in DOMAIN v, v[k] = ".." PROVE FALSE BY DEF Escapes
<1> DEFINE S == {n \in Nat : k + n \in 1..Len(v) => Out(v)[k + n] # <<>>}
<1>1. Len(v) \in Nat /\ k \in 1..Len(v) BY PathType
<1>2. ASSUME NEW n \in 1..Len(v), v[n] # "." PROVE Out(v)[n] # <<>>
  <2>1. n - 1 \in 0..Len(v) BY <1>1
  <2>2. Out(v)[n - 1] \in Path /\ v[n] \in Name BY <2>1, OutPushes, PathType
  <2>3. Out(v)[n] = Append(Out(v)[n - 1], v[n]) BY <1>2, OutPushes DEF Push
  <2>4. Len(Out(v)[n]) = Len(Out(v)[n - 1]) + 1 /\ Len(Out(v)[n - 1]) \in Nat
    BY <2>2, <2>3, AppendType, PathType
  <2>5. Len(<<>>) = 0 OBVIOUS
  <2> QED BY <2>4, <2>5
<1>3. 0 \in S BY <1>1, <1>2
<1>4. ASSUME NEW n \in Nat, n \in S PROVE n + 1 \in S
  <2> SUFFICES ASSUME k + (n + 1) \in 1..Len(v) PROVE Out(v)[k + (n + 1)] # <<>> OBVIOUS
  <2>1. k + n \in 1..Len(v) /\ (k + (n + 1)) - 1 = k + n BY <1>1
  <2>2. Out(v)[k + n] # <<>> BY <1>4, <2>1
  <2>3. Out(v)[k + (n + 1)] = Push(Out(v)[k + n], v[k + (n + 1)]) BY <2>1, OutPushes
  <2>4. CASE v[k + (n + 1)] = "." BY <2>2, <2>3, <2>4 DEF Push
  <2>5. CASE v[k + (n + 1)] # "." BY <1>2, <2>5
  <2> QED BY <2>4, <2>5
<1>5. Nat \subseteq S
  <2> HIDE DEF S
  <2> QED BY <1>3, <1>4, Induction
<1>7. Len(v) - k \in Nat /\ k + (Len(v) - k) = Len(v) BY <1>0, <1>1
<1>8. Out(v)[Len(v)] # <<>> BY <1>1, <1>5, <1>7
<1> QED BY <1>8, OutPushes
====
