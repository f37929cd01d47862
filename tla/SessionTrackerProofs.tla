------------------------ MODULE SessionTrackerProofs ------------------------
(***************************************************************************)
(* What SessionTracker.tla states of src/limits.rs, proved for every set   *)
(* of accounts, every cap, every TTL and every width of the counter.       *)
(***************************************************************************)
EXTENDS SessionTracker, FiniteSetTheorems, SequenceTheorems, TLAPS

(* Retain(list) is a suffix of the list, so it holds ages and no more of   *)
(* them than the list did.                                                 *)
LEMMA RetainSuffix ==
    ASSUME NEW list \in Seq(Age)
    PROVE  /\ Cardinality(Stale(list)) \in 0..Len(list)
           /\ Retain(list) \in Seq(Age)
           /\ DOMAIN Retain(list) \subseteq DOMAIN list
           /\ \A k \in DOMAIN Retain(list) :
                 /\ k + Cardinality(Stale(list)) \in DOMAIN list
                 /\ Retain(list)[k] = list[k + Cardinality(Stale(list))]
<1> DEFINE c == Cardinality(Stale(list))
<1>1. Len(list) \in Nat /\ DOMAIN list = 1..Len(list)
  BY LenProperties
<1>2. IsFiniteSet(1..Len(list)) /\ Cardinality(1..Len(list)) = Len(list)
  BY <1>1, FS_Interval
<1>3. Stale(list) \subseteq 1..Len(list)
  BY <1>1 DEF Stale
<1>4. IsFiniteSet(Stale(list)) /\ c <= Len(list)
  BY <1>2, <1>3, FS_Subset
<1>5. c \in 0..Len(list)
  BY <1>1, <1>4, FS_CardinalityType
<1>6. /\ SubSeq(list, c + 1, Len(list)) \in Seq(Age)
      /\ Len(SubSeq(list, c + 1, Len(list))) = Len(list) - c
      /\ \A k \in 1..(Len(list) - c) : SubSeq(list, c + 1, Len(list))[k] = list[k + c]
  BY <1>1, <1>5
<1> QED
  BY <1>1, <1>5, <1>6 DEF Retain

(* Slots of any assignment of lists: a finite set of pairs, so counting    *)
(* them is meaningful.                                                     *)
LEMMA SlotsFinite ==
    ASSUME NEW lists \in [Account -> Seq(Age)]
    PROVE  IsFiniteSet(Slots(lists)) /\ SlotCount(lists) \in Nat
<1> DEFINE of(a) == {a} \X DOMAIN lists[a]
           all == {of(a) : a \in Account}
<1>1. IsFiniteSet(all)
  <2>1. [a \in Account |-> of(a)] \in Surjection(Account, all)
    BY DEF Surjection
  <2> HIDE DEF all
  <2> QED BY <2>1, TrackerAssumption, FS_Surjection
<1>2. ASSUME NEW a \in Account PROVE IsFiniteSet(of(a))
  <2>1. DOMAIN lists[a] = 1..Len(lists[a]) /\ Len(lists[a]) \in Nat
    BY LenProperties
  <2>2. IsFiniteSet(DOMAIN lists[a])
    BY <2>1, FS_Interval
  <2> QED BY <2>2, FS_Singleton, FS_Product
<1>3. IsFiniteSet(UNION all)
  <2> HIDE DEF of
  <2>1. \A S \in all : IsFiniteSet(S)
    BY <1>2
  <2> HIDE DEF all
  <2> QED BY <1>1, <2>1, FS_UNION
<1>4. UNION all = Slots(lists)
  BY DEF Slots
<1> QED BY <1>3, <1>4, FS_CardinalityType DEF SlotCount

LEMMA SlotsMember ==
    ASSUME NEW lists, NEW a \in Account, NEW k
    PROVE  <<a, k>> \in Slots(lists) <=> k \in DOMAIN lists[a]
BY DEF Slots

(* The inductive invariant: the types and the agreement of the counter     *)
(* with the lists.  Neither is inductive alone: reap subtracts a number    *)
(* that is known to fit only because the counter agrees with the lists.    *)
TrackerInv == TrackerTypeOK /\ GlobalIsSum

LEMMA TrackerInvInit == TrackerInit => TrackerInv
<1> SUFFICES ASSUME TrackerInit PROVE TrackerInv
  OBVIOUS
<1>1. TrackerTypeOK
  BY TrackerAssumption DEF TrackerInit, TrackerTypeOK
<1>2. Slots(perAccount) = {}
  BY DEF TrackerInit, Slots
<1> QED BY <1>1, <1>2, FS_EmptySet DEF TrackerInv, GlobalIsSum, SlotCount, TrackerInit

(* try_admit: the new slot is one that was not held. *)
LEMMA TryAdmitInv ==
    ASSUME TrackerInv, NEW u \in Account, TryAdmit(u)
    PROVE  TrackerInv'
<1> USE TrackerAssumption
<1> DEFINE new == <<u, Len(perAccount[u]) + 1>>
<1>1. TrackerTypeOK /\ GlobalIsSum
  BY DEF TrackerInv
<1>2. perAccount[u] \in Seq(Age) /\ Len(perAccount[u]) \in Nat
  BY <1>1, LenProperties DEF TrackerTypeOK
<1>3. /\ Append(perAccount[u], 0) \in Seq(Age)
      /\ DOMAIN Append(perAccount[u], 0) = 1..(Len(perAccount[u]) + 1)
      /\ DOMAIN perAccount[u] = 1..Len(perAccount[u])
  BY <1>2, AppendProperties, LenProperties DEF Age
<1>4. perAccount' \in [Account -> Seq(Age)]
  BY <1>1, <1>3 DEF TryAdmit, TrackerTypeOK
<1>5. DOMAIN perAccount'[u] = DOMAIN perAccount[u] \cup {Len(perAccount[u]) + 1}
  BY <1>1, <1>2, <1>3 DEF TryAdmit, TrackerTypeOK
<1>6. Slots(perAccount') = Slots(perAccount) \cup {new}
  BY <1>1, <1>5 DEF Slots, TryAdmit, TrackerTypeOK
<1>7. new \notin Slots(perAccount)
  BY <1>2, <1>3, SlotsMember
<1>8. SlotCount(perAccount') = SlotCount(perAccount) + 1
  <2>1. IsFiniteSet(Slots(perAccount))
    BY <1>1, SlotsFinite DEF TrackerTypeOK
  <2> HIDE DEF new
  <2>2. Cardinality(Slots(perAccount) \cup {new}) = Cardinality(Slots(perAccount)) + 1
    BY <1>7, <2>1, FS_AddElement
  <2> QED BY <1>6, <2>2 DEF SlotCount
<1>9. global < maxGlobal
  BY <1>1 DEF TryAdmit, AtCapacity, TrackerTypeOK
<1>10. global' = global + 1 /\ global' \in 0..U32Max
  BY <1>1, <1>9 DEF TryAdmit, SaturatingInc, TrackerTypeOK
<1> QED
  BY <1>1, <1>4, <1>8, <1>10 DEF TrackerInv, TrackerTypeOK, GlobalIsSum, TryAdmit

(* on_logout: a slot goes exactly when the count goes down. *)
LEMMA OnLogoutInv ==
    ASSUME TrackerInv, NEW u \in Account, OnLogout(u)
    PROVE  TrackerInv'
<1> USE TrackerAssumption
<1>1. TrackerTypeOK /\ GlobalIsSum
  BY DEF TrackerInv
<1>2. CASE perAccount[u] = <<>>
  BY <1>1, <1>2 DEF OnLogout, TrackerInv, TrackerTypeOK, GlobalIsSum
<1>3. CASE perAccount[u] # <<>>
  <2> DEFINE last == <<u, Len(perAccount[u])>>
  <2>1. perAccount[u] \in Seq(Age)
    BY <1>1 DEF TrackerTypeOK
  <2>2. /\ Tail(perAccount[u]) \in Seq(Age)
        /\ DOMAIN Tail(perAccount[u]) = 1..(Len(perAccount[u]) - 1)
        /\ DOMAIN perAccount[u] = 1..Len(perAccount[u])
        /\ Len(perAccount[u]) \in Nat \ {0}
    BY <1>3, <2>1, HeadTailProperties, LenProperties, EmptySeq
  <2>3. perAccount' = [perAccount EXCEPT ![u] = Tail(@)]
    BY <1>3 DEF OnLogout
  <2>4. perAccount' \in [Account -> Seq(Age)]
    BY <1>1, <2>2, <2>3 DEF TrackerTypeOK
  <2>5. DOMAIN perAccount'[u] = DOMAIN perAccount[u] \ {Len(perAccount[u])}
    BY <1>1, <2>2, <2>3 DEF TrackerTypeOK
  <2>6. Slots(perAccount') = Slots(perAccount) \ {last}
    BY <1>1, <2>3, <2>5 DEF Slots, TrackerTypeOK
  <2>7. last \in Slots(perAccount)
    BY <2>2, SlotsMember
  <2>8. IsFiniteSet(Slots(perAccount)) /\ SlotCount(perAccount) \in Nat
    BY <1>1, SlotsFinite DEF TrackerTypeOK
  <2>9. SlotCount(perAccount') = SlotCount(perAccount) - 1
    <3> HIDE DEF last
    <3>1. Cardinality(Slots(perAccount) \ {last}) = Cardinality(Slots(perAccount)) - 1
      BY <2>7, <2>8, FS_RemoveElement
    <3> QED BY <2>6, <3>1 DEF SlotCount
  <2>10. SlotCount(perAccount') \in Nat
    BY <2>4, SlotsFinite
  <2>11. global' = global - 1 /\ global' \in 0..U32Max
    BY <1>1, <1>3, <2>8, <2>9, <2>10
    DEF OnLogout, SaturatingSub, TrackerTypeOK, GlobalIsSum
  <2> QED
    BY <1>1, <2>4, <2>9, <2>11 DEF TrackerInv, TrackerTypeOK, GlobalIsSum, OnLogout
<1> QED BY <1>2, <1>3

(* reap: what is subtracted is the number of slots that went. *)
LEMMA ReapInv ==
    ASSUME TrackerInv, Reap
    PROVE  TrackerInv'
<1> USE TrackerAssumption
<1>1. TrackerTypeOK /\ GlobalIsSum
  BY DEF TrackerInv
<1>2. ASSUME NEW a \in Account
      PROVE  /\ Retain(perAccount[a]) \in Seq(Age)
             /\ DOMAIN Retain(perAccount[a]) \subseteq DOMAIN perAccount[a]
  BY <1>1, RetainSuffix DEF TrackerTypeOK
<1>3. perAccount' \in [Account -> Seq(Age)]
  BY <1>2 DEF Reap
<1>4. Slots(perAccount') \subseteq Slots(perAccount)
  BY <1>2 DEF Reap, Slots
<1>5. IsFiniteSet(Slots(perAccount)) /\ SlotCount(perAccount) \in Nat
  BY <1>1, SlotsFinite DEF TrackerTypeOK
<1>6. SlotCount(perAccount') <= SlotCount(perAccount)
  BY <1>4, <1>5, FS_Subset DEF SlotCount
<1>7. SlotCount(perAccount') \in Nat
  BY <1>3, SlotsFinite
<1>8. global' = SaturatingSub(SlotCount(perAccount),
                              SlotCount(perAccount) - SlotCount(perAccount'))
  BY <1>1 DEF Reap, GlobalIsSum
<1>9. global' = SlotCount(perAccount')
  BY <1>5, <1>6, <1>7, <1>8 DEF SaturatingSub
<1>10. global' \in 0..U32Max
  BY <1>1, <1>5, <1>6, <1>7, <1>9 DEF TrackerTypeOK, GlobalIsSum
<1> QED
  BY <1>1, <1>3, <1>9, <1>10 DEF TrackerInv, TrackerTypeOK, GlobalIsSum, Reap

(* Time passing: the slots stay where they are. *)
LEMMA TickInv ==
    ASSUME TrackerInv, Tick
    PROVE  TrackerInv'
<1> USE TrackerAssumption
<1>1. TrackerTypeOK /\ GlobalIsSum
  BY DEF TrackerInv
<1>2. ASSUME NEW a \in Account
      PROVE  perAccount'[a] \in Seq(Age) /\ DOMAIN perAccount'[a] = DOMAIN perAccount[a]
  <2>1. perAccount[a] \in Seq(Age)
    BY <1>1 DEF TrackerTypeOK
  <2>2. DOMAIN perAccount[a] = 1..Len(perAccount[a]) /\ Len(perAccount[a]) \in Nat
    BY <2>1, LenProperties
  <2>3. \A k \in 1..Len(perAccount[a]) : Older(perAccount[a][k]) \in Age
    BY <2>1, ElementOfSeq DEF Older, Age
  <2>4. [k \in 1..Len(perAccount[a]) |-> Older(perAccount[a][k])] \in Seq(Age)
    BY <2>2, <2>3, IsASeq
  <2> QED BY <2>2, <2>4 DEF Tick
<1>3. perAccount' \in [Account -> Seq(Age)]
  BY <1>2 DEF Tick
<1>4. Slots(perAccount') = Slots(perAccount)
  BY <1>2 DEF Slots
<1> QED BY <1>1, <1>3, <1>4 DEF TrackerInv, TrackerTypeOK, GlobalIsSum, SlotCount, Tick

LEMMA TrackerInvStep == TrackerInv /\ [TrackerNext]_trackerVars => TrackerInv'
<1> SUFFICES ASSUME TrackerInv, [TrackerNext]_trackerVars
             PROVE  TrackerInv'
  OBVIOUS
<1>1. ASSUME NEW l \in Limit, SetLimits(l) PROVE TrackerInv'
  BY <1>1, TrackerAssumption DEF SetLimits, TrackerInv, TrackerTypeOK, GlobalIsSum
<1>2. CASE UNCHANGED trackerVars
  BY <1>2 DEF trackerVars, TrackerInv, TrackerTypeOK, GlobalIsSum
<1> QED
  BY <1>1, <1>2, TryAdmitInv, OnLogoutInv, ReapInv, TickInv DEF TrackerNext

(* The state of the tracker keeps its types: the u32 counters in range and *)
(* the lists lists of ages.                                                *)
THEOREM TrackerTypeCorrect == TrackerSpec => []TrackerTypeOK
<1>1. TrackerInv => TrackerTypeOK
  BY DEF TrackerInv
<1> QED BY <1>1, TrackerInvInit, TrackerInvStep, PTL DEF TrackerSpec

(* The global counter is always the number of slots held, however logins,  *)
(* logouts (of sessions already reaped too), reaps and reloads alternate.  *)
THEOREM GlobalCountCorrect == TrackerSpec => []GlobalIsSum
<1>1. TrackerInv => GlobalIsSum
  BY DEF TrackerInv
<1> QED BY <1>1, TrackerInvInit, TrackerInvStep, PTL DEF TrackerSpec

(* A list is in admission order. *)
Sorted(list) == \A j, k \in DOMAIN list : j <= k => list[j] >= list[k]

(* A list that lost its first c elements stays in that order. *)
LEMMA SortedShift ==
    ASSUME NEW list, NEW new, NEW c \in Nat, Sorted(list), DOMAIN new \subseteq Int,
           \A k \in DOMAIN new : k + c \in DOMAIN list /\ new[k] = list[k + c]
    PROVE  Sorted(new)
<1> SUFFICES ASSUME NEW j \in DOMAIN new, NEW k \in DOMAIN new, j <= k
             PROVE  new[j] >= new[k]
  BY DEF Sorted
<1>1. j + c <= k + c OBVIOUS
<1>2. list[j + c] >= list[k + c] BY <1>1 DEF Sorted
<1> QED BY <1>2

LEMMA OldestFirstStep ==
    TrackerTypeOK /\ OldestFirst /\ [TrackerNext]_trackerVars => OldestFirst'
<1> SUFFICES ASSUME TrackerTypeOK, OldestFirst, [TrackerNext]_trackerVars
             PROVE  OldestFirst'
  OBVIOUS
<1> USE TrackerAssumption
<1>1. ASSUME NEW a \in Account
      PROVE  /\ perAccount[a] \in Seq(Age) /\ Sorted(perAccount[a])
             /\ DOMAIN perAccount[a] = 1..Len(perAccount[a]) /\ Len(perAccount[a]) \in Nat
             /\ \A k \in DOMAIN perAccount[a] : perAccount[a][k] \in Age
  BY LenProperties, ElementOfSeq DEF TrackerTypeOK, OldestFirst, Sorted
<1>2. SUFFICES ASSUME NEW a \in Account PROVE Sorted(perAccount'[a])
  BY DEF OldestFirst, Sorted
<1>3. ASSUME NEW u \in Account, TryAdmit(u) PROVE Sorted(perAccount'[a])
  <2>1. CASE a = u
    <3> DEFINE new == Append(perAccount[a], 0)
    <3>1. /\ DOMAIN new = 1..(Len(perAccount[a]) + 1)
          /\ \A k \in 1..Len(perAccount[a]) : new[k] = perAccount[a][k]
          /\ new[Len(perAccount[a]) + 1] = 0
      BY <1>1
    <3>2. \A k \in DOMAIN new : new[k] \in Nat
      BY <1>1, <3>1 DEF Age
    <3> HIDE DEF new
    <3>3. Sorted(new)
      BY <1>1, <3>1, <3>2 DEF Sorted
    <3> QED BY <1>3, <2>1, <3>3 DEF TryAdmit, TrackerTypeOK, new
  <2>2. CASE a # u
    BY <1>1, <1>3, <2>2 DEF TryAdmit, TrackerTypeOK
  <2> QED BY <2>1, <2>2
<1>4. ASSUME NEW u \in Account, OnLogout(u) PROVE Sorted(perAccount'[a])
  <2>1. CASE a = u /\ perAccount[a] # <<>>
    <3>1. /\ DOMAIN Tail(perAccount[a]) = 1..(Len(perAccount[a]) - 1)
          /\ \A k \in 1..(Len(perAccount[a]) - 1) :
                Tail(perAccount[a])[k] = perAccount[a][k + 1]
      BY <1>1, <2>1
    <3>2. /\ DOMAIN Tail(perAccount[a]) \subseteq Int
          /\ \A k \in DOMAIN Tail(perAccount[a]) :
                k + 1 \in DOMAIN perAccount[a] /\ Tail(perAccount[a])[k] = perAccount[a][k + 1]
      BY <1>1, <3>1
    <3>3. Sorted(Tail(perAccount[a]))
      BY <1>1, <3>2, SortedShift
    <3> QED BY <1>4, <2>1, <3>3 DEF OnLogout, TrackerTypeOK
  <2>2. CASE a # u \/ perAccount[a] = <<>>
    BY <1>1, <1>4, <2>2 DEF OnLogout, TrackerTypeOK
  <2> QED BY <2>1, <2>2
<1>5. CASE Reap
  <2> DEFINE c == Cardinality(Stale(perAccount[a]))
             new == Retain(perAccount[a])
  <2>1. /\ c \in Nat /\ new \in Seq(Age)
        /\ \A k \in DOMAIN new : k + c \in DOMAIN perAccount[a] /\ new[k] = perAccount[a][k + c]
    BY <1>1, RetainSuffix
  <2>2. DOMAIN new = 1..Len(new)
    BY <2>1, LenProperties
  <2> HIDE DEF c, new
  <2>3. DOMAIN new \subseteq Int
    BY <2>1, <2>2, LenProperties
  <2>4. Sorted(new)
    BY <1>1, <2>1, <2>3, SortedShift
  <2> QED BY <1>5, <2>4 DEF Reap, new
<1>6. ASSUME NEW l \in Limit, SetLimits(l) PROVE Sorted(perAccount'[a])
  BY <1>1, <1>6 DEF SetLimits
<1>7. CASE Tick
  <2>1. /\ DOMAIN perAccount'[a] = DOMAIN perAccount[a]
        /\ \A k \in DOMAIN perAccount[a] : perAccount'[a][k] = Older(perAccount[a][k])
    BY <1>7 DEF Tick, TrackerTypeOK
  <2>2. \A x, y \in Age : x >= y => Older(x) >= Older(y)
    BY DEF Older, Age
  <2> QED BY <1>1, <2>1, <2>2 DEF Sorted
<1>8. CASE UNCHANGED trackerVars
  BY <1>1, <1>8 DEF trackerVars
<1> QED BY <1>3, <1>4, <1>5, <1>6, <1>7, <1>8 DEF TrackerNext

(* Every account's list stays in admission order, so remove(0) of          *)
(* on_logout really takes the oldest slot and the slots reap takes are a   *)
(* prefix.                                                                 *)
THEOREM AdmissionOrderKept == TrackerSpec => []OldestFirst
<1>1. TrackerInit => OldestFirst
  BY DEF TrackerInit, OldestFirst
<1> QED BY <1>1, TrackerTypeCorrect, OldestFirstStep, PTL DEF TrackerSpec

(* A downward-closed set of positions is an initial interval. *)
LEMMA InitialInterval ==
    ASSUME NEW n \in Nat, NEW S \in SUBSET (1..n),
           \A j, k \in 1..n : j <= k /\ k \in S => j \in S
    PROVE  Cardinality(S) \in 0..n /\ S = 1..Cardinality(S)
<1> DEFINE c == Cardinality(S)
<1>1. IsFiniteSet(1..n) /\ Cardinality(1..n) = n
  BY FS_Interval
<1>2. IsFiniteSet(S) /\ c \in Nat /\ c <= n
  BY <1>1, FS_Subset, FS_CardinalityType
<1>3. ASSUME NEW k \in S PROVE k <= c
  <2>1. k \in 1..n /\ 1..k \in SUBSET S
    BY <1>3
  <2>2. Cardinality(1..k) <= c
    BY <1>2, <2>1, FS_Subset
  <2>3. Cardinality(1..k) = k
    BY <2>1, FS_Interval
  <2> QED BY <2>2, <2>3
<1>4. S \in SUBSET (1..c)
  BY <1>3
<1>5. IsFiniteSet(1..c) /\ Cardinality(1..c) = c
  BY <1>2, FS_Interval
<1>6. S = 1..c
  BY <1>4, <1>5, FS_Subset
<1> QED BY <1>2, <1>6

(* In a list in admission order the stale slots come first, and what       *)
(* Retain leaves is all of the others.                                     *)
LEMMA RetainExact ==
    ASSUME NEW list \in Seq(Age), Sorted(list)
    PROVE  LET c == Cardinality(Stale(list))
           IN  /\ c \in 0..Len(list)
               /\ Stale(list) = 1..c
               /\ DOMAIN Retain(list) = 1..(Len(list) - c)
               /\ \A k \in 1..(Len(list) - c) : Retain(list)[k] = list[k + c]
<1> DEFINE c == Cardinality(Stale(list))
<1>1. /\ Len(list) \in Nat /\ DOMAIN list = 1..Len(list)
      /\ \A k \in 1..Len(list) : list[k] \in Age
  BY LenProperties, ElementOfSeq
<1>2. Stale(list) \in SUBSET (1..Len(list))
  BY <1>1 DEF Stale
<1>3. ASSUME NEW j \in 1..Len(list), NEW k \in 1..Len(list), j <= k, k \in Stale(list)
      PROVE  j \in Stale(list)
  BY <1>1, <1>3, TrackerAssumption DEF Stale, Sorted, Age
<1>4. c \in 0..Len(list) /\ Stale(list) = 1..c
  BY <1>1, <1>2, <1>3, InitialInterval
<1>5. /\ DOMAIN SubSeq(list, c + 1, Len(list)) = 1..(Len(list) - c)
      /\ \A k \in 1..(Len(list) - c) : SubSeq(list, c + 1, Len(list))[k] = list[k + c]
  BY <1>1, <1>4
<1> QED BY <1>4, <1>5 DEF Retain

(* Retain says how many slots the retain closure of reap drops, not which. *)
(* That the two come to the same: of the first c slots of a list, all of   *)
(* them admitted at least TTL ago, nothing is left; of the others, none of *)
(* them that old, everything, in order.                                    *)
RetainIsFilter ==
    \A a \in Account : \E c \in 0..Len(perAccount[a]) :
        /\ \A k \in DOMAIN perAccount[a] : perAccount[a][k] >= TTL <=> k <= c
        /\ Retain(perAccount[a]) = [k \in 1..(Len(perAccount[a]) - c) |-> perAccount[a][k + c]]

(* In every reachable state, since the lists are in admission order. *)
LEMMA RetainIsTheFilter == TrackerSpec => []RetainIsFilter
<1>1. TrackerTypeOK /\ OldestFirst => RetainIsFilter
  <2> SUFFICES ASSUME TrackerTypeOK, OldestFirst, NEW a \in Account
               PROVE  \E c \in 0..Len(perAccount[a]) :
                        /\ \A k \in DOMAIN perAccount[a] : perAccount[a][k] >= TTL <=> k <= c
                        /\ Retain(perAccount[a])
                             = [k \in 1..(Len(perAccount[a]) - c) |-> perAccount[a][k + c]]
    BY DEF RetainIsFilter
  <2> DEFINE list == perAccount[a]
             c == Cardinality(Stale(list))
  <2>1. list \in Seq(Age) /\ Sorted(list)
    BY DEF TrackerTypeOK, OldestFirst, Sorted
  <2>2. Len(list) \in Nat /\ DOMAIN list = 1..Len(list)
    BY <2>1, LenProperties
  <2> HIDE DEF list
  <2>3. /\ c \in 0..Len(list) /\ Stale(list) = 1..c
        /\ DOMAIN Retain(list) = 1..(Len(list) - c)
        /\ \A k \in 1..(Len(list) - c) : Retain(list)[k] = list[k + c]
    BY <2>1, RetainExact
  <2>4. Retain(list) \in Seq(Age)
    BY <2>1, RetainSuffix
  <2>5. Retain(list) = [k \in 1..(Len(list) - c) |-> Retain(list)[k]]
    BY <2>3, <2>4
  <2>6. Retain(list) = [k \in 1..(Len(list) - c) |-> list[k + c]]
    BY <2>3, <2>5
  <2>7. \A k \in DOMAIN list : list[k] >= TTL <=> k <= c
    BY <2>2, <2>3 DEF Stale
  <2> QED BY <2>3, <2>6, <2>7 DEF list
<1> QED BY <1>1, TrackerTypeCorrect, AdmissionOrderKept, PTL
=============================================================================
