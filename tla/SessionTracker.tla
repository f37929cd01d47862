--------------------------- MODULE SessionTracker ---------------------------
(***************************************************************************)
(* The in-process session accountant of src/limits.rs: one slot (an admit  *)
(* timestamp) per admitted session, grouped by account, a global count     *)
(* kept beside the lists, and the two caps.  Every method of the Rust      *)
(* type runs under one mutex, so every method is one atomic action.        *)
(*                                                                         *)
(* A timestamp is modelled by its age: Tick makes every slot one unit      *)
(* older, and an age saturates at TTL because the code only ever asks      *)
(* whether an age is below the TTL.  An account without an entry in the    *)
(* hash map is an account with the empty sequence.                         *)
(***************************************************************************)
EXTENDS Integers, Sequences, FiniteSets

CONSTANTS
    Account,    \* the user names that log in
    Limit,      \* the [global, perAccount] caps a configuration may set
    NoCap,      \* Option::None of max_per_account
    TTL,        \* SESSION_TTL_SECS, in ticks
    U32Max      \* u32::MAX

ASSUME TrackerAssumption ==
    /\ IsFiniteSet(Account)
    /\ TTL \in Nat \ {0}
    /\ U32Max \in Nat
    /\ NoCap \notin Nat
    /\ Limit \subseteq [global : 0..U32Max, perAccount : (0..U32Max) \cup {NoCap}]

VARIABLES
    perAccount,     \* SessionState.per_account: ages, in admission order
    global,         \* SessionState.global
    maxGlobal,      \* SessionState.max_global
    maxPerAccount   \* SessionState.max_per_account

trackerVars == <<perAccount, global, maxGlobal, maxPerAccount>>

Age == 0..TTL

(* u32::saturating_add(1) and u32::saturating_sub. *)
SaturatingInc(n) == IF n < U32Max THEN n + 1 ELSE U32Max
SaturatingSub(n, k) == IF k < n THEN n - k ELSE 0

(* The slots held: one pair per element of each account's list. *)
Slots(lists) == UNION {{a} \X DOMAIN lists[a] : a \in Account}
SlotCount(lists) == Cardinality(Slots(lists))
-----------------------------------------------------------------------------
TrackerInit ==
    /\ perAccount = [a \in Account |-> <<>>]
    /\ global = 0
    /\ \E l \in Limit : maxGlobal = l.global /\ maxPerAccount = l.perAccount

(* A plausible slip of the cap test: it lets one session too many in. *)
AtCapacityOffByOne(u) ==
    \/ global > maxGlobal
    \/ maxPerAccount # NoCap /\ Len(perAccount[u]) > maxPerAccount

AtCapacity(u) ==
    \/ global >= maxGlobal
    \/ maxPerAccount # NoCap /\ Len(perAccount[u]) >= maxPerAccount

(* A slip: the newest slot goes to the front of the list. *)
TryAdmitInFront(u) ==
    /\ ~AtCapacity(u)
    /\ perAccount' = [perAccount EXCEPT ![u] = <<0>> \o @]
    /\ global' = SaturatingInc(global)
    /\ UNCHANGED <<maxGlobal, maxPerAccount>>

(* try_admit when it returns true: check and reserve under one lock. *)
TryAdmit(u) ==
    /\ ~AtCapacity(u)
    /\ perAccount' = [perAccount EXCEPT ![u] = Append(@, 0)]
    /\ global' = SaturatingInc(global)
    /\ UNCHANGED <<maxGlobal, maxPerAccount>>

(* A slip: the count goes down although no slot was found. *)
OnLogoutUnconditional(u) ==
    /\ perAccount' = [perAccount EXCEPT ![u] = IF @ = <<>> THEN @ ELSE Tail(@)]
    /\ global' = SaturatingSub(global, 1)
    /\ UNCHANGED <<maxGlobal, maxPerAccount>>

(* A slip: plain u32 subtraction, which wraps below zero. *)
OnLogoutWraps(u) ==
    /\ perAccount' = [perAccount EXCEPT ![u] = IF @ = <<>> THEN @ ELSE Tail(@)]
    /\ global' = global - 1
    /\ UNCHANGED <<maxGlobal, maxPerAccount>>

(* A slip: pop() drops the newest slot instead of the oldest. *)
OnLogoutNewest(u) ==
    /\ IF perAccount[u] # <<>>
       THEN /\ perAccount' = [perAccount EXCEPT ![u] = SubSeq(@, 1, Len(@) - 1)]
            /\ global' = SaturatingSub(global, 1)
       ELSE UNCHANGED <<perAccount, global>>
    /\ UNCHANGED <<maxGlobal, maxPerAccount>>

(* on_logout: v.remove(0) drops the OLDEST slot of the account, whichever  *)
(* session it was taken for; without a slot nothing is counted down.       *)
OnLogout(u) ==
    /\ IF perAccount[u] # <<>>
       THEN /\ perAccount' = [perAccount EXCEPT ![u] = Tail(@)]
            /\ global' = SaturatingSub(global, 1)
       ELSE UNCHANGED <<perAccount, global>>
    /\ UNCHANGED <<maxGlobal, maxPerAccount>>

(* What the retain closure of reap leaves of one list.  The list is in     *)
(* admission order (OldestFirst), so the stale slots are a prefix of it.   *)
Stale(list) == {k \in DOMAIN list : list[k] >= TTL}
Retain(list) == SubSeq(list, Cardinality(Stale(list)) + 1, Len(list))

(* reap: one pass over all accounts, then one subtraction from global. *)
Reap ==
    /\ perAccount' = [a \in Account |-> Retain(perAccount[a])]
    /\ global' = SaturatingSub(global, SlotCount(perAccount) - SlotCount(perAccount'))
    /\ UNCHANGED <<maxGlobal, maxPerAccount>>

SetLimits(l) ==
    /\ maxGlobal' = l.global
    /\ maxPerAccount' = l.perAccount
    /\ UNCHANGED <<perAccount, global>>

(* Time passes; Instant::now() moves on for every slot alike. *)
Older(age) == IF age < TTL THEN age + 1 ELSE TTL
Tick ==
    /\ perAccount' = [a \in Account |->
                        [k \in DOMAIN perAccount[a] |-> Older(perAccount[a][k])]]
    /\ UNCHANGED <<global, maxGlobal, maxPerAccount>>

TrackerNext ==
    \/ \E u \in Account : TryAdmit(u) \/ OnLogout(u)
    \/ Reap
    \/ \E l \in Limit : SetLimits(l)
    \/ Tick

TrackerSpec == TrackerInit /\ [][TrackerNext]_trackerVars
-----------------------------------------------------------------------------
(* The types of the state limits.rs keeps: lists of ages and u32 counters. *)
TrackerTypeOK ==
    /\ perAccount \in [Account -> Seq(Age)]
    /\ global \in 0..U32Max
    /\ maxGlobal \in 0..U32Max
    /\ maxPerAccount \in (0..U32Max) \cup {NoCap}

(* limits.rs keeps `global` beside the lists and changes the two by        *)
(* separate statements with saturating arithmetic.  They never drift: the  *)
(* counter is the number of slots held over all accounts, so neither       *)
(* saturation is ever reached and no admission is refused or granted on a  *)
(* wrong total, whatever the order of logouts, reaps and reloads.          *)
GlobalIsSum == global = SlotCount(perAccount)

(* remove(0) is "the oldest session" and reap's filter drops a prefix only *)
(* because each list stays in admission order.                             *)
OldestFirst ==
    \A a \in Account : \A j, k \in DOMAIN perAccount[a] :
        j <= k => perAccount[a][j] >= perAccount[a][k]
=============================================================================
