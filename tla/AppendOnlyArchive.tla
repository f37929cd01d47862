------------------------- MODULE AppendOnlyArchive -------------------------
(***************************************************************************)
(* What the archive promises, without staging files, descriptors or sweep: *)
(* a clip appears once, whole, and is never altered; it can only disappear *)
(* again when retention takes it.                                          *)
(***************************************************************************)
EXTENDS Naturals, Sequences

CONSTANTS
    Clip,       \* the names clips are archived under
    Absent      \* no clip of that name

VARIABLES
    clips,      \* what each name holds
    expired     \* the clips past their retention period; time moves it, not the archive

(* Blocks 1, 2, ... of a clip, none missing, doubled or out of place. *)
Whole(s) == s \in Seq(Nat) /\ \A k \in DOMAIN s : s[k] = k

Init == clips = [c \in Clip |-> Absent]

(* The name is free, and from one step to the next it holds a clip. *)
Publish(c) ==
    /\ clips[c] = Absent
    /\ Whole(clips'[c])
    /\ clips' = [clips EXCEPT ![c] = clips'[c]]

(* The only way to lose a clip. *)
Expire(c) == c \in expired /\ clips' = [clips EXCEPT ![c] = Absent]

Next == \E c \in Clip : Publish(c) \/ Expire(c)

Spec == Init /\ [][Next]_clips
=============================================================================
