----------------------------- MODULE MCArchive -----------------------------
(* Instances of Archive for TLC.                                           *)
EXTENDS Archive, TLC

Path(d, s) == [in |-> d, stem |-> s, suffix |-> <<>>]

(* One clip in the camera's home. *)
OneClip == {Path("home", "clip")}

(* One clip in a date folder. *)
DayClip == {Path("day", "clip")}

(* Two clips, one of them in a date folder. *)
TwoClips == {Path("home", "clip"), Path("day", "clip")}

(* A clip in a date folder, and the connection test of the camera. *)
ClipAndProbe == {Path("day", "clip"), Path("home", "test")}

Symmetry == Permutations(Upload)
=============================================================================
