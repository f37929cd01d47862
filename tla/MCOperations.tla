---------------------------- MODULE MCOperations ----------------------------
(* An instance of Operations for TLC: a camera and a viewer to begin with, *)
(* and requests for two cameras with a user name, one of them with a TLS   *)
(* rule, for a viewer of one of them (which may not be there yet) and for  *)
(* a viewer with the first camera's login.  One user name holds an escape  *)
(* and reads back as another.                                              *)
EXTENDS Operations, TLC

Camera(n, u, p, t) ==
    [kind |-> "camera", name |-> n, username |-> u, password |-> p, tls |-> t]
View(n, s, p) == [kind |-> "viewer", name |-> n, scope |-> s, password |-> p]

MCRequest ==
    {Camera("b", "c\\u0061m", "p1", TRUE), Camera("d", "dam", "p1", FALSE), View("v", {"b"}, "p2"),
     View("a", All, "p2")}
MCUnquote(s) == IF s = "c\\u0061m" THEN "cam" ELSE s

MCFirstLines ==
    Render(Camera("a", None, "p0", TRUE), HashPassword("p0", None))
        \o Render(View("w", All, "p0"), HashPassword("p0", None))

MCRoot == <<"srv">>
In(c, a) == [dir |-> "in", clip |-> c, age |-> a]
MCBatch == {<<In(c, TRUE)>> : c \in Clip} \cup {<<In(c, TRUE), In(c, FALSE)>> : c \in Clip}

(* Keys and clips meet the tables only in what the server has loaded:      *)
(* where writes come out short, there are no others.                       *)
OneAtATime ==
    short = 0 \/ (/\ file.recipients = {FirstKey} /\ \A j \in Job : pair[j] = None
                  /\ \A c \in Clip : archive[c] = None)

Symmetry == Permutations(Job)
=============================================================================
