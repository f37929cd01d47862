--------------------------- MODULE MCScopedAccess ---------------------------
(* An instance of ScopedAccess for TLC: two cameras with a folder each,    *)
(* clips that are encrypted, and a link in the tree of the first camera.   *)
EXTENDS ScopedAccess, TLC

Camera(n, u) == [name |-> n, username |-> u, hash |-> "phc", tls |-> FALSE]
Account(n, s) == [name |-> n, hash |-> "phc", scope |-> s]
Config(cams, groups, viewers) ==
    [camera |-> cams, group |-> groups, viewer |-> viewers, settings |-> "ok"]

FrontA == Camera("a", None)
BackB == Camera("b", "cam")

MCFile ==
    {Config({FrontA, BackB}, <<>>, {Account("v", All)}),
     \* a group with the name of a camera, and a viewer without a scope
     Config({FrontA, BackB}, "b" :> {"a", "b"}, {Account("v", {"b"}), Account("x", {})}),
     \* a login used twice, by a viewer and a camera or by two cameras
     Config({FrontA}, <<>>, {Account("a", All)}),
     Config({FrontA, BackB}, <<>>, {Account("cam", {"b"})}),
     Config({FrontA, Camera("b", "a")}, <<>>, {}),
     \* names that are not there, settings that are wrong
     Config({FrontA}, "g" :> {"b"}, {Account("v", {"g"})}),
     Config({FrontA}, <<>>, {Account("v", {"b"})}),
     [Config({FrontA}, <<>>, {}) EXCEPT !.settings = "bad"]}

MCRoot == <<"srv">>
A == <<"srv", "a">>
B == <<"srv", "b">>
MCName == {"srv", "other", "a", "b", "day", "link", "clip", "clip.age", "x.age", "partial",
           "quarantine", "test", ".", ".."}
MCFinalName == [n \in MCName |-> IF n = "clip" THEN "clip.age" ELSE "x.age"]
MCStagingName == [n \in MCName |-> "partial"]

MCStartDirs == {<<>>, MCRoot, <<"other">>, A, A \o <<"day">>, B, B \o <<"day">>}
MCStartFiles == {<<"other", "clip">>}
MCNode == MCStartDirs \cup MCStartFiles
          \cup {A \o t : t \in {<<"day", "partial">>, <<"day", "clip.age">>,
                               <<"quarantine">>, <<"quarantine", "test">>}}
(* Out of the archive, or into the tree of the other camera. *)
MCLinkSets == {{[at |-> A \o <<"link">>, to |-> to]} : to \in {<<"other">>, B \o <<"day">>}}

MCVirtualPath ==
    {<<>>, <<"day">>, <<"day", ".", "clip">>, <<"link">>, <<"..", "b", "test">>,
     <<"a", "link", "clip">>, <<"a", "..", "b">>}

Sessions == Permutations(Session)
=============================================================================
