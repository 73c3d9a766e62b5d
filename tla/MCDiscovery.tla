---------------------------- MODULE MCDiscovery -----------------------------
(***************************************************************************)
(* Small instances of Discovery: texts with and without a token, queries   *)
(* of every ranking the two halves of the index can give.                  *)
(***************************************************************************)
EXTENDS Discovery

CONSTANTS n1, n2, s1, s2

MCPointId == [x \in {n1, n2} \X {s1, s2} |-> x]

MCScroll == <<<<n2, s1>>, <<n1, s2>>, <<n1, s1>>, <<n2, s2>>>>

Of(id, text) == [id |-> id, text |-> text]

(* One skill, two skills, a skill id given twice, no word in any text.      *)
MCCards ==
    {[name |-> n1, skills |-> <<>>],
     [name |-> n1, skills |-> <<Of(s1, "plain")>>],
     [name |-> n2, skills |-> <<Of(s1, "plain"), Of(s2, "other")>>],
     [name |-> n2, skills |-> <<Of(s2, "plain"), Of(s2, "wordless")>>]}

MCQueries ==
    [dense : [{"plain", "other", "wordless"} -> {-2, 1, 2}],
     raw   : {[text \in {"plain", "other", "wordless"} |->
                 CASE text = "plain" -> n [] text = "other" -> m [] OTHER -> 0] :
                 n \in {-1, 1, 3}, m \in {0, 2}}]

MCUnique     == <<n1, n2>>
MCNamesakes  == <<n1, n1>>
=============================================================================
