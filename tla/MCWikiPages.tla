------------------------------ MODULE MCWikiPages ------------------------------
(* A page of wiki.toml and one that may be created, hidden at a place of   *)
(* its own, or at one whose talk route the first has.                      *)
EXTENDS WikiPages, TLC

CONSTANTS topics, custom, a, b

MCPages == {topics, custom}
Topics == [place |-> {"/topics", "/topics/talk", "topics.md"}, shown |-> TRUE]
MCOptions == {Topics, [place |-> {"/topics/talk", "custom.md"}, shown |-> TRUE],
              [place |-> {"/custom", "/custom/talk", "custom.md"}, shown |-> FALSE]}
MCConfigured == [p \in {topics} |-> Topics]
CallerSymmetry == Permutations({a, b})
===============================================================================
