------------------------------ MODULE MCPipeline ------------------------------
(* A small instance of Pipeline for TLC: one chat, whose first POST is a batch *)
(* of a picture and a reaction and whose second, to the legacy route, is a     *)
(* text.                                                                       *)
EXTENDS Pipeline, TLC

CONSTANTS m1, m2, m3, ann

OneChat == [m \in {m1, m2, m3} |-> ann]
Sorts == m1 :> "media" @@ m2 :> "other" @@ m3 :> "text"
TwoPosts == {<<m1, m2>>, <<m3>>}
MetaAndLegacy == <<m1, m2>> :> "meta" @@ <<m3>> :> "legacy"
=============================================================================
