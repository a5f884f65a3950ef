------------------------------ MODULE MCQuests ------------------------------
(* Instances of Quests for TLC.                                            *)
EXTENDS Quests, TLC

\* Win once, and play twice.
MCTarget == 1 :> 1 @@ 2 :> 2
MCCounts == 1 :> {"win"} @@ 2 :> {"win", "lose"}
Same == Permutations(Games) \cup Permutations(Claims)
=============================================================================
