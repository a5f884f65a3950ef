---------------------------- MODULE MCReferrals ----------------------------
(* Instances of Referrals for TLC.                                         *)
EXTENDS Referrals, TLC

MCReward == 2 :> 2
MCCost == 2 :> 1
MCGrants == {-1}
Same == Permutations(Users) \cup Permutations(Requests)
=============================================================================
