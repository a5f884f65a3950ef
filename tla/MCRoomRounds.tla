---------------------------- MODULE MCRoomRounds ----------------------------
(* Instances of RoomRounds for TLC: fewer rounds and polls than the code's. *)
EXTENDS RoomRounds, TLC
=============================================================================
