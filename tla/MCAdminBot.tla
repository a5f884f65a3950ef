----------------------------- MODULE MCAdminBot -----------------------------
(* An admin who writes all but /cancel, and a stranger who may become one. *)
EXTENDS AdminBot, TLC

CONSTANTS p1, p2

MCWrites == [from : {p1}, kind : Kinds \ {"cancel"}] \cup [from : {p2}, kind : {"text"}]
CancelWrites == [from : {p1}, kind : {"broadcast", "newquest", "cancel"}]
=============================================================================
