---------------------------- MODULE MCWithdrawals ----------------------------
(* Instances of Withdrawals for TLC. *)
EXTENDS Withdrawals, TLC

\* Calls and rows are interchangeable.
CallsAndRows == Permutations(Calls) \cup Permutations(Withdrawals)
=============================================================================
