------------------------------ MODULE MCLedger ------------------------------
(* Instances of Ledger for TLC.                                            *)
EXTENDS Ledger, TLC

\* Requests and commands with amounts that a balance of StartGems meets
\* once, or not at all.
MCBets == {-1, 2}
MCDeltas == {-2, 1}
=============================================================================
