----------------------------- MODULE MCDeposits -----------------------------
(* A payment that names its user, one to be matched by its sender's wallet, *)
(* one that names nobody who exists, and a withdrawal.                      *)
EXTENDS Deposits, TLC

CONSTANTS u1, u2, h1, h2, h3, h4, a1

MCPayment ==
  h1 :> [memo |-> u1, source |-> a1, nano |-> 31] @@
  h2 :> [memo |-> Nobody, source |-> a1, nano |-> 20] @@
  h3 :> [memo |-> Stranger, source |-> a1, nano |-> 20] @@
  h4 :> [memo |-> Nobody, source |-> a1, nano |-> 0]
=============================================================================
