------------------------------ MODULE PayOnce ------------------------------
(***************************************************************************)
(* What every part of the backend that gives something away promises: a    *)
(* thing is taken by one payee, for good, and then paid to him at most     *)
(* once.  Whether it is paid at all is not promised: the code takes and    *)
(* pays in two statements in most places.                                  *)
(***************************************************************************)
EXTENDS Integers

CONSTANTS Things, Payees, None

VARIABLES
  owner,  \* who has taken a thing
  paid    \* how often it has been paid to whom

Unpaid == [p \in Payees |-> 0]

Init ==
  /\ owner = [t \in Things |-> None]
  /\ paid = [t \in Things |-> Unpaid]

Take(t, p) ==
  /\ owner[t] = None
  /\ owner' = [owner EXCEPT ![t] = p]
  /\ UNCHANGED paid

Pay(t) ==
  /\ owner[t] # None
  /\ paid[t] = Unpaid
  /\ paid' = [paid EXCEPT ![t][owner[t]] = 1]
  /\ UNCHANGED owner

\* Both in one transaction.
TakeAndPay(t, p) ==
  /\ owner[t] = None
  /\ paid[t] = Unpaid
  /\ owner' = [owner EXCEPT ![t] = p]
  /\ paid' = [paid EXCEPT ![t][p] = 1]

Next == \E t \in Things : Pay(t) \/ \E p \in Payees : Take(t, p) \/ TakeAndPay(t, p)

Spec == Init /\ [][Next]_<<owner, paid>>
=============================================================================
