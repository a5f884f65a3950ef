-------------------------- MODULE WithdrawalsProofs --------------------------
(***************************************************************************)
(* Theorems about Withdrawals, for any number of users, withdrawals and    *)
(* concurrent handlers, with failing statements and restarts.              *)
(***************************************************************************)
EXTENDS Withdrawals, FiniteSetTheorems, WellFoundedInduction, TLAPS

-----------------------------------------------------------------------------
(* Typing.                                                                 *)

\* The record of a running handler, one field at a time.
LEMMA IdleType == Idle \in CallStates /\ Idle.at = "idle" /\ Idle.user = Nobody /\ Idle.w = NoRow
  BY WithdrawalsAssumption DEF Idle, CallStates, Stages

\* A handler that goes on has what it had; one that returns is idle; nobody else moves.
LEMMA GoOnEffect ==
  ASSUME TypeOK, NEW c \in Calls, NEW test, NEW stage \in Stages, GoOnIf(c, test, stage)
  PROVE  /\ call' \in [Calls -> CallStates]
         /\ \A d \in Calls : d # c => call'[d] = call[d]
         /\ \/ call'[c] = Idle /\ ~test
            \/ /\ test /\ call'[c].at = stage
               /\ call'[c].user = call[c].user /\ call'[c].amount = call[c].amount
               /\ call'[c].address = call[c].address /\ call'[c].w = call[c].w
  <1>1. CASE test
    BY <1>1, IdleType DEF GoOnIf, Goto, Return, TypeOK, CallStates
  <1>2. CASE ~test
    BY <1>2, IdleType DEF GoOnIf, Goto, Return, TypeOK
  <1> QED
    BY <1>1, <1>2

\* The handler that begins is the only one that moves.
LEMMA BeginForEffect ==
  ASSUME TypeOK, NEW c \in Calls, NEW u \in Users, NEW state \in CallStates, BeginFor(c, u, state)
  PROVE  /\ call' \in [Calls -> CallStates]
         /\ \A d \in Calls : d # c => call'[d] = call[d]
         /\ call[c] = Idle
         /\ call'[c].at = state.at /\ call'[c].user = u /\ call'[c].amount = state.amount
         /\ call'[c].address = state.address /\ call'[c].w = state.w
         /\ orderly' \subseteq Users /\ orderly' \subseteq orderly
         /\ u \in orderly' => \A d \in Calls : call[d].user # u
  BY DEF BeginFor, TypeOK, CallStates

LEMMA BeginOnEffect ==
  ASSUME TypeOK, NEW c \in Calls, NEW w \in Withdrawals, NEW stage \in Stages, BeginOn(c, w, stage)
  PROVE  /\ call' \in [Calls -> CallStates]
         /\ \A d \in Calls : d # c => call'[d] = call[d]
         /\ call[c] = Idle
         /\ call'[c].at = stage /\ call'[c].user = Nobody /\ call'[c].w = w
         /\ clean' \subseteq Withdrawals /\ clean' \subseteq clean
         /\ w \in clean' => \A d \in Calls : call[d].w # w
  <1>1. [Idle EXCEPT !.at = stage, !.w = w] \in CallStates
    BY IdleType DEF CallStates
  <1>2. /\ [Idle EXCEPT !.at = stage, !.w = w].at = stage
        /\ [Idle EXCEPT !.at = stage, !.w = w].w = w
        /\ [Idle EXCEPT !.at = stage, !.w = w].user = Nobody
    BY IdleType DEF CallStates
  <1>3. call' = [call EXCEPT ![c] = [Idle EXCEPT !.at = stage, !.w = w]] /\ call[c] = Idle
    BY DEF BeginOn
  <1>4. /\ clean' \subseteq Withdrawals /\ clean' \subseteq clean
        /\ w \in clean' => \A d \in Calls : call[d].w # w
    BY DEF BeginOn, TypeOK
  <1> QED
    BY <1>1, <1>2, <1>3, <1>4 DEF TypeOK

\* Goto and Return by themselves.
LEMMA GotoEffect ==
  ASSUME TypeOK, NEW c \in Calls, NEW stage \in Stages, Goto(c, stage)
  PROVE  /\ call' \in [Calls -> CallStates]
         /\ \A d \in Calls : d # c => call'[d] = call[d]
         /\ call'[c].at = stage
         /\ call'[c].user = call[c].user /\ call'[c].amount = call[c].amount
         /\ call'[c].address = call[c].address /\ call'[c].w = call[c].w
  BY DEF Goto, TypeOK, CallStates

LEMMA ReturnEffect ==
  ASSUME TypeOK, NEW c \in Calls, Return(c)
  PROVE  /\ call' \in [Calls -> CallStates]
         /\ call'[c] = Idle
         /\ \A d \in Calls : d # c => call'[d] = call[d]
  BY IdleType DEF Return, TypeOK

\* A handler that begins on a row that exists, and changes nothing else.
LEMMA BeginOnType ==
  ASSUME TypeOK, NEW c \in Calls, NEW w \in Withdrawals, NEW stage \in {"cancel", "send", "reject"},
         BeginOn(c, w, stage), status[w] # "none", UNCHANGED <<ledgerVars, wallet, tableVars, orderly>>
  PROVE  TypeOK'
  <1>1. /\ call' \in [Calls -> CallStates] /\ clean' \subseteq Withdrawals
        /\ \A d \in Calls : d # c => call'[d] = call[d]
        /\ call'[c].at = stage /\ call'[c].w = w
    BY BeginOnEffect DEF Stages
  <1>2. UNCHANGED <<coins, returned, rejected, paid, wallet, status, row, today, orderly>>
    BY DEF ledgerVars, tableVars
  <1> QED
    BY <1>1, <1>2 DEF TypeOK

\* A check that goes on to the next, or ends the request.
LEMMA CheckType ==
  ASSUME TypeOK, NEW c \in Calls, NEW test,
         NEW from \in {"pending?", "limit?", "balance?"}, NEW stage \in {"limit?", "balance?", "debit"},
         call[c].at = from, GoOnIf(c, test, stage),
         UNCHANGED <<ledgerVars, wallet, tableVars, orderly, clean>>
  PROVE  TypeOK'
  <1>1. /\ call' \in [Calls -> CallStates]
        /\ \A d \in Calls : d # c => call'[d] = call[d]
        /\ \/ call'[c].at = "idle"
           \/ /\ call'[c].at = stage /\ call'[c].user = call[c].user
              /\ call'[c].amount = call[c].amount /\ call'[c].address = call[c].address
    BY GoOnEffect, IdleType DEF Stages
  <1>2. UNCHANGED <<coins, returned, rejected, paid, wallet, status, row, today, orderly, clean>>
    BY DEF ledgerVars, tableVars
  <1> QED
    BY <1>1, <1>2 DEF TypeOK

\* Every step keeps every type.
LEMMA TypeStep == TypeOK /\ [Next]_vars => TypeOK'
  <1> SUFFICES ASSUME TypeOK, [Next]_vars PROVE TypeOK'
    OBVIOUS
  <1>1. ASSUME NEW c \in Calls, NEW u \in Users, NEW a \in Amounts, Request(c, u, a) PROVE TypeOK'
    <2>0. wallet[u] \in Addresses
      BY <1>1 DEF Request, TypeOK
    <2>1. PICK state \in CallStates : /\ state = [Idle EXCEPT !.at = "pending?", !.amount = a, !.address = wallet[u]]
                                     /\ state.at = "pending?" /\ state.amount \in Amounts /\ state.address \in Addresses
      <3>1. [Idle EXCEPT !.at = "pending?", !.amount = a, !.address = wallet[u]] \in CallStates
        BY <2>0, IdleType DEF CallStates, Stages, Idle
      <3>2. LET state == [Idle EXCEPT !.at = "pending?", !.amount = a, !.address = wallet[u]] IN state.at = "pending?" /\ state.amount \in Amounts /\ state.address \in Addresses
        BY <2>0, IdleType DEF CallStates, Stages, Idle
      <3> QED
        BY <3>1, <3>2
    <2>2. BeginFor(c, u, state) /\ UNCHANGED <<ledgerVars, wallet, tableVars, clean>>
      BY <1>1, <2>1 DEF Request
    <2>3. /\ call' \in [Calls -> CallStates]
          /\ \A d \in Calls : d # c => call'[d] = call[d]
          /\ call'[c].at = state.at /\ call'[c].user = u
          /\ call'[c].amount = state.amount /\ call'[c].address = state.address
          /\ orderly' \subseteq Users
      BY <2>2, BeginForEffect
    <2> QED
      BY <1>1, <2>1, <2>2, <2>3 DEF TypeOK, ledgerVars, tableVars
  <1>2. ASSUME NEW c \in Calls, NEW u \in Users, NEW a \in Addresses, Connect(c, u, a) PROVE TypeOK'
    <2>0. a \in Addresses
      BY <1>2 DEF Connect, TypeOK
    <2>1. PICK state \in CallStates : /\ state = [Idle EXCEPT !.at = "link", !.address = a]
                                     /\ state.at = "link" /\ state.address \in Addresses
      <3>1. [Idle EXCEPT !.at = "link", !.address = a] \in CallStates
        BY <2>0, IdleType DEF CallStates, Stages, Idle
      <3>2. LET state == [Idle EXCEPT !.at = "link", !.address = a] IN state.at = "link" /\ state.address \in Addresses
        BY <2>0, IdleType DEF CallStates, Stages, Idle
      <3> QED
        BY <3>1, <3>2
    <2>2. BeginFor(c, u, state) /\ UNCHANGED <<ledgerVars, wallet, tableVars, clean>>
      BY <1>2, <2>1 DEF Connect
    <2>3. /\ call' \in [Calls -> CallStates]
          /\ \A d \in Calls : d # c => call'[d] = call[d]
          /\ call'[c].at = state.at /\ call'[c].user = u
          /\ call'[c].amount = state.amount /\ call'[c].address = state.address
          /\ orderly' \subseteq Users
      BY <2>2, BeginForEffect
    <2> QED
      BY <1>2, <2>1, <2>2, <2>3 DEF TypeOK, ledgerVars, tableVars
  <1>3. ASSUME NEW c \in Calls, NEW u \in Users, Disconnect(c, u) PROVE TypeOK'
    <2>0. u \in Users
      BY <1>3 DEF Disconnect, TypeOK
    <2>1. PICK state \in CallStates : /\ state = [Idle EXCEPT !.at = "unlink"]
                                     /\ state.at = "unlink"
      <3>1. [Idle EXCEPT !.at = "unlink"] \in CallStates
        BY <2>0, IdleType DEF CallStates, Stages, Idle
      <3>2. LET state == [Idle EXCEPT !.at = "unlink"] IN state.at = "unlink"
        BY <2>0, IdleType DEF CallStates, Stages, Idle
      <3> QED
        BY <3>1, <3>2
    <2>2. BeginFor(c, u, state) /\ UNCHANGED <<ledgerVars, wallet, tableVars, clean>>
      BY <1>3, <2>1 DEF Disconnect
    <2>3. /\ call' \in [Calls -> CallStates]
          /\ \A d \in Calls : d # c => call'[d] = call[d]
          /\ call'[c].at = state.at /\ call'[c].user = u
          /\ call'[c].amount = state.amount /\ call'[c].address = state.address
          /\ orderly' \subseteq Users
      BY <2>2, BeginForEffect
    <2> QED
      BY <1>3, <2>1, <2>2, <2>3 DEF TypeOK, ledgerVars, tableVars
  <1>4. ASSUME NEW c \in Calls, NEW w \in Withdrawals, Cancel(c, w) PROVE TypeOK'
    BY <1>4, BeginOnType DEF Cancel
  <1>5. ASSUME NEW c \in Calls, NEW w \in Withdrawals, Approve(c, w) PROVE TypeOK'
    BY <1>5, BeginOnType DEF Approve
  <1>6. ASSUME NEW c \in Calls, NEW w \in Withdrawals, Reject(c, w) PROVE TypeOK'
    BY <1>6, BeginOnType DEF Reject
  <1>7. ASSUME NEW c \in Calls, CheckPending(c) PROVE TypeOK'
    BY <1>7, CheckType DEF CheckPending
  <1>8. ASSUME NEW c \in Calls, CheckLimit(c) PROVE TypeOK'
    BY <1>8, CheckType DEF CheckLimit
  <1>9. ASSUME NEW c \in Calls, CheckBalance(c) PROVE TypeOK'
    BY <1>9, CheckType DEF CheckBalance
  <1>10. ASSUME NEW c \in Calls, Debit(c) PROVE TypeOK'
    <2>0. call[c].user \in Users /\ call[c].amount \in Nat /\ coins \in [Users -> Nat]
      BY <1>10, WithdrawalsAssumption DEF Debit, TypeOK
    <2>1. coins' \in [Users -> Nat]
      BY <1>10, <2>0 DEF Debit
    <2>2. GoOnIf(c, coins[call[c].user] >= call[c].amount, "create")
      BY <1>10 DEF Debit
    <2>3. UNCHANGED <<returned, rejected, paid, wallet, tableVars, orderly, clean>> /\ call[c].at = "debit"
      BY <1>10 DEF Debit
    <2>4. call' \in [Calls -> CallStates] /\ \A d \in Calls : d # c => call'[d] = call[d]
      BY <2>2, GoOnEffect DEF Stages
    <2>5. \/ call'[c] = Idle
          \/ /\ call'[c].at = "create" /\ call'[c].user = call[c].user
             /\ call'[c].amount = call[c].amount /\ call'[c].address = call[c].address
      BY <2>2, GoOnEffect DEF Stages
    <2> QED
      BY <2>1, <2>3, <2>4, <2>5, IdleType DEF TypeOK, tableVars
  <1>11. ASSUME NEW c \in Calls, Create(c) PROVE TypeOK'
    BY <1>11, WithdrawalsAssumption, IdleType DEF Create, Return, TypeOK, CallStates, Stages, Statuses, Rows, ledgerVars, tableVars
  <1>12. ASSUME NEW c \in Calls, Compensate(c) PROVE TypeOK'
    <2>0. call[c].user \in Users /\ call[c].amount \in Nat /\ coins \in [Users -> Nat]
      BY <1>12, WithdrawalsAssumption DEF Compensate, TypeOK, Rows
    <2>1. coins' \in [Users -> Nat]
      BY <1>12, <2>0 DEF Compensate
    <2>2. Return(c) /\ UNCHANGED <<returned, rejected, paid, wallet, status, row, today, orderly, clean>>
      BY <1>12 DEF Compensate, tableVars
    <2> QED
      BY <2>1, <2>2, ReturnEffect, IdleType DEF TypeOK
  <1>13. ASSUME NEW c \in Calls, MarkCancelled(c) PROVE TypeOK'
    BY <1>13, GoOnEffect, IdleType DEF MarkCancelled, TypeOK, Stages, Statuses, ledgerVars, tableVars
  <1>14. ASSUME NEW c \in Calls, ReturnCoins(c) PROVE TypeOK'
    <2>0. row[call[c].w] \in Rows /\ row[call[c].w].user \in Users /\ row[call[c].w].amount \in Nat
          /\ call[c].w \in Withdrawals /\ coins \in [Users -> Nat] /\ returned \in [Withdrawals -> Nat]
      BY <1>14, WithdrawalsAssumption DEF ReturnCoins, TypeOK, Rows
    <2>1. coins' \in [Users -> Nat] /\ returned' \in [Withdrawals -> Nat]
      BY <1>14, <2>0 DEF ReturnCoins
    <2>2. Return(c) /\ UNCHANGED <<rejected, paid, wallet, status, row, today, orderly, clean>>
      BY <1>14 DEF ReturnCoins, tableVars
    <2> QED
      BY <2>1, <2>2, ReturnEffect, IdleType DEF TypeOK
  <1>15. ASSUME NEW c \in Calls, Send(c) PROVE TypeOK'
    <2>1. paid' \in [Withdrawals -> 0 .. MaxPayments] /\ clean' \subseteq Withdrawals
      BY <1>15, WithdrawalsAssumption DEF Send, TypeOK
    <2>2. UNCHANGED <<coins, returned, rejected, wallet, status, row, today, orderly>> /\ call[c].at = "send"
      BY <1>15 DEF Send, tableVars
    <2>3. CASE Goto(c, "mark")
      BY <2>1, <2>2, <2>3, GotoEffect DEF TypeOK, Stages
    <2>4. CASE Return(c)
      BY <2>1, <2>2, <2>4, ReturnEffect, IdleType DEF TypeOK
    <2> QED
      BY <1>15, <2>3, <2>4 DEF Send
  <1>16. ASSUME NEW c \in Calls, MarkSent(c) PROVE TypeOK'
    BY <1>16, WithdrawalsAssumption, IdleType DEF MarkSent, Return, TypeOK, CallStates, Stages, Statuses, Rows, ledgerVars, tableVars
  <1>17. ASSUME NEW c \in Calls, CommitReject(c) PROVE TypeOK'
    <2>0. row[call[c].w] \in Rows /\ row[call[c].w].user \in Users /\ row[call[c].w].amount \in Nat
          /\ call[c].w \in Withdrawals /\ coins \in [Users -> Nat] /\ rejected \in [Withdrawals -> Nat]
      BY <1>17, WithdrawalsAssumption DEF CommitReject, TypeOK, Rows
    <2>1. coins' \in [Users -> Nat] /\ rejected' \in [Withdrawals -> Nat]
      BY <1>17, <2>0 DEF CommitReject
    <2>2. status' = [status EXCEPT ![call[c].w] = "cancelled"] /\ status[call[c].w] # "none"
      BY <1>17 DEF CommitReject, TypeOK
    <2>3. status' \in [Withdrawals -> Statuses] /\ \A w \in Withdrawals : status[w] = "none" <=> status'[w] = "none"
      BY <2>2 DEF TypeOK, Statuses
    <2>4. Return(c) /\ UNCHANGED <<returned, paid, wallet, row, today, orderly, clean>>
      BY <1>17 DEF CommitReject
    <2> QED
      BY <2>1, <2>3, <2>4, ReturnEffect, IdleType DEF TypeOK
  <1>18. ASSUME NEW c \in Calls, Link(c) PROVE TypeOK'
    BY <1>18, WithdrawalsAssumption, IdleType DEF Link, Return, TypeOK, CallStates, Stages, Statuses, Rows, ledgerVars, tableVars
  <1>19. ASSUME NEW c \in Calls, Unlink(c) PROVE TypeOK'
    BY <1>19, WithdrawalsAssumption, IdleType DEF Unlink, Return, TypeOK, CallStates, Stages, Statuses, Rows, ledgerVars, tableVars
  <1>20. ASSUME NEW c \in Calls, StatementFails(c) PROVE TypeOK'
    <2>1. UNCHANGED <<coins, returned, rejected, paid, wallet, status, row, today, orderly>> /\ clean' \subseteq Withdrawals
      BY <1>20 DEF StatementFails, ledgerVars, tableVars, TypeOK
    <2>2. CASE call[c].at = "create" /\ Goto(c, "compensate")
      BY <2>1, <2>2, GotoEffect DEF TypeOK, Stages
    <2>3. CASE Return(c)
      BY <2>1, <2>3, ReturnEffect, IdleType DEF TypeOK
    <2> QED
      BY <1>20, <2>2, <2>3 DEF StatementFails
  <1>21. ASSUME Crash PROVE TypeOK'
    BY <1>21, IdleType DEF Crash, TypeOK, ledgerVars, tableVars
  <1>22. ASSUME NewDay PROVE TypeOK'
    BY <1>22 DEF NewDay, TypeOK, ledgerVars
  <1>23. ASSUME UNCHANGED vars PROVE TypeOK'
    BY <1>23 DEF TypeOK, vars, ledgerVars, tableVars
  <1> QED
    BY <1>1, <1>2, <1>3, <1>4, <1>5, <1>6, <1>7, <1>8, <1>9, <1>10, <1>11, <1>12, <1>13, <1>14, <1>15, <1>16, <1>17, <1>18, <1>19, <1>20, <1>21, <1>22, <1>23
    DEF Next, RequestStep, CancelStep, AdminStep

\* Every variable keeps its type, a handler at work has what its statements need,
\* and no balance becomes negative, however many requests race.
THEOREM WithdrawalsTypeCorrect == Spec => []TypeOK
<1>1. Init => TypeOK
  BY WithdrawalsAssumption, IdleType DEF Init, TypeOK, Statuses, Idle
<1> QED
  BY <1>1, TypeStep, PTL DEF Spec
-----------------------------------------------------------------------------
(* How the handlers begin.                                                 *)

\* A request of a user begins alone, or the user is no longer orderly.
LEMMA RequestBegins ==
  ASSUME TypeOK, NEW c \in Calls, NEW u \in Users, NEW a \in Amounts, Request(c, u, a)
  PROVE  /\ call'[c].at = "pending?" /\ call'[c].address = wallet[u]
         /\ call'[c].user = u /\ call'[c].w = NoRow /\ call[c] = Idle
         /\ \A d \in Calls : d # c => call'[d] = call[d]
         /\ orderly' \subseteq orderly
         /\ u \in orderly' => \A d \in Calls : call[d].user # u
         /\ UNCHANGED <<coins, returned, rejected, paid, wallet, status, row, today, clean>>
  <1>1. wallet[u] \in Addresses
    BY DEF Request, TypeOK
  <1>2. [Idle EXCEPT !.at = "pending?", !.amount = a, !.address = wallet[u]] \in CallStates
    BY <1>1, IdleType DEF CallStates, Stages, Idle
  <1>3. LET state == [Idle EXCEPT !.at = "pending?", !.amount = a, !.address = wallet[u]] IN state.at = "pending?" /\ state.address = wallet[u] /\ state.w = NoRow
    BY <1>1, IdleType DEF CallStates, Stages, Idle
  <1>4. PICK state \in CallStates : state = [Idle EXCEPT !.at = "pending?", !.amount = a, !.address = wallet[u]] /\ state.at = "pending?" /\ state.address = wallet[u] /\ state.w = NoRow
    BY <1>2, <1>3
  <1>5. BeginFor(c, u, state) /\ UNCHANGED <<ledgerVars, wallet, tableVars, clean>>
    BY <1>4 DEF Request
  <1>6. /\ call'[c].at = state.at /\ call'[c].user = u /\ call'[c].address = state.address
        /\ call'[c].w = state.w /\ call[c] = Idle
        /\ \A d \in Calls : d # c => call'[d] = call[d]
        /\ orderly' \subseteq orderly
        /\ u \in orderly' => \A d \in Calls : call[d].user # u
    BY <1>5, BeginForEffect
  <1>7. UNCHANGED <<coins, returned, rejected, paid, wallet, status, row, today, clean>>
    BY <1>5 DEF ledgerVars, tableVars
  <1>8. state.at = "pending?" /\ state.address = wallet[u] /\ state.w = NoRow
    BY <1>4
  <1> QED
    BY <1>6, <1>7, <1>8

\* So does ConnectWallet...
LEMMA ConnectBegins ==
  ASSUME TypeOK, NEW c \in Calls, NEW u \in Users, NEW a \in Addresses, Connect(c, u, a)
  PROVE  /\ call'[c].at = "link"
         /\ call'[c].user = u /\ call'[c].w = NoRow /\ call[c] = Idle
         /\ \A d \in Calls : d # c => call'[d] = call[d]
         /\ orderly' \subseteq orderly
         /\ u \in orderly' => \A d \in Calls : call[d].user # u
         /\ UNCHANGED <<coins, returned, rejected, paid, wallet, status, row, today, clean>>
  <1>1. a \in Addresses
    OBVIOUS
  <1>2. [Idle EXCEPT !.at = "link", !.address = a] \in CallStates
    BY <1>1, IdleType DEF CallStates, Stages, Idle
  <1>3. LET state == [Idle EXCEPT !.at = "link", !.address = a] IN state.at = "link" /\ state.w = NoRow
    BY <1>1, IdleType DEF CallStates, Stages, Idle
  <1>4. PICK state \in CallStates : state = [Idle EXCEPT !.at = "link", !.address = a] /\ state.at = "link" /\ state.w = NoRow
    BY <1>2, <1>3
  <1>5. BeginFor(c, u, state) /\ UNCHANGED <<ledgerVars, wallet, tableVars, clean>>
    BY <1>4 DEF Connect
  <1>6. /\ call'[c].at = state.at /\ call'[c].user = u /\ call'[c].address = state.address
        /\ call'[c].w = state.w /\ call[c] = Idle
        /\ \A d \in Calls : d # c => call'[d] = call[d]
        /\ orderly' \subseteq orderly
        /\ u \in orderly' => \A d \in Calls : call[d].user # u
    BY <1>5, BeginForEffect
  <1>7. UNCHANGED <<coins, returned, rejected, paid, wallet, status, row, today, clean>>
    BY <1>5 DEF ledgerVars, tableVars
  <1>8. state.at = "link" /\ state.w = NoRow
    BY <1>4
  <1> QED
    BY <1>6, <1>7, <1>8

\* ... and DisconnectWallet.
LEMMA DisconnectBegins ==
  ASSUME TypeOK, NEW c \in Calls, NEW u \in Users, Disconnect(c, u)
  PROVE  /\ call'[c].at = "unlink"
         /\ call'[c].user = u /\ call'[c].w = NoRow /\ call[c] = Idle
         /\ \A d \in Calls : d # c => call'[d] = call[d]
         /\ orderly' \subseteq orderly
         /\ u \in orderly' => \A d \in Calls : call[d].user # u
         /\ UNCHANGED <<coins, returned, rejected, paid, wallet, status, row, today, clean>>
  <1>1. u \in Users
    OBVIOUS
  <1>2. [Idle EXCEPT !.at = "unlink"] \in CallStates
    BY <1>1, IdleType DEF CallStates, Stages, Idle
  <1>3. LET state == [Idle EXCEPT !.at = "unlink"] IN state.at = "unlink" /\ state.w = NoRow
    BY <1>1, IdleType DEF CallStates, Stages, Idle
  <1>4. PICK state \in CallStates : state = [Idle EXCEPT !.at = "unlink"] /\ state.at = "unlink" /\ state.w = NoRow
    BY <1>2, <1>3
  <1>5. BeginFor(c, u, state) /\ UNCHANGED <<ledgerVars, wallet, tableVars, clean>>
    BY <1>4 DEF Disconnect
  <1>6. /\ call'[c].at = state.at /\ call'[c].user = u /\ call'[c].address = state.address
        /\ call'[c].w = state.w /\ call[c] = Idle
        /\ \A d \in Calls : d # c => call'[d] = call[d]
        /\ orderly' \subseteq orderly
        /\ u \in orderly' => \A d \in Calls : call[d].user # u
    BY <1>5, BeginForEffect
  <1>7. UNCHANGED <<coins, returned, rejected, paid, wallet, status, row, today, clean>>
    BY <1>5 DEF ledgerVars, tableVars
  <1>8. state.at = "unlink" /\ state.w = NoRow
    BY <1>4
  <1> QED
    BY <1>6, <1>7, <1>8
-----------------------------------------------------------------------------
(* The owner is refunded once.                                             *)

\* Where CancelWithdrawal is about to return the coins the row is cancelled, the
\* coins were not returned before, and no other call is about to return them.
OwnerInv ==
  /\ \A w \in Withdrawals : returned[w] <= 1 /\ (returned[w] = 1 => status[w] = "cancelled")
  /\ \A c \in Calls : call[c].at = "refund" =>
       /\ returned[call[c].w] = 0 /\ status[call[c].w] = "cancelled"
       /\ \A d \in Calls : call[d].at = "refund" /\ call[d].w = call[c].w => d = c

\* No row changes and nobody comes to return coins.
NoRefund ==
  /\ UNCHANGED <<status, returned>>
  /\ \A c \in Calls : call'[c].at = "refund" => call'[c] = call[c]

\* Only one call finds the row pending.
LEMMA OwnerStep == TypeOK /\ OwnerInv /\ [Next]_vars => OwnerInv'
  <1> SUFFICES ASSUME TypeOK, OwnerInv, [Next]_vars PROVE OwnerInv'
    OBVIOUS
  <1>1. ASSUME NEW c \in Calls, NEW u \in Users, NEW a \in Amounts, Request(c, u, a) PROVE NoRefund
    BY <1>1, RequestBegins, IdleType, WithdrawalsAssumption DEF NoRefund, TypeOK, Stages, ledgerVars, tableVars
  <1>2. ASSUME NEW c \in Calls, NEW u \in Users, NEW a \in Addresses, Connect(c, u, a) PROVE NoRefund
    BY <1>2, ConnectBegins, IdleType, WithdrawalsAssumption DEF NoRefund, TypeOK, Stages, ledgerVars, tableVars
  <1>3. ASSUME NEW c \in Calls, NEW u \in Users, Disconnect(c, u) PROVE NoRefund
    BY <1>3, DisconnectBegins, IdleType, WithdrawalsAssumption DEF NoRefund, TypeOK, Stages, ledgerVars, tableVars
  <1>4. ASSUME NEW c \in Calls, NEW w \in Withdrawals, Cancel(c, w) PROVE NoRefund
    BY <1>4, BeginOnEffect, IdleType, WithdrawalsAssumption DEF Cancel, NoRefund, TypeOK, Stages, ledgerVars, tableVars
  <1>5. ASSUME NEW c \in Calls, NEW w \in Withdrawals, Approve(c, w) PROVE NoRefund
    BY <1>5, BeginOnEffect, IdleType, WithdrawalsAssumption DEF Approve, NoRefund, TypeOK, Stages, ledgerVars, tableVars
  <1>6. ASSUME NEW c \in Calls, NEW w \in Withdrawals, Reject(c, w) PROVE NoRefund
    BY <1>6, BeginOnEffect, IdleType, WithdrawalsAssumption DEF Reject, NoRefund, TypeOK, Stages, ledgerVars, tableVars
  <1>7. ASSUME NEW c \in Calls, CheckPending(c) PROVE NoRefund
    BY <1>7, GoOnEffect, IdleType, WithdrawalsAssumption DEF CheckPending, NoRefund, TypeOK, Stages, ledgerVars, tableVars
  <1>8. ASSUME NEW c \in Calls, CheckLimit(c) PROVE NoRefund
    BY <1>8, GoOnEffect, IdleType, WithdrawalsAssumption DEF CheckLimit, NoRefund, TypeOK, Stages, ledgerVars, tableVars
  <1>9. ASSUME NEW c \in Calls, CheckBalance(c) PROVE NoRefund
    BY <1>9, GoOnEffect, IdleType, WithdrawalsAssumption DEF CheckBalance, NoRefund, TypeOK, Stages, ledgerVars, tableVars
  <1>10. ASSUME NEW c \in Calls, Debit(c) PROVE NoRefund
    BY <1>10, GoOnEffect, IdleType, WithdrawalsAssumption DEF Debit, NoRefund, TypeOK, Stages, ledgerVars, tableVars
  <1>11. ASSUME NEW c \in Calls, Create(c) PROVE OwnerInv'
    BY <1>11, ReturnEffect, IdleType, WithdrawalsAssumption DEF Create, OwnerInv, TypeOK, Stages, Statuses, ledgerVars
  <1>12. ASSUME NEW c \in Calls, Compensate(c) PROVE NoRefund
    BY <1>12, ReturnEffect, IdleType, WithdrawalsAssumption DEF Compensate, NoRefund, TypeOK, Stages, ledgerVars, tableVars
  <1>13. ASSUME NEW c \in Calls, MarkCancelled(c) PROVE OwnerInv'
    <2>1. call[c].at = "cancel" /\ call[c].w \in Withdrawals /\ returned' = returned
      BY <1>13 DEF MarkCancelled, TypeOK, ledgerVars
    <2>2. GoOnIf(c, status[call[c].w] = "pending", "refund")
      BY <1>13 DEF MarkCancelled
    <2>3. CASE status[call[c].w] = "pending"
      <3>1. status' = [status EXCEPT ![call[c].w] = "cancelled"]
        BY <1>13, <2>3 DEF MarkCancelled
      <3>2. call'[c].w = call[c].w /\ \A d \in Calls : d # c => call'[d] = call[d]
        BY <2>2, <2>3, GoOnEffect, IdleType DEF Stages, GoOnIf, Goto, TypeOK, CallStates
      <3>3. returned[call[c].w] = 0 /\ \A d \in Calls : call[d].at = "refund" => call[d].w # call[c].w
        BY <2>1, <2>3 DEF OwnerInv, TypeOK
      <3> QED
        BY <2>1, <3>1, <3>2, <3>3 DEF OwnerInv, TypeOK
    <2>4. CASE status[call[c].w] # "pending"
      <3>1. status' = status
        BY <1>13, <2>4 DEF MarkCancelled
      <3>2. call'[c].at = "idle" /\ \A d \in Calls : d # c => call'[d] = call[d]
        BY <2>2, <2>4, GoOnEffect, IdleType DEF Stages
      <3> QED
        BY <2>1, <3>1, <3>2 DEF OwnerInv
    <2> QED
      BY <2>3, <2>4
  <1>14. ASSUME NEW c \in Calls, ReturnCoins(c) PROVE OwnerInv'
    BY <1>14, ReturnEffect, IdleType, WithdrawalsAssumption DEF ReturnCoins, OwnerInv, TypeOK, Stages, Statuses, tableVars
  <1>15. ASSUME NEW c \in Calls, Send(c) PROVE NoRefund
    BY <1>15, GotoEffect, ReturnEffect, IdleType, WithdrawalsAssumption DEF Send, NoRefund, TypeOK, Stages, ledgerVars, tableVars
  <1>16. ASSUME NEW c \in Calls, MarkSent(c) PROVE OwnerInv'
    BY <1>16, ReturnEffect, IdleType, WithdrawalsAssumption DEF MarkSent, OwnerInv, TypeOK, Stages, Statuses, ledgerVars
  <1>17. ASSUME NEW c \in Calls, CommitReject(c) PROVE OwnerInv'
    BY <1>17, ReturnEffect, IdleType, WithdrawalsAssumption DEF CommitReject, OwnerInv, TypeOK, Stages, Statuses, ledgerVars
  <1>18. ASSUME NEW c \in Calls, Link(c) PROVE NoRefund
    BY <1>18, ReturnEffect, IdleType, WithdrawalsAssumption DEF Link, NoRefund, TypeOK, Stages, ledgerVars, tableVars
  <1>19. ASSUME NEW c \in Calls, Unlink(c) PROVE NoRefund
    BY <1>19, ReturnEffect, IdleType, WithdrawalsAssumption DEF Unlink, NoRefund, TypeOK, Stages, ledgerVars, tableVars
  <1>20. ASSUME NEW c \in Calls, StatementFails(c) PROVE NoRefund
    BY <1>20, GotoEffect, ReturnEffect, IdleType, WithdrawalsAssumption DEF StatementFails, NoRefund, TypeOK, Stages, ledgerVars, tableVars
  <1>21. ASSUME Crash PROVE NoRefund
    BY <1>21, IdleType, WithdrawalsAssumption DEF Crash, NoRefund, TypeOK, Stages, ledgerVars, tableVars
  <1>22. ASSUME NewDay PROVE NoRefund
    BY <1>22 DEF NewDay, NoRefund, TypeOK, Stages, ledgerVars, tableVars
  <1>23. ASSUME UNCHANGED vars PROVE NoRefund
    BY <1>23 DEF NoRefund, vars, ledgerVars, tableVars
  <1>24. ASSUME NoRefund PROVE OwnerInv'
    BY <1>24 DEF NoRefund, OwnerInv
  <1> QED
    BY <1>1, <1>2, <1>3, <1>4, <1>5, <1>6, <1>7, <1>8, <1>9, <1>10, <1>11, <1>12, <1>13, <1>14, <1>15, <1>16, <1>17, <1>18, <1>19, <1>20, <1>21, <1>22, <1>23, <1>24
    DEF Next, RequestStep, CancelStep, AdminStep

\* CancelWithdrawal returns the coins of a withdrawal at most once.
THEOREM OwnerRefundedOnceHolds == Spec => []OwnerRefundedOnce
<1>1. Init => OwnerInv
  BY IdleType DEF Init, OwnerInv
<1>2. OwnerInv => OwnerRefundedOnce
  BY DEF OwnerInv, OwnerRefundedOnce
<1> QED
  BY <1>1, <1>2, OwnerStep, WithdrawalsTypeCorrect, PTL DEF Spec
-----------------------------------------------------------------------------
(* A withdrawal whose calls do not overlap is settled once.                *)

\* How a withdrawal stands while call c is the only one that works on it.
WorksOn(c, w) ==
  /\ call[c].at \in {"cancel", "refund", "send", "mark", "reject"}
  /\ returned[w] + rejected[w] = 0
  /\ paid[w] = IF call[c].at = "mark" THEN 1 ELSE 0
  /\ status[w] = IF call[c].at = "refund" THEN "cancelled" ELSE "pending"

CleanInv ==
  /\ \A c \in Calls : call[c].at \in {"cancel", "refund", "send", "mark", "reject"} <=> call[c].w # NoRow
  /\ \A w \in clean :
       /\ (\A c \in Calls : call[c].w # w) => Settled(w)
       /\ \A c \in Calls : call[c].w = w => WorksOn(c, w)
       /\ \A c, d \in Calls : call[c].w = w /\ call[d].w = w => c = d

\* No withdrawal is touched, and whoever moves works on none.
NoWork ==
  /\ UNCHANGED <<status, returned, rejected, paid, clean>>
  /\ \A c \in Calls :
       \/ call'[c].at = call[c].at /\ call'[c].w = call[c].w
       \/ /\ call[c].w = NoRow /\ call'[c].w = NoRow
          /\ call'[c].at \notin {"cancel", "refund", "send", "mark", "reject"}

\* One call, on one withdrawal, takes a step.
LEMMA WorkStep ==
  ASSUME TypeOK, CleanInv, NEW c \in Calls, NEW w \in Withdrawals,
         \A d \in Calls : d # c => call'[d] = call[d],
         call[c].w \in {NoRow, w}, call'[c].w \in {NoRow, w},
         call'[c].at \in {"cancel", "refund", "send", "mark", "reject"} <=> call'[c].w # NoRow,
         clean' \subseteq clean,
         \A x \in Withdrawals : x # w =>
           /\ status'[x] = status[x] /\ paid'[x] = paid[x]
           /\ returned'[x] = returned[x] /\ rejected'[x] = rejected[x],
         w \in clean' => call[c].w = w \/ \A d \in Calls : call[d].w # w,
         w \in clean' => IF call'[c].w = w THEN WorksOn(c, w)' ELSE Settled(w)'
  PROVE  CleanInv'
  <1>1. w # NoRow
    BY WithdrawalsAssumption
  <1>2. ASSUME NEW x \in clean', x # w
        PROVE  /\ (\A d \in Calls : call'[d].w # x) => Settled(x)'
               /\ \A d \in Calls : call'[d].w = x => WorksOn(d, x)'
               /\ \A d, e \in Calls : call'[d].w = x /\ call'[e].w = x => d = e
    <2>1. x \in clean /\ x \in Withdrawals /\ x # NoRow
      BY <1>2, WithdrawalsAssumption DEF TypeOK
    <2>2. \A d \in Calls : /\ call'[d].w = x <=> call[d].w = x
                          /\ call'[d].w = x => call'[d] = call[d]
      BY <2>1, <1>2
    <2>3. Settled(x) => Settled(x)'
      BY <2>1, <1>2 DEF Settled
    <2>4. \A d \in Calls : call'[d].w = x /\ WorksOn(d, x) => WorksOn(d, x)'
      BY <2>1, <2>2, <1>2 DEF WorksOn
    <2> QED
      BY <2>1, <2>2, <2>3, <2>4 DEF CleanInv
  <1>3. ASSUME w \in clean'
        PROVE  /\ (\A d \in Calls : call'[d].w # w) => Settled(w)'
               /\ \A d \in Calls : call'[d].w = w => WorksOn(d, w)'
               /\ \A d, e \in Calls : call'[d].w = w /\ call'[e].w = w => d = e
    <2>1. \A d \in Calls : d # c => call[d].w # w /\ call'[d].w # w
      BY <1>3 DEF CleanInv
    <2> QED
      BY <1>3, <2>1
  <1>4. \A d \in Calls : call'[d].at \in {"cancel", "refund", "send", "mark", "reject"} <=> call'[d].w # NoRow
    BY DEF CleanInv
  <1> QED
    BY <1>2, <1>3, <1>4 DEF CleanInv

\* Every call leaves a withdrawal it had to itself settled.
LEMMA CleanStep == TypeOK /\ CleanInv /\ [Next]_vars => CleanInv'
  <1> SUFFICES ASSUME TypeOK, CleanInv, [Next]_vars PROVE CleanInv'
    OBVIOUS
  <1>1. ASSUME NEW c \in Calls, NEW u \in Users, NEW a \in Amounts, Request(c, u, a) PROVE NoWork
    BY <1>1, RequestBegins, IdleType, WithdrawalsAssumption DEF NoWork, CleanInv, WorksOn, TypeOK, Stages, ledgerVars, tableVars
  <1>2. ASSUME NEW c \in Calls, NEW u \in Users, NEW a \in Addresses, Connect(c, u, a) PROVE NoWork
    BY <1>2, ConnectBegins, IdleType, WithdrawalsAssumption DEF NoWork, CleanInv, WorksOn, TypeOK, Stages, ledgerVars, tableVars
  <1>3. ASSUME NEW c \in Calls, NEW u \in Users, Disconnect(c, u) PROVE NoWork
    BY <1>3, DisconnectBegins, IdleType, WithdrawalsAssumption DEF NoWork, CleanInv, WorksOn, TypeOK, Stages, ledgerVars, tableVars
  <1>4. ASSUME NEW c \in Calls, NEW w \in Withdrawals, Cancel(c, w) PROVE CleanInv'
    <2>1. BeginOn(c, w, "cancel") /\ status[w] = "pending" /\ UNCHANGED <<returned, rejected, paid, status>>
      BY <1>4 DEF Cancel, ledgerVars, tableVars
    <2>2. /\ \A d \in Calls : d # c => call'[d] = call[d]
          /\ call[c].w = NoRow /\ call'[c].at = "cancel" /\ call'[c].w = w
          /\ clean' \subseteq clean
          /\ w \in clean' => \A d \in Calls : call[d].w # w
      BY <2>1, BeginOnEffect, IdleType DEF Stages
    <2>3. ASSUME w \in clean' PROVE WorksOn(c, w)'
      <3>1. Settled(w)
        BY <2>2, <2>3 DEF CleanInv
      <3> QED
        BY <2>1, <2>2, <3>1 DEF Settled, WorksOn
    <2>4. w # NoRow
      BY WithdrawalsAssumption
    <2> QED
      BY <2>1, <2>2, <2>3, <2>4, WorkStep
  <1>5. ASSUME NEW c \in Calls, NEW w \in Withdrawals, Approve(c, w) PROVE CleanInv'
    <2>1. BeginOn(c, w, "send") /\ status[w] = "pending" /\ UNCHANGED <<returned, rejected, paid, status>>
      BY <1>5 DEF Approve, ledgerVars, tableVars
    <2>2. /\ \A d \in Calls : d # c => call'[d] = call[d]
          /\ call[c].w = NoRow /\ call'[c].at = "send" /\ call'[c].w = w
          /\ clean' \subseteq clean
          /\ w \in clean' => \A d \in Calls : call[d].w # w
      BY <2>1, BeginOnEffect, IdleType DEF Stages
    <2>3. ASSUME w \in clean' PROVE WorksOn(c, w)'
      <3>1. Settled(w)
        BY <2>2, <2>3 DEF CleanInv
      <3> QED
        BY <2>1, <2>2, <3>1 DEF Settled, WorksOn
    <2>4. w # NoRow
      BY WithdrawalsAssumption
    <2> QED
      BY <2>1, <2>2, <2>3, <2>4, WorkStep
  <1>6. ASSUME NEW c \in Calls, NEW w \in Withdrawals, Reject(c, w) PROVE CleanInv'
    <2>1. BeginOn(c, w, "reject") /\ status[w] = "pending" /\ UNCHANGED <<returned, rejected, paid, status>>
      BY <1>6 DEF Reject, ledgerVars, tableVars
    <2>2. /\ \A d \in Calls : d # c => call'[d] = call[d]
          /\ call[c].w = NoRow /\ call'[c].at = "reject" /\ call'[c].w = w
          /\ clean' \subseteq clean
          /\ w \in clean' => \A d \in Calls : call[d].w # w
      BY <2>1, BeginOnEffect, IdleType DEF Stages
    <2>3. ASSUME w \in clean' PROVE WorksOn(c, w)'
      <3>1. Settled(w)
        BY <2>2, <2>3 DEF CleanInv
      <3> QED
        BY <2>1, <2>2, <3>1 DEF Settled, WorksOn
    <2>4. w # NoRow
      BY WithdrawalsAssumption
    <2> QED
      BY <2>1, <2>2, <2>3, <2>4, WorkStep
  <1>7. ASSUME NEW c \in Calls, CheckPending(c) PROVE NoWork
    BY <1>7, GoOnEffect, IdleType, WithdrawalsAssumption DEF CheckPending, NoWork, CleanInv, WorksOn, TypeOK, Stages, ledgerVars, tableVars
  <1>8. ASSUME NEW c \in Calls, CheckLimit(c) PROVE NoWork
    BY <1>8, GoOnEffect, IdleType, WithdrawalsAssumption DEF CheckLimit, NoWork, CleanInv, WorksOn, TypeOK, Stages, ledgerVars, tableVars
  <1>9. ASSUME NEW c \in Calls, CheckBalance(c) PROVE NoWork
    BY <1>9, GoOnEffect, IdleType, WithdrawalsAssumption DEF CheckBalance, NoWork, CleanInv, WorksOn, TypeOK, Stages, ledgerVars, tableVars
  <1>10. ASSUME NEW c \in Calls, Debit(c) PROVE NoWork
    BY <1>10, GoOnEffect, IdleType, WithdrawalsAssumption DEF Debit, NoWork, CleanInv, WorksOn, TypeOK, Stages, ledgerVars, tableVars
  <1>11. ASSUME NEW c \in Calls, Create(c) PROVE CleanInv'
    BY <1>11, ReturnEffect, IdleType, WithdrawalsAssumption DEF Create, CleanInv, WorksOn, Settled, TypeOK, Stages, Statuses, ledgerVars, tableVars
  <1>12. ASSUME NEW c \in Calls, Compensate(c) PROVE NoWork
    BY <1>12, ReturnEffect, IdleType, WithdrawalsAssumption DEF Compensate, NoWork, CleanInv, WorksOn, TypeOK, Stages, ledgerVars, tableVars
  <1>13. ASSUME NEW c \in Calls, MarkCancelled(c) PROVE CleanInv'
    <2>1. call[c].at = "cancel" /\ call[c].w \in Withdrawals /\ UNCHANGED <<returned, rejected, paid, clean>>
      BY <1>13 DEF MarkCancelled, TypeOK, ledgerVars
    <2>2. GoOnIf(c, status[call[c].w] = "pending", "refund")
      BY <1>13 DEF MarkCancelled
    <2>3. call[c].w # NoRow
      BY <2>1, WithdrawalsAssumption
    <2>4. CASE status[call[c].w] = "pending"
      <3>1. status' = [status EXCEPT ![call[c].w] = "cancelled"]
        BY <1>13, <2>4 DEF MarkCancelled
      <3>2. /\ call'[c].w = call[c].w /\ call'[c].at = "refund"
            /\ \A d \in Calls : d # c => call'[d] = call[d]
        BY <2>2, <2>4, GotoEffect DEF Stages, GoOnIf
      <3>3. ASSUME call[c].w \in clean' PROVE WorksOn(c, call[c].w)'
        BY <2>1, <3>1, <3>2, <3>3 DEF CleanInv, WorksOn, TypeOK
      <3> QED
        BY <2>1, <2>3, <3>1, <3>2, <3>3, WorkStep DEF TypeOK
    <2>5. CASE status[call[c].w] # "pending"
      <3>1. status' = status
        BY <1>13, <2>5 DEF MarkCancelled
      <3>2. /\ call'[c].w = NoRow /\ call'[c].at = "idle"
            /\ \A d \in Calls : d # c => call'[d] = call[d]
        BY <2>2, <2>5, ReturnEffect, IdleType DEF GoOnIf
      <3>3. call[c].w \notin clean
        BY <2>1, <2>5 DEF CleanInv, WorksOn
      <3> QED
        BY <2>1, <2>3, <3>1, <3>2, <3>3, WorkStep
    <2> QED
      BY <2>4, <2>5
  <1>14. ASSUME NEW c \in Calls, ReturnCoins(c) PROVE CleanInv'
    <2>1. call[c].at = "refund" /\ call[c].w \in Withdrawals /\ UNCHANGED <<status, rejected, paid, clean>> /\ Return(c)
      BY <1>14 DEF ReturnCoins, TypeOK, tableVars
    <2>2. SUFFICES ASSUME NEW w \in Withdrawals, call[c].w = w PROVE CleanInv'
      BY <2>1
    <2>3. returned' = [returned EXCEPT ![w] = @ + 1]
      BY <1>14, <2>2 DEF ReturnCoins
    <2>4. /\ call'[c].w = NoRow /\ call'[c].at = "idle"
          /\ \A d \in Calls : d # c => call'[d] = call[d]
      BY <2>1, ReturnEffect, IdleType
    <2>5. ASSUME w \in clean PROVE Settled(w)'
      <3>1. WorksOn(c, w)
        BY <2>2, <2>5 DEF CleanInv
      <3>2. status[w] = "cancelled" /\ paid[w] = 0 /\ returned[w] + rejected[w] = 0
        BY <2>1, <3>1 DEF WorksOn
      <3>3. returned[w] \in Nat /\ rejected[w] \in Nat /\ returned'[w] = returned[w] + 1
        BY <2>3 DEF TypeOK
      <3>4. returned'[w] + rejected[w] = 1
        BY <3>2, <3>3
      <3> QED
        BY <2>1, <3>2, <3>4 DEF Settled
    <2>6. \A x \in Withdrawals : x # w => returned'[x] = returned[x]
      BY <2>3 DEF TypeOK
    <2>7. w # NoRow
      BY WithdrawalsAssumption
    <2> QED
      BY <2>1, <2>2, <2>4, <2>5, <2>6, <2>7, WorkStep
  <1>15. ASSUME NEW c \in Calls, Send(c) PROVE CleanInv'
    BY <1>15, GotoEffect, ReturnEffect, IdleType, WithdrawalsAssumption DEF Send, CleanInv, WorksOn, Settled, TypeOK, Stages, Statuses, ledgerVars, tableVars
  <1>16. ASSUME NEW c \in Calls, MarkSent(c) PROVE CleanInv'
    BY <1>16, ReturnEffect, IdleType, WithdrawalsAssumption DEF MarkSent, CleanInv, WorksOn, Settled, TypeOK, Stages, Statuses, ledgerVars, tableVars
  <1>17. ASSUME NEW c \in Calls, CommitReject(c) PROVE CleanInv'
    <2>1. call[c].at = "reject" /\ call[c].w \in Withdrawals /\ UNCHANGED <<returned, paid, clean>> /\ Return(c)
      BY <1>17 DEF CommitReject, TypeOK
    <2>2. SUFFICES ASSUME NEW w \in Withdrawals, call[c].w = w PROVE CleanInv'
      BY <2>1
    <2>3. /\ status' = [status EXCEPT ![w] = "cancelled"]
          /\ rejected' = [rejected EXCEPT ![w] = @ + 1]
      BY <1>17, <2>2 DEF CommitReject
    <2>4. /\ call'[c].w = NoRow /\ call'[c].at = "idle"
          /\ \A d \in Calls : d # c => call'[d] = call[d]
      BY <2>1, ReturnEffect, IdleType
    <2>5. ASSUME w \in clean PROVE Settled(w)'
      <3>1. WorksOn(c, w)
        BY <2>2, <2>5 DEF CleanInv
      <3>2. /\ returned[w] \in Nat /\ rejected[w] \in Nat
            /\ status'[w] = "cancelled" /\ rejected'[w] = rejected[w] + 1
        BY <2>3 DEF TypeOK
      <3>3. paid[w] = 0 /\ returned[w] + rejected[w] = 0
        BY <2>1, <3>1 DEF WorksOn
      <3>4. returned[w] + rejected'[w] = 1
        BY <3>2, <3>3
      <3> QED
        BY <2>1, <3>2, <3>3, <3>4 DEF Settled
    <2>6. \A x \in Withdrawals : x # w => status'[x] = status[x] /\ rejected'[x] = rejected[x]
      BY <2>3 DEF TypeOK
    <2>7. w # NoRow
      BY WithdrawalsAssumption
    <2> QED
      BY <2>1, <2>2, <2>4, <2>5, <2>6, <2>7, WorkStep
  <1>18. ASSUME NEW c \in Calls, Link(c) PROVE NoWork
    BY <1>18, ReturnEffect, IdleType, WithdrawalsAssumption DEF Link, NoWork, CleanInv, WorksOn, TypeOK, Stages, ledgerVars, tableVars
  <1>19. ASSUME NEW c \in Calls, Unlink(c) PROVE NoWork
    BY <1>19, ReturnEffect, IdleType, WithdrawalsAssumption DEF Unlink, NoWork, CleanInv, WorksOn, TypeOK, Stages, ledgerVars, tableVars
  <1>20. ASSUME NEW c \in Calls, StatementFails(c) PROVE CleanInv'
    <2>1. UNCHANGED <<returned, rejected, paid, status>> /\ clean' = clean \ {call[c].w}
      BY <1>20 DEF StatementFails, ledgerVars, tableVars
    <2>2. CASE call[c].at = "create" /\ Goto(c, "compensate")
      <3>1. /\ call'[c].at = "compensate" /\ call'[c].w = call[c].w
            /\ \A d \in Calls : d # c => call'[d] = call[d]
        BY <2>2, GotoEffect DEF Stages
      <3>2. call[c].w = NoRow /\ NoRow \notin clean
        BY <2>2, WithdrawalsAssumption DEF CleanInv, TypeOK
      <3>3. clean' = clean
        BY <2>1, <3>2
      <3>4. \A x \in clean : Settled(x)' <=> Settled(x)
        BY <2>1 DEF Settled
      <3>5. \A x \in clean, d \in Calls : call[d].w = x => (WorksOn(d, x)' <=> WorksOn(d, x))
        BY <2>1, <3>1, <3>2 DEF WorksOn
      <3> QED
        BY <2>2, <3>1, <3>2, <3>3, <3>4, <3>5 DEF CleanInv
    <2>3. CASE Return(c)
      <3>1. /\ call'[c].at = "idle" /\ call'[c].w = NoRow
            /\ \A d \in Calls : d # c => call'[d] = call[d]
        BY <2>3, ReturnEffect, IdleType
      <3>2. \A x \in clean' : x \in clean /\ call[c].w # x /\ x # NoRow
        BY <2>1, WithdrawalsAssumption DEF TypeOK
      <3>3. \A x \in clean : Settled(x)' <=> Settled(x)
        BY <2>1 DEF Settled
      <3>4. \A d \in Calls : \A x \in clean : d # c => (WorksOn(d, x)' <=> WorksOn(d, x))
        BY <2>1, <3>1 DEF WorksOn
      <3> QED
        BY <3>1, <3>2, <3>3, <3>4 DEF CleanInv
    <2> QED
      BY <1>20, <2>2, <2>3 DEF StatementFails
  <1>21. ASSUME Crash PROVE CleanInv'
    BY <1>21, IdleType, WithdrawalsAssumption DEF Crash, CleanInv, WorksOn, Settled, TypeOK, Stages, Statuses, ledgerVars, tableVars
  <1>22. ASSUME NewDay PROVE NoWork
    BY <1>22 DEF NewDay, NoWork, CleanInv, WorksOn, TypeOK, Stages, ledgerVars, tableVars
  <1>23. ASSUME UNCHANGED vars PROVE NoWork
    BY <1>23 DEF NoWork, vars, ledgerVars, tableVars
  <1>24. ASSUME NoWork PROVE CleanInv'
    BY <1>24, WithdrawalsAssumption DEF NoWork, CleanInv, WorksOn, Settled, TypeOK
  <1> QED
    BY <1>1, <1>2, <1>3, <1>4, <1>5, <1>6, <1>7, <1>8, <1>9, <1>10, <1>11, <1>12, <1>13, <1>14, <1>15, <1>16, <1>17, <1>18, <1>19, <1>20, <1>21, <1>22, <1>23, <1>24
    DEF Next, RequestStep, CancelStep, AdminStep

\* A withdrawal whose calls ran one after the other is paid or given back once.
THEOREM SettledOnceHolds == Spec => []SettledOnce
<1>1. Init => CleanInv
  BY IdleType, WithdrawalsAssumption DEF Init, CleanInv, Settled
<1>2. CleanInv => SettledOnce
  BY DEF CleanInv, SettledOnce
<1> QED
  BY <1>1, <1>2, CleanStep, WithdrawalsTypeCorrect, PTL DEF Spec
-----------------------------------------------------------------------------
(* A user who makes one request at a time.                                 *)

\* Past its check a request knows that nothing is pending and where the coins go.
OrderlyUser(u) ==
  /\ \A c, d \in Calls : call[c].user = u /\ call[d].user = u => c = d
  /\ \A w \in RowsOf(u) : status[w] = "pending" =>
       /\ wallet[u] = row[w].address
       /\ \A x \in RowsOf(u) : status[x] = "pending" => x = w
  /\ \A c \in Calls : call[c].user = u =>
       /\ call[c].at \in {"pending?", "limit?", "balance?", "debit", "create", "compensate"}
            => wallet[u] = call[c].address
       /\ call[c].at \in {"limit?", "balance?", "debit", "create", "compensate", "link", "unlink"}
            => ~HasPendingWithdrawal(u)

OrderlyInv == \A u \in orderly : OrderlyUser(u)

\* No row becomes pending, no wallet changes, no request passes its check.
NoUser ==
  /\ UNCHANGED <<wallet, row, orderly>>
  /\ \A w \in Withdrawals : status[w] = "none" <=> status'[w] = "none"
  /\ \A w \in Withdrawals : status'[w] = "pending" => status[w] = "pending"
  /\ \A c \in Calls :
       \/ call'[c].user = Nobody
       \/ /\ call'[c].user = call[c].user /\ call'[c].address = call[c].address
          /\ \/ call'[c].at = call[c].at
             \/ /\ call[c].at \in {"limit?", "balance?", "debit", "create"}
                /\ call'[c].at \in {"balance?", "debit", "create", "compensate"}
             \/ call'[c].at \in {"refund", "mark"}

\* A handler of a user who had none begins.
LEMMA UserBegins ==
  ASSUME TypeOK, OrderlyInv, NEW c \in Calls, NEW u \in Users,
         call[c] = Idle, call'[c].user = u, \A d \in Calls : d # c => call'[d] = call[d],
         orderly' \subseteq orderly, u \in orderly' => \A d \in Calls : call[d].user # u,
         UNCHANGED <<wallet, status, row>>,
         \/ call'[c].at = "pending?" /\ call'[c].address = wallet[u]
         \/ call'[c].at \in {"link", "unlink"} /\ (u \in orderly => ~HasPendingWithdrawal(u))
  PROVE  OrderlyInv'
  <1>1. \A v \in Users : RowsOf(v)' = RowsOf(v) /\ HasPendingWithdrawal(v)' = HasPendingWithdrawal(v)
    BY DEF RowsOf, HasPendingWithdrawal
  <1>2. orderly \subseteq Users /\ Nobody \notin Users /\ call[c].user = Nobody
    BY WithdrawalsAssumption, IdleType DEF TypeOK
  <1>3. ASSUME NEW v \in orderly' PROVE OrderlyUser(v)'
    <2>1. OrderlyUser(v) /\ v \in Users
      BY <1>2, <1>3 DEF OrderlyInv
    <2>2. CASE v = u
      BY <1>1, <1>2, <1>3, <2>1, <2>2 DEF OrderlyUser
    <2>3. CASE v # u
      BY <1>1, <1>2, <2>1, <2>3 DEF OrderlyUser
    <2> QED
      BY <2>2, <2>3
  <1> QED
    BY <1>3 DEF OrderlyInv

\* What a request of an orderly user has checked stays true until it returns.
LEMMA OrderlyStep == TypeOK /\ OrderlyInv /\ [Next]_vars => OrderlyInv'
  <1> SUFFICES ASSUME TypeOK, OrderlyInv, [Next]_vars PROVE OrderlyInv'
    OBVIOUS
  <1>1. ASSUME NEW c \in Calls, NEW u \in Users, NEW a \in Amounts, Request(c, u, a) PROVE OrderlyInv'
    <2>1. call'[c].at = "pending?" /\ call'[c].address = wallet[u]
      BY <1>1, RequestBegins
    <2> QED
      BY <1>1, <2>1, RequestBegins, UserBegins
  <1>2. ASSUME NEW c \in Calls, NEW u \in Users, NEW a \in Addresses, Connect(c, u, a) PROVE OrderlyInv'
    <2>1. u \in orderly => ~HasPendingWithdrawal(u)
      BY <1>2, WithdrawalsAssumption DEF Connect, OrderlyInv, OrderlyUser, HasPendingWithdrawal, RowsOf, TypeOK, Rows
    <2> QED
      BY <1>2, <2>1, ConnectBegins, UserBegins
  <1>3. ASSUME NEW c \in Calls, NEW u \in Users, Disconnect(c, u) PROVE OrderlyInv'
    <2>1. ~HasPendingWithdrawal(u)
      BY <1>3 DEF Disconnect
    <2> QED
      BY <1>3, <2>1, DisconnectBegins, UserBegins
  <1>4. ASSUME NEW c \in Calls, NEW w \in Withdrawals, Cancel(c, w) PROVE NoUser
    BY <1>4, BeginOnEffect, IdleType, WithdrawalsAssumption DEF Cancel, NoUser, TypeOK, Stages, Statuses, ledgerVars, tableVars
  <1>5. ASSUME NEW c \in Calls, NEW w \in Withdrawals, Approve(c, w) PROVE NoUser
    BY <1>5, BeginOnEffect, IdleType, WithdrawalsAssumption DEF Approve, NoUser, TypeOK, Stages, Statuses, ledgerVars, tableVars
  <1>6. ASSUME NEW c \in Calls, NEW w \in Withdrawals, Reject(c, w) PROVE NoUser
    BY <1>6, BeginOnEffect, IdleType, WithdrawalsAssumption DEF Reject, NoUser, TypeOK, Stages, Statuses, ledgerVars, tableVars
  <1>7. ASSUME NEW c \in Calls, CheckPending(c) PROVE OrderlyInv'
    <2>1. call[c].at = "pending?" /\ GoOnIf(c, ~HasPendingWithdrawal(call[c].user), "limit?")
      BY <1>7 DEF CheckPending
    <2>2. UNCHANGED <<wallet, status, row, orderly>>
      BY <1>7 DEF CheckPending, tableVars
    <2>3. /\ \A d \in Calls : d # c => call'[d] = call[d]
          /\ \/ call'[c].user = Nobody
             \/ /\ ~HasPendingWithdrawal(call[c].user) /\ call'[c].at = "limit?"
                /\ call'[c].user = call[c].user /\ call'[c].address = call[c].address
      BY <2>1, GoOnEffect, IdleType DEF Stages
    <2>4. \A u \in Users : RowsOf(u)' = RowsOf(u) /\ HasPendingWithdrawal(u)' = HasPendingWithdrawal(u)
      BY <2>2 DEF RowsOf, HasPendingWithdrawal
    <2>5. orderly \subseteq Users /\ Nobody \notin Users
      BY WithdrawalsAssumption DEF TypeOK
    <2> QED
      BY <2>1, <2>2, <2>3, <2>4, <2>5 DEF OrderlyInv, OrderlyUser
  <1>8. ASSUME NEW c \in Calls, CheckLimit(c) PROVE NoUser
    BY <1>8, GoOnEffect, IdleType, WithdrawalsAssumption DEF CheckLimit, NoUser, TypeOK, Stages, Statuses, ledgerVars, tableVars
  <1>9. ASSUME NEW c \in Calls, CheckBalance(c) PROVE NoUser
    BY <1>9, GoOnEffect, IdleType, WithdrawalsAssumption DEF CheckBalance, NoUser, TypeOK, Stages, Statuses, ledgerVars, tableVars
  <1>10. ASSUME NEW c \in Calls, Debit(c) PROVE NoUser
    BY <1>10, GoOnEffect, IdleType, WithdrawalsAssumption DEF Debit, NoUser, TypeOK, Stages, Statuses, ledgerVars, tableVars
  <1>11. ASSUME NEW c \in Calls, Create(c) PROVE OrderlyInv'
    <2>1. PICK w \in Withdrawals :
            /\ status[w] = "none"
            /\ status' = [status EXCEPT ![w] = "pending"]
            /\ row' = [row EXCEPT ![w] = [user |-> call[c].user, amount |-> call[c].amount,
                                          address |-> call[c].address]]
      BY <1>11 DEF Create
    <2>2. call[c].at = "create" /\ Return(c) /\ UNCHANGED <<wallet, orderly>>
      BY <1>11 DEF Create
    <2>3. /\ \A d \in Calls : d # c => call'[d] = call[d]
          /\ call'[c].user = Nobody
      BY <2>2, ReturnEffect, IdleType
    <2>4. /\ status'[w] = "pending" /\ row'[w].user = call[c].user /\ row'[w].address = call[c].address
          /\ \A x \in Withdrawals : x # w => status'[x] = status[x] /\ row'[x] = row[x]
      BY <2>1 DEF TypeOK
    <2>5. \A u \in Users : u # call[c].user => RowsOf(u)' = RowsOf(u) /\ w \notin RowsOf(u)
      BY <2>1, <2>4 DEF RowsOf
    <2>6. \A u \in Users : u = call[c].user => RowsOf(u)' = RowsOf(u) \cup {w}
      BY <2>1, <2>4 DEF RowsOf
    <2>7. \A u \in Users : u # call[c].user => (HasPendingWithdrawal(u)' <=> HasPendingWithdrawal(u))
      BY <2>4, <2>5 DEF HasPendingWithdrawal, RowsOf
    <2>8. orderly \subseteq Users /\ Nobody \notin Users
      BY WithdrawalsAssumption DEF TypeOK
    <2>9. ASSUME NEW u \in orderly, u # call[c].user PROVE OrderlyUser(u)'
      <3>1. OrderlyUser(u) /\ u \in Users
        BY <2>8, <2>9 DEF OrderlyInv
      <3>2. \A x \in RowsOf(u) : x \in Withdrawals /\ x # w
        BY <2>5, <2>9, <3>1 DEF RowsOf
      <3> QED
        BY <2>2, <2>3, <2>4, <2>5, <2>7, <2>8, <2>9, <3>1, <3>2 DEF OrderlyUser
    <2>10. ASSUME NEW u \in orderly, u = call[c].user PROVE OrderlyUser(u)'
      <3>1. OrderlyUser(u) /\ u \in Users
        BY <2>8, <2>10 DEF OrderlyInv
      <3>2. wallet[u] = call[c].address /\ ~HasPendingWithdrawal(u) /\ \A d \in Calls : call'[d].user # u
        BY <2>2, <2>3, <2>8, <2>10, <3>1 DEF OrderlyUser
      <3>3. \A x \in RowsOf(u)' : status'[x] = "pending" => x = w
        BY <2>1, <2>4, <2>6, <2>10, <3>1, <3>2 DEF HasPendingWithdrawal, RowsOf
      <3> QED
        BY <2>2, <2>4, <2>10, <3>2, <3>3 DEF OrderlyUser
    <2> QED
      BY <2>2, <2>9, <2>10 DEF OrderlyInv
  <1>12. ASSUME NEW c \in Calls, Compensate(c) PROVE NoUser
    BY <1>12, ReturnEffect, IdleType, WithdrawalsAssumption DEF Compensate, NoUser, TypeOK, Stages, Statuses, ledgerVars, tableVars
  <1>13. ASSUME NEW c \in Calls, MarkCancelled(c) PROVE NoUser
    BY <1>13, GoOnEffect, IdleType, WithdrawalsAssumption DEF MarkCancelled, NoUser, TypeOK, Stages, Statuses, ledgerVars, tableVars
  <1>14. ASSUME NEW c \in Calls, ReturnCoins(c) PROVE NoUser
    BY <1>14, ReturnEffect, IdleType, WithdrawalsAssumption DEF ReturnCoins, NoUser, TypeOK, Stages, Statuses, ledgerVars, tableVars
  <1>15. ASSUME NEW c \in Calls, Send(c) PROVE NoUser
    BY <1>15, GotoEffect, ReturnEffect, IdleType, WithdrawalsAssumption DEF Send, NoUser, TypeOK, Stages, Statuses, ledgerVars, tableVars
  <1>16. ASSUME NEW c \in Calls, MarkSent(c) PROVE NoUser
    BY <1>16, ReturnEffect, IdleType, WithdrawalsAssumption DEF MarkSent, NoUser, TypeOK, Stages, Statuses, ledgerVars, tableVars
  <1>17. ASSUME NEW c \in Calls, CommitReject(c) PROVE NoUser
    BY <1>17, ReturnEffect, IdleType, WithdrawalsAssumption DEF CommitReject, NoUser, TypeOK, Stages, Statuses, ledgerVars, tableVars
  <1>18. ASSUME NEW c \in Calls, Link(c) PROVE OrderlyInv'
    BY <1>18, ReturnEffect, IdleType, WithdrawalsAssumption DEF Link, OrderlyInv, OrderlyUser, HasPendingWithdrawal, RowsOf, TypeOK, Stages, Statuses, Rows, ledgerVars, tableVars
  <1>19. ASSUME NEW c \in Calls, Unlink(c) PROVE OrderlyInv'
    BY <1>19, ReturnEffect, IdleType, WithdrawalsAssumption DEF Unlink, OrderlyInv, OrderlyUser, HasPendingWithdrawal, RowsOf, TypeOK, Stages, Statuses, Rows, ledgerVars, tableVars
  <1>20. ASSUME NEW c \in Calls, StatementFails(c) PROVE NoUser
    BY <1>20, GotoEffect, ReturnEffect, IdleType, WithdrawalsAssumption DEF StatementFails, NoUser, TypeOK, Stages, Statuses, ledgerVars, tableVars
  <1>21. ASSUME Crash PROVE NoUser
    BY <1>21, IdleType, WithdrawalsAssumption DEF Crash, NoUser, TypeOK, Stages, Statuses, ledgerVars, tableVars
  <1>22. ASSUME NewDay PROVE NoUser
    BY <1>22 DEF NewDay, NoUser, TypeOK, Stages, Statuses, ledgerVars, tableVars
  <1>23. ASSUME UNCHANGED vars PROVE NoUser
    BY <1>23 DEF NoUser, RowsOf, vars, ledgerVars, tableVars
  <1>24. ASSUME NoUser PROVE OrderlyInv'
    <2>1. \A u \in Users : RowsOf(u)' = RowsOf(u)
      BY <1>24 DEF NoUser, RowsOf
    <2>2. \A u \in Users : HasPendingWithdrawal(u)' => HasPendingWithdrawal(u)
      BY <1>24, <2>1 DEF NoUser, HasPendingWithdrawal, RowsOf
    <2> QED
      BY <1>24, <2>1, <2>2, WithdrawalsAssumption DEF NoUser, OrderlyInv, OrderlyUser, RowsOf, TypeOK
  <1> QED
    BY <1>1, <1>2, <1>3, <1>4, <1>5, <1>6, <1>7, <1>8, <1>9, <1>10, <1>11, <1>12, <1>13, <1>14, <1>15, <1>16, <1>17, <1>18, <1>19, <1>20, <1>21, <1>22, <1>23, <1>24
    DEF Next, RequestStep, CancelStep, AdminStep

\* A user who makes one request at a time has at most one pending withdrawal, and
\* keeps the wallet it goes to.
THEOREM OnePendingHolds == Spec => []OnePending
<1>1. Init => OrderlyInv
  BY IdleType, WithdrawalsAssumption DEF Init, OrderlyInv, OrderlyUser, RowsOf
<1>2. OrderlyInv => OnePending
  BY DEF OrderlyInv, OrderlyUser, OnePending
<1> QED
  BY <1>1, <1>2, OrderlyStep, WithdrawalsTypeCorrect, PTL DEF Spec
-----------------------------------------------------------------------------
(* Sums over rows: SumFunctionOnSet adds up any finite set, in any order.  *)

\* A set of numbers has a least one.
LEMMA Least ==
  ASSUME NEW S \in SUBSET Nat, S # {}
  PROVE  \E m \in S : \A n \in S : m <= n
  <1> DEFINE R == {ss \in Nat \X Nat : ss[1] < ss[2]}
  <1>1. OpToRel(<, Nat) = R
    BY Zenon DEF OpToRel
  <1>2. IsWellFoundedOn(R, Nat)
    BY NatLessThanWellFounded, <1>1, Zenon
  <1>3. \A n, k \in Nat : n < k => <<n, k>> \in R
    OBVIOUS
  <1> HIDE DEF R
  <1>4. PICK m \in S : \A n \in S : ~ (<<n, m>> \in R)
    BY <1>2, WFMin
  <1>5. \A n \in S : ~(n < m)
    BY <1>3, <1>4
  <1> QED
    BY <1>5

\* A non-empty set of subsets of a finite set has a smallest one.
LEMMA Smallest ==
  ASSUME NEW S, IsFiniteSet(S), NEW B \in SUBSET SUBSET S, B # {}
  PROVE  \E T \in B : \A U \in SUBSET T : U # T => U \notin B
  <1>1. IsWellFoundedOn(StrictSubsetOrdering(S), SUBSET S)
    BY FS_StrictSubsetOrderingWellFounded, FS_FiniteSubsetsOfFinite
  <1>2. PICK T \in B : \A U \in B : ~(<<U, T>> \in StrictSubsetOrdering(S))
    BY <1>1, WFMin
  <1> QED
    BY <1>2 DEF StrictSubsetOrdering

\* The order in which SumFunctionOnSet takes the elements.
Pick(T) == CHOOSE x \in T : TRUE
Rest(T) == T \ {Pick(T)}

\* g sums up f over every subset of S, in the order of Pick.
SumsUp(g, f, S) ==
  g = [T \in SUBSET S |-> IF T = {} THEN 0 ELSE f[Pick(T)] + g[Rest(T)]]

Totals(g, f, S) == g \in [SUBSET S -> Int] /\ SumsUp(g, f, S)

LEMMA PickType ==
  ASSUME NEW T, T # {}
  PROVE  Pick(T) \in T
  BY DEF Pick

\* Such a function exists: one that is right up to n elements gives one that is
\* right up to n + 1.
LEMMA SumExists ==
  ASSUME NEW S, IsFiniteSet(S), NEW f, \A x \in S : f[x] \in Int
  PROVE  \E g \in [SUBSET S -> Int] : SumsUp(g, f, S)
  <1> DEFINE Sub(n) == {T \in SUBSET S : Cardinality(T) <= n}
             More(g) == [T \in SUBSET S |-> IF T = {} THEN 0 ELSE f[Pick(T)] + g[Rest(T)]]
             Upto(n) == \E g \in [SUBSET S -> Int] : \A T \in Sub(n) : g[T] = More(g)[T]
             Bad == {n \in Nat : ~Upto(n)}
  <1>1. \A T \in SUBSET S : /\ IsFiniteSet(T) /\ Cardinality(T) \in Nat
                            /\ Cardinality(T) <= Cardinality(S)
    BY FS_Subset, FS_CardinalityType
  <1>2. \A T \in SUBSET S : T # {} => /\ Pick(T) \in S /\ Rest(T) \in SUBSET S
                                      /\ Cardinality(Rest(T)) = Cardinality(T) - 1
    BY <1>1, PickType, FS_RemoveElement DEF Rest
  <1>3. \A g \in [SUBSET S -> Int] : More(g) \in [SUBSET S -> Int]
    BY <1>2
  <1>4. Upto(0)
    <2> DEFINE z == [T \in SUBSET S |-> 0]
    <2>1. \A T \in Sub(0) : T = {}
      BY <1>1, FS_EmptySet
    <2>2. z \in [SUBSET S -> Int] /\ \A T \in Sub(0) : z[T] = More(z)[T]
      BY <2>1
    <2> QED
      BY <2>2
  <1>5. ASSUME NEW n \in Nat, Upto(n)
        PROVE  Upto(n + 1)
    <2>1. PICK g \in [SUBSET S -> Int] : \A T \in Sub(n) : g[T] = More(g)[T]
      BY <1>5
    <2>2. ASSUME NEW T \in Sub(n + 1)
          PROVE  More(g)[T] = More(More(g))[T]
      <3>1. CASE T = {}
        BY <3>1
      <3>2. CASE T # {}
        <4>1. Rest(T) \in Sub(n)
          BY <1>1, <1>2, <3>2
        <4>2. g[Rest(T)] = More(g)[Rest(T)]
          BY <2>1, <4>1
        <4> QED
          BY <3>2, <4>2
      <3> QED
        BY <3>1, <3>2
    <2> HIDE DEF More, Sub
    <2> QED
      BY <1>3, <2>2
  <1> HIDE DEF Upto
  <1>6. Bad = {}
    <2> SUFFICES ASSUME Bad # {}
                 PROVE  FALSE
      OBVIOUS
    <2>1. PICK m \in Bad : \A n \in Bad : m <= n
      BY Least
    <2>2. m - 1 \in Nat /\ m - 1 \notin Bad
      BY <1>4, <2>1
    <2>3. Upto((m - 1) + 1)
      BY <1>5, <2>2
    <2> QED
      BY <2>1, <2>3
  <1>7. Upto(Cardinality(S))
    BY <1>1, <1>6
  <1>8. PICK g \in [SUBSET S -> Int] : \A T \in Sub(Cardinality(S)) : g[T] = More(g)[T]
    BY <1>7 DEF Upto
  <1>9. \A T \in SUBSET S : g[T] = More(g)[T]
    BY <1>1, <1>8
  <1>10. g = More(g)
    BY <1>9
  <1> QED
    BY <1>10 DEF SumsUp

\* Any element may be taken first.
LEMMA SumsUpAny ==
  ASSUME NEW S, IsFiniteSet(S), NEW f, \A x \in S : f[x] \in Int,
         NEW g, Totals(g, f, S), NEW y \in S
  PROVE  g[S] = f[y] + g[S \ {y}]
  <1> DEFINE Bad == {T \in SUBSET S : \E x \in T : g[T] # f[x] + g[T \ {x}]}
  <1> USE DEF Totals
  <1>0. \A T \in SUBSET S : T # {} => g[T] = f[Pick(T)] + g[T \ {Pick(T)}]
    BY DEF SumsUp, Rest
  <1> SUFFICES ASSUME Bad # {}
               PROVE  FALSE
    OBVIOUS
  <1>1. PICK T \in Bad : \A U \in SUBSET T : U # T => U \notin Bad
    <2>1. Bad \in SUBSET SUBSET S
      OBVIOUS
    <2> HIDE DEF Bad
    <2> QED
      BY <2>1, Smallest
  <1>2. PICK x \in T : g[T] # f[x] + g[T \ {x}]
    BY <1>1
  <1> DEFINE p == Pick(T)
  <1>3. p \in T /\ p # x /\ T \in SUBSET S /\ g[T] = f[p] + g[T \ {p}]
    BY <1>0, <1>2, PickType
  <1> HIDE DEF p
  <1>4. g[T \ {p}] = f[x] + g[(T \ {p}) \ {x}]
    <2>1. T \ {p} \notin Bad /\ T \ {p} \in SUBSET S /\ x \in T \ {p}
      BY <1>1, <1>3
    <2> QED
      BY <2>1
  <1>5. g[T \ {x}] = f[p] + g[(T \ {x}) \ {p}]
    <2>1. T \ {x} \notin Bad /\ T \ {x} \in SUBSET S /\ p \in T \ {x}
      BY <1>1, <1>2, <1>3
    <2> QED
      BY <2>1
  <1> DEFINE V == (T \ {x}) \ {p}
  <1>6. (T \ {p}) \ {x} = V /\ V \in SUBSET S
    BY <1>3
  <1>7. g[V] \in Int /\ f[x] \in Int /\ f[p] \in Int
    BY <1>3, <1>6
  <1>8. g[T \ {p}] = f[x] + g[V] /\ g[T \ {x}] = f[p] + g[V]
    BY <1>4, <1>5, <1>6
  <1> HIDE DEF V
  <1>9. g[T] = f[x] + g[T \ {x}]
    BY <1>3, <1>7, <1>8
  <1> QED
    BY <1>2, <1>9

\* What a set sums up to depends on its elements only.
LEMMA SumsUpSame ==
  ASSUME NEW S, IsFiniteSet(S), NEW f, NEW g, SumsUp(g, f, S),
         NEW U, NEW h, NEW k, SumsUp(k, h, U), S \subseteq U, \A x \in S : f[x] = h[x]
  PROVE  g[S] = k[S]
  <1> DEFINE Bad == {T \in SUBSET S : g[T] # k[T]}
  <1>0. \A T \in SUBSET S : g[T] = (IF T = {} THEN 0 ELSE f[Pick(T)] + g[Rest(T)])
    BY DEF SumsUp
  <1>1. \A T \in SUBSET S : k[T] = (IF T = {} THEN 0 ELSE h[Pick(T)] + k[Rest(T)])
    BY DEF SumsUp
  <1> SUFFICES ASSUME Bad # {}
               PROVE  FALSE
    OBVIOUS
  <1>2. PICK T \in Bad : \A V \in SUBSET T : V # T => V \notin Bad
    <2>1. Bad \in SUBSET SUBSET S
      OBVIOUS
    <2> HIDE DEF Bad
    <2> QED
      BY <2>1, Smallest
  <1>3. T \in SUBSET S /\ T # {} /\ Pick(T) \in T
    BY <1>0, <1>1, <1>2, PickType
  <1>4. g[Rest(T)] = k[Rest(T)] /\ f[Pick(T)] = h[Pick(T)]
    BY <1>2, <1>3 DEF Rest
  <1> QED
    BY <1>0, <1>1, <1>2, <1>3, <1>4


\* What SumFunctionOnSet stands for.
LEMMA SumIs ==
  ASSUME NEW S, IsFiniteSet(S), NEW f, \A x \in S : f[x] \in Int
  PROVE  \E g \in [SUBSET S -> Int] : SumsUp(g, f, S) /\ SumFunctionOnSet(f, S) = g[S]
  <1> DEFINE g == CHOOSE g : SumsUp(g, f, S)
  <1>1. PICK h \in [SUBSET S -> Int] : SumsUp(h, f, S)
    BY SumExists
  <1>2. SumsUp(g, f, S)
    BY <1>1
  <1>3. SumFunctionOnSet(f, S) = g[S]
    BY DEF SumFunctionOnSet, FoldFunctionOnSet, MapThenFoldSet, SumsUp, Pick, Rest
  <1> HIDE DEF g
  <1>4. g[S] = h[S]
    BY <1>1, <1>2, SumsUpSame
  <1> QED
    BY <1>1, <1>3, <1>4

\* The facts about sums that are used below.
LEMMA SumType ==
  ASSUME NEW S, IsFiniteSet(S), NEW f, \A x \in S : f[x] \in Int
  PROVE  SumFunctionOnSet(f, S) \in Int
  <1>1. PICK g \in [SUBSET S -> Int] : SumFunctionOnSet(f, S) = g[S]
    BY SumIs
  <1> QED
    BY <1>1

LEMMA SumNat ==
  ASSUME NEW S, IsFiniteSet(S), NEW f, \A x \in S : f[x] \in Nat
  PROVE  SumFunctionOnSet(f, S) \in Nat
  <1>1. PICK g \in [SUBSET S -> Int] : SumsUp(g, f, S) /\ SumFunctionOnSet(f, S) = g[S]
    <2>1. \A x \in S : f[x] \in Int
      OBVIOUS
    <2> QED
      BY <2>1, SumIs
  <1> DEFINE Bad == {T \in SUBSET S : g[T] \notin Nat}
  <1>2. \A T \in SUBSET S : g[T] = (IF T = {} THEN 0 ELSE f[Pick(T)] + g[Rest(T)])
    BY <1>1 DEF SumsUp
  <1>3. Bad = {}
    <2> SUFFICES ASSUME Bad # {}
                 PROVE  FALSE
      OBVIOUS
    <2>1. Bad \in SUBSET SUBSET S
      OBVIOUS
    <2> HIDE DEF Bad
    <2>2. PICK T \in Bad : \A U \in SUBSET T : U # T => U \notin Bad
      BY <2>1, Smallest
    <2>3. T \in SUBSET S /\ T # {} /\ Pick(T) \in T
      BY <1>2, <2>2, PickType DEF Bad
    <2>4. g[Rest(T)] \in Nat /\ f[Pick(T)] \in Nat
      BY <2>2, <2>3 DEF Bad, Rest
    <2> QED
      BY <1>2, <2>2, <2>3, <2>4 DEF Bad
  <1> QED
    BY <1>1, <1>3

LEMMA SumNone ==
  ASSUME NEW f
  PROVE  SumFunctionOnSet(f, {}) = 0
  <1>1. IsFiniteSet({}) /\ \A x \in {} : f[x] \in Int
    BY FS_EmptySet
  <1>2. PICK g \in [SUBSET {} -> Int] : SumsUp(g, f, {}) /\ SumFunctionOnSet(f, {}) = g[{}]
    BY <1>1, SumIs
  <1> QED
    BY <1>2 DEF SumsUp

LEMMA SumSame ==
  ASSUME NEW S, IsFiniteSet(S), NEW f, \A x \in S : f[x] \in Int,
         NEW h, \A x \in S : h[x] = f[x]
  PROVE  SumFunctionOnSet(h, S) = SumFunctionOnSet(f, S)
  <1>1. PICK g \in [SUBSET S -> Int] : SumsUp(g, f, S) /\ SumFunctionOnSet(f, S) = g[S]
    BY SumIs
  <1>2. \A x \in S : h[x] \in Int
    OBVIOUS
  <1>3. PICK k \in [SUBSET S -> Int] : SumsUp(k, h, S) /\ SumFunctionOnSet(h, S) = k[S]
    BY <1>2, SumIs
  <1>4. k[S] = g[S]
    BY <1>1, <1>3, SumsUpSame
  <1> QED
    BY <1>1, <1>3, <1>4

LEMMA SumTake ==
  ASSUME NEW S, IsFiniteSet(S), NEW f, \A x \in S : f[x] \in Int, NEW x \in S
  PROVE  SumFunctionOnSet(f, S) = f[x] + SumFunctionOnSet(f, S \ {x})
  <1> DEFINE R == S \ {x}
  <1>1. PICK g \in [SUBSET S -> Int] : SumsUp(g, f, S) /\ SumFunctionOnSet(f, S) = g[S]
    BY SumIs
  <1>2. g[S] = f[x] + g[R]
    <2>1. Totals(g, f, S)
      BY <1>1 DEF Totals
    <2>2. g[S] = f[x] + g[S \ {x}]
      BY <2>1, SumsUpAny
    <2> QED
      BY <2>2
  <1>3. IsFiniteSet(R) /\ R \subseteq S /\ \A y \in R : f[y] \in Int
    BY FS_Subset
  <1> HIDE DEF R
  <1>4. PICK k \in [SUBSET R -> Int] : SumsUp(k, f, R) /\ SumFunctionOnSet(f, R) = k[R]
    BY <1>3, SumIs
  <1>5. k[R] = g[R]
    BY <1>1, <1>3, <1>4, SumsUpSame
  <1> QED
    BY <1>1, <1>2, <1>4, <1>5 DEF R

\* One term of a sum changes, comes or goes.
LEMMA SumMoves ==
  ASSUME NEW S, IsFiniteSet(S), NEW f, \A y \in S : f[y] \in Int,
         NEW U, IsFiniteSet(U), NEW h, \A y \in U : h[y] \in Int,
         NEW x, S \ {x} = U \ {x}, \A y \in S \ {x} : h[y] = f[y]
  PROVE  SumFunctionOnSet(h, U) + (IF x \in S THEN f[x] ELSE 0)
           = SumFunctionOnSet(f, S) + (IF x \in U THEN h[x] ELSE 0)
  <1> DEFINE R == S \ {x}
  <1>1. IsFiniteSet(R) /\ R \subseteq S /\ R = U \ {x}
    BY FS_Subset
  <1>2. SumFunctionOnSet(f, S) = SumFunctionOnSet(f, R) + (IF x \in S THEN f[x] ELSE 0)
    <2>1. CASE x \in S
      BY <2>1, SumTake, SumType, <1>1
    <2>2. CASE x \notin S
      <3>1. R = S
        BY <2>2, <1>1
      <3> HIDE DEF R
      <3>2. SumFunctionOnSet(f, R) \in Int
        BY <3>1, SumType
      <3> QED
        BY <2>2, <3>1, <3>2
    <2> QED
      BY <2>1, <2>2
  <1>3. SumFunctionOnSet(h, U) = SumFunctionOnSet(h, R) + (IF x \in U THEN h[x] ELSE 0)
    <2>1. CASE x \in U
      BY <2>1, SumTake, SumType, <1>1
    <2>2. CASE x \notin U
      <3>1. R = U
        BY <2>2, <1>1
      <3> HIDE DEF R
      <3>2. SumFunctionOnSet(h, R) \in Int
        BY <3>1, SumType
      <3> QED
        BY <2>2, <3>1, <3>2
    <2> QED
      BY <2>1, <2>2
  <1>4. SumFunctionOnSet(h, R) = SumFunctionOnSet(f, R)
    BY <1>1, SumSame
  <1>5. SumFunctionOnSet(f, R) \in Int
    BY <1>1, SumType
  <1> HIDE DEF R
  <1> QED
    BY <1>2, <1>3, <1>4, <1>5
-----------------------------------------------------------------------------
(* Nothing is withdrawn that was not debited.                              *)

\* What a withdrawal takes from what its owner had.
Taken(w) == row[w].amount * (1 - returned[w] - rejected[w])

\* A row that is not there was not given back.
FreshInv == \A w \in Withdrawals : status[w] = "none" => returned[w] = 0 /\ rejected[w] = 0

BackedInv == Backed /\ FreshInv

\* What one withdrawal takes is a number, and one refund takes its amount off.
LEMMA TakenNumbers ==
  ASSUME NEW a \in Int, NEW b \in Int, NEW c \in Int
  PROVE  /\ a * (1 - b - c) \in Int
         /\ a * (1 - (b + 1) - c) = a * (1 - b - c) - a
         /\ a * (1 - b - (c + 1)) = a * (1 - b - c) - a
         /\ b = 0 /\ c = 0 => a * (1 - b - c) = a
  OBVIOUS

LEMMA RowType ==
  ASSUME NEW r \in Rows
  PROVE  r.amount \in Nat /\ r.user \in Users /\ r # NoRow
  BY WithdrawalsAssumption DEF Rows

LEMMA Terms ==
  ASSUME TypeOK, NEW u \in Users
  PROVE  /\ IsFiniteSet(InFlight(u)) /\ InFlight(u) \subseteq Calls
         /\ \A c \in InFlight(u) : call[c].amount \in Nat
         /\ IsFiniteSet(RowsOf(u)) /\ RowsOf(u) \subseteq Withdrawals
         /\ \A w \in RowsOf(u) : row[w].amount \in Nat /\ Taken(w) \in Int
  <1>1. InFlight(u) \subseteq Calls /\ RowsOf(u) \subseteq Withdrawals
    BY DEF InFlight, RowsOf
  <1>2. IsFiniteSet(InFlight(u)) /\ IsFiniteSet(RowsOf(u))
    BY <1>1, FS_Subset, WithdrawalsAssumption
  <1>3. \A c \in InFlight(u) : call[c].amount \in Nat
    BY WithdrawalsAssumption DEF TypeOK, InFlight
  <1>4. ASSUME NEW w \in RowsOf(u)
        PROVE  row[w].amount \in Nat /\ Taken(w) \in Int
    <2>1. row[w].amount \in Nat
      BY WithdrawalsAssumption DEF TypeOK, RowsOf, Rows
    <2>2. returned[w] \in Int /\ rejected[w] \in Int
      BY DEF TypeOK, RowsOf
    <2>3. row[w].amount * (1 - returned[w] - rejected[w]) \in Int
      BY <2>1, <2>2, TakenNumbers
    <2> QED
      BY <2>1, <2>3 DEF Taken
  <1> QED
    BY <1>1, <1>2, <1>3, <1>4

LEMMA SumsType ==
  ASSUME TypeOK, NEW u \in Users
  PROVE  CoinsInFlight(u) \in Nat /\ CoinsNotGivenBack(u) \in Int /\ coins[u] \in Nat
  <1> DEFINE f == [c \in InFlight(u) |-> call[c].amount]
             h == [w \in RowsOf(u) |-> Taken(w)]
  <1>1. \A c \in InFlight(u) : f[c] \in Nat
    BY Terms
  <1>2. \A w \in RowsOf(u) : h[w] \in Int
    BY Terms
  <1>3. CoinsInFlight(u) = SumFunctionOnSet(f, InFlight(u))
    BY DEF CoinsInFlight
  <1>4. CoinsNotGivenBack(u) = SumFunctionOnSet(h, RowsOf(u))
    BY DEF CoinsNotGivenBack, Taken
  <1>5. IsFiniteSet(InFlight(u)) /\ IsFiniteSet(RowsOf(u))
    BY Terms
  <1> HIDE DEF f, h
  <1>6. SumFunctionOnSet(f, InFlight(u)) \in Nat
    BY <1>1, <1>5, SumNat
  <1>7. SumFunctionOnSet(h, RowsOf(u)) \in Int
    BY <1>2, <1>5, SumType
  <1> QED
    BY <1>3, <1>4, <1>6, <1>7 DEF TypeOK

LEMMA StartIsNat == StartCoins \in Nat
  BY WithdrawalsAssumption

\* Terms and SumsType, of the next state.
LEMMA TermsNext ==
  ASSUME TypeOK', NEW u \in Users
  PROVE  IsFiniteSet(RowsOf(u)') /\ \A x \in RowsOf(u)' : Taken(x)' \in Int
  <1>1. ASSUME NEW x \in RowsOf(u)'
        PROVE  Taken(x)' \in Int
    <2>1. x \in Withdrawals /\ status'[x] # "none"
      BY DEF RowsOf
    <2>2. row'[x] \in Rows /\ returned'[x] \in Nat /\ rejected'[x] \in Nat
      BY <2>1 DEF TypeOK
    <2>3. row'[x].amount \in Int
      BY <2>2, RowType
    <2>4. row'[x].amount * (1 - returned'[x] - rejected'[x]) \in Int
      BY <2>2, <2>3, TakenNumbers
    <2> QED
      BY <2>4 DEF Taken
  <1>2. RowsOf(u)' \subseteq Withdrawals
    BY DEF RowsOf
  <1> QED
    BY <1>1, <1>2, FS_Subset, WithdrawalsAssumption

LEMMA SumsTypeNext ==
  ASSUME TypeOK', NEW u \in Users
  PROVE  CoinsInFlight(u)' \in Nat /\ CoinsNotGivenBack(u)' \in Int
  <1> DEFINE S == InFlight(u)'
             f == [c \in S |-> call'[c].amount]
  <1>1. \A c \in S : call'[c].amount \in Nat
    BY WithdrawalsAssumption DEF TypeOK, InFlight
  <1>2. S \subseteq Calls
    BY DEF InFlight
  <1>3. IsFiniteSet(S) /\ \A c \in S : f[c] \in Nat
    BY <1>1, <1>2, FS_Subset, WithdrawalsAssumption
  <1>4. CoinsInFlight(u)' = SumFunctionOnSet(f, S)
    BY DEF CoinsInFlight
  <1> HIDE DEF f, S
  <1>5. SumFunctionOnSet(f, S) \in Nat
    BY <1>3, SumNat
  <1> DEFINE R == RowsOf(u)'
             h == [w \in R |-> Taken(w)']
  <1>6. IsFiniteSet(R) /\ \A w \in R : h[w] \in Int
    BY TermsNext
  <1>7. CoinsNotGivenBack(u)' = SumFunctionOnSet(h, R)
    BY DEF CoinsNotGivenBack, Taken
  <1> HIDE DEF h, R
  <1>8. SumFunctionOnSet(h, R) \in Int
    BY <1>6, SumType
  <1> QED
    BY <1>4, <1>5, <1>7, <1>8

\* One handler moves.
LEMMA FlightMoves ==
  ASSUME TypeOK, TypeOK', NEW u \in Users, NEW c \in Calls,
         \A d \in Calls : d # c => call'[d] = call[d]
  PROVE  CoinsInFlight(u)' + (IF c \in InFlight(u) THEN call[c].amount ELSE 0)
           = CoinsInFlight(u) + (IF c \in InFlight(u)' THEN call'[c].amount ELSE 0)
  <1> DEFINE S == InFlight(u)
             U == InFlight(u)'
             f == [d \in S |-> call[d].amount]
             h == [d \in U |-> call'[d].amount]
  <1>1. S \ {c} = U \ {c}
    BY DEF InFlight
  <1>2. \A d \in S \ {c} : h[d] = f[d]
    BY <1>1 DEF InFlight
  <1>3. IsFiniteSet(S) /\ \A d \in S : f[d] \in Int
    BY Terms
  <1>4. IsFiniteSet(U) /\ \A d \in U : h[d] \in Int
    <2>1. \A d \in U : call'[d].amount \in Nat
      BY WithdrawalsAssumption DEF TypeOK, InFlight
    <2>2. U \subseteq Calls
      BY DEF InFlight
    <2> QED
      BY <2>1, <2>2, FS_Subset, WithdrawalsAssumption
  <1>5. CoinsInFlight(u) = SumFunctionOnSet(f, S) /\ CoinsInFlight(u)' = SumFunctionOnSet(h, U)
    BY DEF CoinsInFlight
  <1>6. /\ c \in S => f[c] = call[c].amount
        /\ c \in U => h[c] = call'[c].amount
    OBVIOUS
  <1> HIDE DEF S, U, f, h
  <1>7. SumFunctionOnSet(h, U) + (IF c \in S THEN f[c] ELSE 0)
          = SumFunctionOnSet(f, S) + (IF c \in U THEN h[c] ELSE 0)
    BY <1>1, <1>2, <1>3, <1>4, SumMoves
  <1>8. CoinsInFlight(u)' + (IF c \in S THEN call[c].amount ELSE 0)
          = CoinsInFlight(u) + (IF c \in U THEN call'[c].amount ELSE 0)
    BY <1>5, <1>6, <1>7
  <1> QED
    BY <1>8 DEF S, U

\* One row is added or written.
LEMMA RowMoves ==
  ASSUME TypeOK, TypeOK', NEW u \in Users, NEW w \in Withdrawals,
         \A x \in Withdrawals : x # w =>
           /\ row'[x] = row[x] /\ returned'[x] = returned[x] /\ rejected'[x] = rejected[x]
           /\ (status'[x] = "none" <=> status[x] = "none")
  PROVE  CoinsNotGivenBack(u)' + (IF w \in RowsOf(u) THEN Taken(w) ELSE 0)
           = CoinsNotGivenBack(u) + (IF w \in RowsOf(u)' THEN Taken(w)' ELSE 0)
  <1> DEFINE S == RowsOf(u)
             U == RowsOf(u)'
             f == [x \in S |-> Taken(x)]
             h == [x \in U |-> Taken(x)']
  <1>1. S \ {w} = U \ {w}
    BY DEF RowsOf
  <1>2. \A x \in S \ {w} : h[x] = f[x]
    <2>1. \A x \in S \ {w} : Taken(x)' = Taken(x)
      BY DEF RowsOf, Taken
    <2> QED
      BY <1>1, <2>1
  <1>3. IsFiniteSet(S) /\ \A x \in S : f[x] \in Int
    BY Terms
  <1>4. IsFiniteSet(U) /\ \A x \in U : h[x] \in Int
    BY TermsNext
  <1>5. /\ CoinsNotGivenBack(u) = SumFunctionOnSet(f, S)
        /\ CoinsNotGivenBack(u)' = SumFunctionOnSet(h, U)
    BY DEF CoinsNotGivenBack, Taken
  <1>6. /\ w \in S => f[w] = Taken(w)
        /\ w \in U => h[w] = Taken(w)'
    OBVIOUS
  <1> HIDE DEF S, U, f, h
  <1>7. SumFunctionOnSet(h, U) + (IF w \in S THEN f[w] ELSE 0)
          = SumFunctionOnSet(f, S) + (IF w \in U THEN h[w] ELSE 0)
    BY <1>1, <1>2, <1>3, <1>4, SumMoves
  <1>8. CoinsNotGivenBack(u)' + (IF w \in S THEN Taken(w) ELSE 0)
          = CoinsNotGivenBack(u) + (IF w \in U THEN Taken(w)' ELSE 0)
    BY <1>5, <1>6, <1>7
  <1> QED
    BY <1>8 DEF S, U

\* No row is written: what is not given back stays.
LEMMA RowsStay ==
  ASSUME NEW u \in Users, UNCHANGED <<row, returned, rejected>>,
         \A x \in Withdrawals : status'[x] = "none" <=> status[x] = "none"
  PROVE  CoinsNotGivenBack(u)' = CoinsNotGivenBack(u)
  <1>1. RowsOf(u)' = RowsOf(u)
    BY DEF RowsOf
  <1> QED
    BY <1>1 DEF CoinsNotGivenBack

\* The handlers that neither pay, create a row nor give coins back: what is in
\* flight can only become less.
Quiet(c) ==
  /\ UNCHANGED <<coins, row, returned, rejected>>
  /\ \A x \in Withdrawals : status'[x] = "none" <=> status[x] = "none"
  /\ \A d \in Calls : d # c => call'[d] = call[d]
  /\ call'[c].at \in {"create", "compensate"} =>
       /\ call[c].at \in {"create", "compensate"}
       /\ call'[c].user = call[c].user /\ call'[c].amount = call[c].amount

LEMMA QuietStep ==
  ASSUME TypeOK, TypeOK', BackedInv, NEW c \in Calls, Quiet(c)
  PROVE  BackedInv'
  <1>1. FreshInv'
    BY DEF BackedInv, FreshInv, Quiet
  <1>2. ASSUME NEW u \in Users
        PROVE  coins'[u] + CoinsInFlight(u)' + CoinsNotGivenBack(u)' <= StartCoins
    <2>1. coins[u] + CoinsInFlight(u) + CoinsNotGivenBack(u) <= StartCoins
      BY DEF BackedInv, Backed
    <2>2. CoinsNotGivenBack(u)' = CoinsNotGivenBack(u) /\ coins'[u] = coins[u]
      BY RowsStay DEF Quiet
    <2>3. CoinsInFlight(u)' + (IF c \in InFlight(u) THEN call[c].amount ELSE 0)
            = CoinsInFlight(u) + (IF c \in InFlight(u)' THEN call'[c].amount ELSE 0)
      BY FlightMoves DEF Quiet
    <2>4. c \in InFlight(u)' => c \in InFlight(u) /\ call'[c].amount = call[c].amount
      BY DEF Quiet, InFlight
    <2>5. c \in InFlight(u) => call[c].amount \in Nat
      BY Terms
    <2>6. CoinsInFlight(u) \in Nat /\ CoinsNotGivenBack(u) \in Int /\ coins[u] \in Nat
      BY SumsType
    <2>7. CoinsInFlight(u)' \in Nat
      BY SumsTypeNext
    <2> QED
      BY <2>1, <2>2, <2>3, <2>4, <2>5, <2>6, <2>7, StartIsNat
  <1> QED
    BY <1>1, <1>2 DEF BackedInv, Backed

\* Nothing is in flight any more, or what is stays.
LEMMA RestartStep ==
  ASSUME TypeOK, TypeOK', BackedInv, UNCHANGED <<coins, row, returned, rejected, status>>,
         call' = call \/ \A d \in Calls : call'[d] = Idle
  PROVE  BackedInv'
  <1>1. FreshInv'
    BY DEF BackedInv, FreshInv
  <1>2. ASSUME NEW u \in Users
        PROVE  coins'[u] + CoinsInFlight(u)' + CoinsNotGivenBack(u)' <= StartCoins
    <2>1. coins[u] + CoinsInFlight(u) + CoinsNotGivenBack(u) <= StartCoins
      BY DEF BackedInv, Backed
    <2>2. CoinsNotGivenBack(u)' = CoinsNotGivenBack(u) /\ coins'[u] = coins[u]
      BY RowsStay
    <2>3. CoinsInFlight(u) \in Nat /\ CoinsNotGivenBack(u) \in Int /\ coins[u] \in Nat
      BY SumsType
    <2>4. CASE call' = call
      <3>1. CoinsInFlight(u)' = CoinsInFlight(u)
        BY <2>4 DEF CoinsInFlight, InFlight
      <3> QED
        BY <2>1, <2>2, <3>1
    <2>5. CASE \A d \in Calls : call'[d] = Idle
      <3>1. InFlight(u)' = {}
        BY <2>5, IdleType DEF InFlight
      <3>2. CoinsInFlight(u)' = 0
        BY <3>1, SumNone DEF CoinsInFlight
      <3> QED
        BY <2>1, <2>2, <2>3, <3>2, StartIsNat
    <2> QED
      BY <2>4, <2>5
  <1> QED
    BY <1>1, <1>2 DEF BackedInv, Backed

\* A handler of u moves coins between what u has, what is in flight and one row.
LEMMA UserMoves ==
  ASSUME Backed, NEW owner \in Users,
         \A u \in Users : u # owner =>
           /\ coins'[u] = coins[u]
           /\ CoinsInFlight(u)' = CoinsInFlight(u)
           /\ CoinsNotGivenBack(u)' = CoinsNotGivenBack(u),
         coins'[owner] + CoinsInFlight(owner)' + CoinsNotGivenBack(owner)'
           = coins[owner] + CoinsInFlight(owner) + CoinsNotGivenBack(owner)
  PROVE  Backed'
  <1> SUFFICES ASSUME NEW u \in Users
               PROVE  coins'[u] + CoinsInFlight(u)' + CoinsNotGivenBack(u)' <= StartCoins
    BY DEF Backed
  <1>1. coins[u] + CoinsInFlight(u) + CoinsNotGivenBack(u) <= StartCoins
    BY DEF Backed
  <1>2. CASE u # owner
    BY <1>1, <1>2
  <1>3. CASE u = owner
    BY <1>1, <1>3
  <1> QED
    BY <1>2, <1>3

\* The user's handler that works, and what its call holds.
LEMMA Works ==
  ASSUME TypeOK, NEW c \in Calls, call[c].at \in {"debit", "create", "compensate"}
  PROVE  /\ call[c].user \in Users /\ call[c].amount \in Amounts /\ call[c].amount \in Nat
         /\ \A u \in Users : c \in InFlight(u) <=> call[c].at # "debit" /\ u = call[c].user
  <1>1. call[c].user \in Users /\ call[c].amount \in Amounts
    BY DEF TypeOK
  <1> QED
    BY <1>1, WithdrawalsAssumption DEF InFlight

LEMMA DebitBacked ==
  ASSUME TypeOK, TypeOK', BackedInv, NEW c \in Calls, Debit(c)
  PROVE  BackedInv'
  <1>1. call[c].at = "debit" /\ UNCHANGED <<returned, rejected, status, row>>
    BY DEF Debit, tableVars
  <1>2. call[c].user \in Users /\ call[c].amount \in Nat /\ \A u \in Users : c \notin InFlight(u)
    BY <1>1, Works
  <1>3. CASE coins[call[c].user] >= call[c].amount
    <2>0. PICK me \in Users : me = call[c].user
      BY <1>2
    <2>1. coins' = [coins EXCEPT ![me] = @ - call[c].amount] /\ Goto(c, "create")
      BY <1>3, <2>0 DEF Debit, GoOnIf
    <2>2. /\ \A d \in Calls : d # c => call'[d] = call[d]
          /\ call'[c].at = "create" /\ call'[c].user = me /\ call'[c].amount = call[c].amount
      BY <2>0, <2>1, GotoEffect DEF Stages
    <2>3. \A u \in Users : c \in InFlight(u)' <=> u = me
      BY <2>2 DEF InFlight
    <2>4. \A u \in Users : CoinsInFlight(u)' = CoinsInFlight(u) + (IF u = me THEN call[c].amount ELSE 0)
      <3> SUFFICES ASSUME NEW u \in Users
                   PROVE  CoinsInFlight(u)' = CoinsInFlight(u) + (IF u = me THEN call[c].amount ELSE 0)
        OBVIOUS
      <3>1. CoinsInFlight(u)' + (IF c \in InFlight(u) THEN call[c].amount ELSE 0)
              = CoinsInFlight(u) + (IF c \in InFlight(u)' THEN call'[c].amount ELSE 0)
        BY <2>2, FlightMoves
      <3>2. CoinsInFlight(u) \in Nat /\ CoinsInFlight(u)' \in Nat
        BY SumsType, SumsTypeNext
      <3> QED
        BY <1>2, <2>2, <2>3, <3>1, <3>2
    <2>5. \A u \in Users : CoinsNotGivenBack(u)' = CoinsNotGivenBack(u)
      BY <1>1, RowsStay
    <2>6. \A u \in Users : CoinsInFlight(u) \in Int /\ CoinsNotGivenBack(u) \in Int /\ coins[u] \in Nat
      BY SumsType
    <2>7. /\ coins'[me] = coins[me] - call[c].amount
          /\ \A u \in Users : u # me => coins'[u] = coins[u]
      BY <1>2, <2>1, <2>6 DEF TypeOK
    <2>8. /\ \A u \in Users : u # me =>
               /\ coins'[u] = coins[u]
               /\ CoinsInFlight(u)' = CoinsInFlight(u)
               /\ CoinsNotGivenBack(u)' = CoinsNotGivenBack(u)
          /\ coins'[me] + CoinsInFlight(me)' + CoinsNotGivenBack(me)'
               = coins[me] + CoinsInFlight(me) + CoinsNotGivenBack(me)
      BY <1>2, <2>4, <2>5, <2>6, <2>7
    <2>9. Backed'
      BY <2>8, UserMoves DEF BackedInv
    <2> QED
      BY <1>1, <2>9 DEF BackedInv, FreshInv
  <1>4. CASE ~(coins[call[c].user] >= call[c].amount)
    <2>1. coins' = coins /\ Return(c)
      BY <1>4 DEF Debit, GoOnIf
    <2>2. Quiet(c)
      BY <1>1, <2>1, ReturnEffect, IdleType DEF Quiet
    <2> QED
      BY <2>2, QuietStep
  <1> QED
    BY <1>3, <1>4

LEMMA CreateBacked ==
  ASSUME TypeOK, TypeOK', BackedInv, NEW c \in Calls, Create(c)
  PROVE  BackedInv'
  <1> DEFINE a == call[c].amount
  <1>0. PICK me \in Users : me = call[c].user
    BY Works DEF Create
  <1>1. call[c].at = "create" /\ Return(c) /\ UNCHANGED <<coins, returned, rejected>>
    BY DEF Create, ledgerVars
  <1>2. PICK w \in Withdrawals :
          /\ status[w] = "none"
          /\ status' = [status EXCEPT ![w] = "pending"]
          /\ row' = [row EXCEPT ![w] = [user |-> me, amount |-> a, address |-> call[c].address]]
    BY <1>0 DEF Create
  <1>3. me \in Users /\ a \in Nat /\ \A u \in Users : c \in InFlight(u) <=> u = me
    BY <1>0, <1>1, Works
  <1>4. /\ status'[w] = "pending" /\ row'[w].user = me /\ row'[w].amount = a
        /\ \A x \in Withdrawals : x # w => status'[x] = status[x] /\ row'[x] = row[x]
    BY <1>2 DEF TypeOK
  <1>5. /\ \A d \in Calls : d # c => call'[d] = call[d]
        /\ call'[c].at = "idle"
    BY <1>1, ReturnEffect, IdleType
  <1>6. \A u \in Users : c \notin InFlight(u)' /\ w \notin RowsOf(u) /\ (w \in RowsOf(u)' <=> u = me)
    BY <1>2, <1>4, <1>5 DEF InFlight, RowsOf
  <1>7. Taken(w)' = a
    <2>1. returned'[w] = 0 /\ rejected'[w] = 0
      BY <1>1, <1>2 DEF BackedInv, FreshInv
    <2>2. a * (1 - 0 - 0) = a
      BY <1>3
    <2> QED
      BY <1>4, <2>1, <2>2 DEF Taken
  <1> HIDE DEF a
  <1>8. ASSUME NEW u \in Users
        PROVE  /\ CoinsInFlight(u)' = CoinsInFlight(u) + (IF u = me THEN -a ELSE 0)
               /\ CoinsNotGivenBack(u)' = CoinsNotGivenBack(u) + (IF u = me THEN a ELSE 0)
    <2>1. CoinsInFlight(u)' + (IF c \in InFlight(u) THEN call[c].amount ELSE 0)
            = CoinsInFlight(u) + (IF c \in InFlight(u)' THEN call'[c].amount ELSE 0)
      BY <1>5, FlightMoves
    <2>2. CoinsNotGivenBack(u)' + (IF w \in RowsOf(u) THEN Taken(w) ELSE 0)
            = CoinsNotGivenBack(u) + (IF w \in RowsOf(u)' THEN Taken(w)' ELSE 0)
      BY <1>1, <1>4, <1>6, <1>7, RowMoves
    <2>3. CoinsInFlight(u) \in Nat /\ CoinsNotGivenBack(u) \in Int /\ CoinsInFlight(u)' \in Nat /\ CoinsNotGivenBack(u)' \in Int
      BY SumsType, SumsTypeNext
    <2>4. call[c].amount = a
      BY DEF a
    <2> QED
      BY <1>3, <1>6, <1>7, <2>1, <2>2, <2>3, <2>4
  <1>9. Backed'
    <2>1. /\ \A u \in Users : u # me =>
               /\ coins'[u] = coins[u]
               /\ CoinsInFlight(u)' = CoinsInFlight(u)
               /\ CoinsNotGivenBack(u)' = CoinsNotGivenBack(u)
          /\ coins'[me] + CoinsInFlight(me)' + CoinsNotGivenBack(me)'
               = coins[me] + CoinsInFlight(me) + CoinsNotGivenBack(me)
      BY <1>1, <1>3, <1>8, SumsType
    <2> QED
      BY <2>1, UserMoves DEF BackedInv
  <1>10. FreshInv'
    BY <1>1, <1>2, <1>4 DEF BackedInv, FreshInv
  <1> QED
    BY <1>9, <1>10 DEF BackedInv

LEMMA CompensateBacked ==
  ASSUME TypeOK, TypeOK', BackedInv, NEW c \in Calls, Compensate(c)
  PROVE  BackedInv'
  <1> DEFINE a == call[c].amount
  <1>0. PICK me \in Users : me = call[c].user
    BY Works DEF Compensate
  <1>1. call[c].at = "compensate" /\ Return(c) /\ UNCHANGED <<status, row, returned, rejected>>
    BY DEF Compensate, tableVars
  <1>2. coins' = [coins EXCEPT ![me] = @ + a]
    BY <1>0 DEF Compensate
  <1>3. me \in Users /\ a \in Nat /\ \A u \in Users : c \in InFlight(u) <=> u = me
    BY <1>0, <1>1, Works
  <1>4. /\ \A d \in Calls : d # c => call'[d] = call[d]
        /\ call'[c].at = "idle"
    BY <1>1, ReturnEffect, IdleType
  <1>5. \A u \in Users : c \notin InFlight(u)'
    BY <1>4 DEF InFlight
  <1>6. call[c].amount = a
    OBVIOUS
  <1> HIDE DEF a
  <1>7. ASSUME NEW u \in Users
        PROVE  CoinsInFlight(u)' = CoinsInFlight(u) + (IF u = me THEN -a ELSE 0)
    <2>1. CoinsInFlight(u)' + (IF c \in InFlight(u) THEN call[c].amount ELSE 0)
            = CoinsInFlight(u) + (IF c \in InFlight(u)' THEN call'[c].amount ELSE 0)
      BY <1>4, FlightMoves
    <2>2. CoinsInFlight(u) \in Nat /\ CoinsInFlight(u)' \in Nat
      BY SumsType, SumsTypeNext
    <2> QED
      BY <1>3, <1>5, <1>6, <2>1, <2>2
  <1>8. /\ coins'[me] = coins[me] + a
        /\ \A u \in Users : u # me => coins'[u] = coins[u]
    BY <1>2, <1>3 DEF TypeOK
  <1>9. Backed'
    <2>1. \A u \in Users : CoinsNotGivenBack(u)' = CoinsNotGivenBack(u)
      BY <1>1, RowsStay, SumsType
    <2>2. /\ \A u \in Users : u # me =>
               /\ coins'[u] = coins[u]
               /\ CoinsInFlight(u)' = CoinsInFlight(u)
               /\ CoinsNotGivenBack(u)' = CoinsNotGivenBack(u)
          /\ coins'[me] + CoinsInFlight(me)' + CoinsNotGivenBack(me)'
               = coins[me] + CoinsInFlight(me) + CoinsNotGivenBack(me)
      BY <1>3, <1>7, <1>8, <2>1, SumsType
    <2> QED
      BY <2>2, UserMoves DEF BackedInv
  <1> QED
    BY <1>1, <1>9 DEF BackedInv, FreshInv

\* The coins of one row go back to its owner: by the owner, or by an admin.
LEMMA RefundBacked ==
  ASSUME TypeOK, TypeOK', Backed, NEW c \in Calls, NEW w \in Withdrawals,
         call[c].at \in {"refund", "reject"}, Return(c), status[w] # "none",
         coins' = [coins EXCEPT ![row[w].user] = @ + row[w].amount],
         Taken(w)' = Taken(w) - row[w].amount, row' = row,
         \A x \in Withdrawals : x # w => returned'[x] = returned[x] /\ rejected'[x] = rejected[x],
         \A x \in Withdrawals : status'[x] = "none" <=> status[x] = "none"
  PROVE  Backed'
  <1> DEFINE a == row[w].amount
  <1>1. row[w] \in Rows
    BY DEF TypeOK
  <1>0. PICK me \in Users : me = row[w].user
    BY <1>1, RowType
  <1>2. a \in Nat
    BY <1>1, RowType
  <1>3. /\ \A d \in Calls : d # c => call'[d] = call[d]
        /\ call'[c].at = "idle"
    BY ReturnEffect, IdleType
  <1>4. \A u \in Users : /\ c \notin InFlight(u) /\ c \notin InFlight(u)'
                         /\ (w \in RowsOf(u) <=> u = me) /\ (w \in RowsOf(u)' <=> u = me)
    BY <1>0, <1>3 DEF InFlight, RowsOf
  <1>5. Taken(w) \in Int
    BY <1>0, <1>4, Terms
  <1>6. /\ coins'[me] = coins[me] + a
        /\ \A u \in Users : u # me => coins'[u] = coins[u]
    BY <1>0, <1>2 DEF TypeOK
  <1>7. Taken(w)' = Taken(w) - a
    OBVIOUS
  <1> HIDE DEF a
  <1>8. ASSUME NEW u \in Users
        PROVE  /\ CoinsInFlight(u)' = CoinsInFlight(u)
               /\ CoinsNotGivenBack(u)' = CoinsNotGivenBack(u) + (IF u = me THEN -a ELSE 0)
    <2>1. CoinsInFlight(u)' + (IF c \in InFlight(u) THEN call[c].amount ELSE 0)
            = CoinsInFlight(u) + (IF c \in InFlight(u)' THEN call'[c].amount ELSE 0)
      BY <1>3, FlightMoves
    <2>2. CoinsNotGivenBack(u)' + (IF w \in RowsOf(u) THEN Taken(w) ELSE 0)
            = CoinsNotGivenBack(u) + (IF w \in RowsOf(u)' THEN Taken(w)' ELSE 0)
      BY RowMoves
    <2>3. /\ CoinsInFlight(u) \in Nat /\ CoinsNotGivenBack(u) \in Int
          /\ CoinsInFlight(u)' \in Nat /\ CoinsNotGivenBack(u)' \in Int
      BY SumsType, SumsTypeNext
    <2> QED
      BY <1>2, <1>4, <1>5, <1>7, <2>1, <2>2, <2>3
  <1>9. /\ \A u \in Users : u # me =>
             /\ coins'[u] = coins[u]
             /\ CoinsInFlight(u)' = CoinsInFlight(u)
             /\ CoinsNotGivenBack(u)' = CoinsNotGivenBack(u)
        /\ coins'[me] + CoinsInFlight(me)' + CoinsNotGivenBack(me)'
             = coins[me] + CoinsInFlight(me) + CoinsNotGivenBack(me)
    BY <1>2, <1>6, <1>8, SumsType
  <1> QED
    BY <1>9, UserMoves

LEMMA ReturnCoinsBacked ==
  ASSUME TypeOK, TypeOK', BackedInv, NEW c \in Calls, ReturnCoins(c)
  PROVE  BackedInv'
  <1>1. /\ call[c].at = "refund" /\ Return(c) /\ UNCHANGED <<status, row, rejected>>
        /\ call[c].w \in Withdrawals /\ status[call[c].w] # "none"
    BY DEF ReturnCoins, tableVars, TypeOK
  <1>2. SUFFICES ASSUME NEW w \in Withdrawals, w = call[c].w
                 PROVE  BackedInv'
    BY <1>1
  <1>3. /\ coins' = [coins EXCEPT ![row[w].user] = @ + row[w].amount]
        /\ returned' = [returned EXCEPT ![w] = @ + 1]
    BY <1>2 DEF ReturnCoins
  <1>4. /\ returned[w] \in Int /\ rejected[w] \in Int /\ returned'[w] = returned[w] + 1
        /\ row[w] \in Rows
        /\ \A x \in Withdrawals : x # w => returned'[x] = returned[x]
    BY <1>1, <1>2, <1>3 DEF TypeOK
  <1>5. row[w].amount \in Int
    BY <1>4, RowType
  <1>6. row[w].amount * (1 - (returned[w] + 1) - rejected[w])
          = row[w].amount * (1 - returned[w] - rejected[w]) - row[w].amount
    BY <1>4, <1>5, TakenNumbers
  <1>7. Taken(w)' = Taken(w) - row[w].amount
    BY <1>1, <1>4, <1>6 DEF Taken
  <1>8. Backed'
    BY <1>1, <1>2, <1>3, <1>4, <1>7, RefundBacked DEF BackedInv
  <1>9. FreshInv'
    BY <1>1, <1>2, <1>4 DEF BackedInv, FreshInv
  <1> QED
    BY <1>8, <1>9 DEF BackedInv

LEMMA CommitRejectBacked ==
  ASSUME TypeOK, TypeOK', BackedInv, NEW c \in Calls, CommitReject(c)
  PROVE  BackedInv'
  <1>1. /\ call[c].at = "reject" /\ Return(c) /\ UNCHANGED <<row, returned>>
        /\ call[c].w \in Withdrawals /\ status[call[c].w] # "none"
    BY DEF CommitReject, TypeOK
  <1>2. SUFFICES ASSUME NEW w \in Withdrawals, w = call[c].w
                 PROVE  BackedInv'
    BY <1>1
  <1>3. /\ coins' = [coins EXCEPT ![row[w].user] = @ + row[w].amount]
        /\ rejected' = [rejected EXCEPT ![w] = @ + 1]
        /\ status' = [status EXCEPT ![w] = "cancelled"]
    BY <1>2 DEF CommitReject
  <1>4. /\ returned[w] \in Int /\ rejected[w] \in Int /\ rejected'[w] = rejected[w] + 1
        /\ row[w] \in Rows
        /\ \A x \in Withdrawals : x # w => rejected'[x] = rejected[x]
        /\ \A x \in Withdrawals : status'[x] = "none" <=> status[x] = "none"
    BY <1>1, <1>2, <1>3 DEF TypeOK
  <1>5. row[w].amount \in Int
    BY <1>4, RowType
  <1>6. row[w].amount * (1 - returned[w] - (rejected[w] + 1))
          = row[w].amount * (1 - returned[w] - rejected[w]) - row[w].amount
    BY <1>4, <1>5, TakenNumbers
  <1>7. Taken(w)' = Taken(w) - row[w].amount
    BY <1>1, <1>4, <1>6 DEF Taken
  <1>8. Backed'
    BY <1>1, <1>2, <1>3, <1>4, <1>7, RefundBacked DEF BackedInv
  <1>9. FreshInv'
    BY <1>1, <1>2, <1>4 DEF BackedInv, FreshInv
  <1> QED
    BY <1>8, <1>9 DEF BackedInv

\* Every step keeps the sum.
LEMMA BackedStep == TypeOK /\ BackedInv /\ [Next]_vars => BackedInv'
  <1> SUFFICES ASSUME TypeOK, BackedInv, [Next]_vars PROVE BackedInv'
    OBVIOUS
  <1>0. TypeOK'
    BY TypeStep
  <1>1. ASSUME NEW c \in Calls, NEW u \in Users, NEW a \in Amounts, Request(c, u, a) PROVE Quiet(c)
    BY <1>1, RequestBegins DEF Quiet
  <1>2. ASSUME NEW c \in Calls, NEW u \in Users, NEW a \in Addresses, Connect(c, u, a) PROVE Quiet(c)
    BY <1>2, ConnectBegins DEF Quiet
  <1>3. ASSUME NEW c \in Calls, NEW u \in Users, Disconnect(c, u) PROVE Quiet(c)
    BY <1>3, DisconnectBegins DEF Quiet
  <1>4. ASSUME NEW c \in Calls, NEW w \in Withdrawals, Cancel(c, w) PROVE Quiet(c)
    BY <1>4, BeginOnEffect DEF Cancel, Quiet, Stages, ledgerVars, tableVars
  <1>5. ASSUME NEW c \in Calls, NEW w \in Withdrawals, Approve(c, w) PROVE Quiet(c)
    BY <1>5, BeginOnEffect DEF Approve, Quiet, Stages, ledgerVars, tableVars
  <1>6. ASSUME NEW c \in Calls, NEW w \in Withdrawals, Reject(c, w) PROVE Quiet(c)
    BY <1>6, BeginOnEffect DEF Reject, Quiet, Stages, ledgerVars, tableVars
  <1>7. ASSUME NEW c \in Calls, CheckPending(c) PROVE Quiet(c)
    BY <1>7, GoOnEffect, IdleType DEF CheckPending, Quiet, Stages, ledgerVars, tableVars
  <1>8. ASSUME NEW c \in Calls, CheckLimit(c) PROVE Quiet(c)
    BY <1>8, GoOnEffect, IdleType DEF CheckLimit, Quiet, Stages, ledgerVars, tableVars
  <1>9. ASSUME NEW c \in Calls, CheckBalance(c) PROVE Quiet(c)
    BY <1>9, GoOnEffect, IdleType DEF CheckBalance, Quiet, Stages, ledgerVars, tableVars
  <1>10. ASSUME NEW c \in Calls, Debit(c) PROVE BackedInv'
    BY <1>0, <1>10, DebitBacked
  <1>11. ASSUME NEW c \in Calls, Create(c) PROVE BackedInv'
    BY <1>0, <1>11, CreateBacked
  <1>12. ASSUME NEW c \in Calls, Compensate(c) PROVE BackedInv'
    BY <1>0, <1>12, CompensateBacked
  <1>13. ASSUME NEW c \in Calls, ReturnCoins(c) PROVE BackedInv'
    BY <1>0, <1>13, ReturnCoinsBacked
  <1>14. ASSUME NEW c \in Calls, CommitReject(c) PROVE BackedInv'
    BY <1>0, <1>14, CommitRejectBacked
  <1>15. ASSUME NEW c \in Calls, MarkCancelled(c) PROVE Quiet(c)
    BY <1>15, GoOnEffect, IdleType DEF MarkCancelled, Quiet, TypeOK, Stages, Statuses, ledgerVars, tableVars
  <1>16. ASSUME NEW c \in Calls, Send(c) PROVE Quiet(c)
    BY <1>16, GotoEffect, ReturnEffect, IdleType DEF Send, Quiet, TypeOK, Stages, Statuses, ledgerVars, tableVars
  <1>17. ASSUME NEW c \in Calls, MarkSent(c) PROVE Quiet(c)
    BY <1>17, ReturnEffect, IdleType DEF MarkSent, Quiet, TypeOK, Stages, Statuses, ledgerVars, tableVars
  <1>18. ASSUME NEW c \in Calls, Link(c) PROVE Quiet(c)
    BY <1>18, ReturnEffect, IdleType DEF Link, Quiet, TypeOK, Stages, Statuses, ledgerVars, tableVars
  <1>19. ASSUME NEW c \in Calls, Unlink(c) PROVE Quiet(c)
    BY <1>19, ReturnEffect, IdleType DEF Unlink, Quiet, TypeOK, Stages, Statuses, ledgerVars, tableVars
  <1>20. ASSUME NEW c \in Calls, StatementFails(c) PROVE Quiet(c)
    BY <1>20, GotoEffect, ReturnEffect, IdleType DEF StatementFails, Quiet, TypeOK, Stages, Statuses, ledgerVars, tableVars
  <1>21. ASSUME Crash PROVE BackedInv'
    <2>1. UNCHANGED <<coins, row, returned, rejected, status>> /\ \A d \in Calls : call'[d] = Idle
      BY <1>21 DEF Crash, ledgerVars, tableVars
    <2> QED
      BY <1>0, <2>1, RestartStep
  <1>22. ASSUME NewDay PROVE BackedInv'
    <2>1. UNCHANGED <<coins, row, returned, rejected, status, call>>
      BY <1>22 DEF NewDay, ledgerVars
    <2> QED
      BY <1>0, <2>1, RestartStep
  <1>23. ASSUME UNCHANGED vars PROVE BackedInv'
    <2>1. UNCHANGED <<coins, row, returned, rejected, status, call>>
      BY <1>23 DEF vars, ledgerVars, tableVars
    <2> QED
      BY <1>0, <2>1, RestartStep
  <1>24. ASSUME NEW c \in Calls, Quiet(c) PROVE BackedInv'
    BY <1>0, <1>24, QuietStep
  <1> QED
    BY <1>1, <1>2, <1>3, <1>4, <1>5, <1>6, <1>7, <1>8, <1>9, <1>10, <1>11, <1>12, <1>13, <1>14, <1>15, <1>16, <1>17, <1>18, <1>19, <1>20, <1>21, <1>22, <1>23, <1>24
    DEF Next, RequestStep, CancelStep, AdminStep

\* What a user still has, what is on its way and the withdrawals that were not given
\* back never exceed what he had: nothing is withdrawn that was not debited first,
\* and nothing is given back twice other than by RejectWithdrawal.
THEOREM BackedHolds == Spec => []Backed
<1>1. Init => BackedInv
  <2> SUFFICES ASSUME Init PROVE BackedInv
    OBVIOUS
  <2>1. FreshInv
    BY DEF Init, FreshInv
  <2>2. ASSUME NEW u \in Users
        PROVE  coins[u] + CoinsInFlight(u) + CoinsNotGivenBack(u) <= StartCoins
    <3>1. InFlight(u) = {} /\ RowsOf(u) = {} /\ coins[u] = StartCoins
      BY IdleType DEF Init, InFlight, RowsOf
    <3>2. CoinsInFlight(u) = 0 /\ CoinsNotGivenBack(u) = 0
      BY <3>1, SumNone DEF CoinsInFlight, CoinsNotGivenBack
    <3> QED
      BY <3>1, <3>2, StartIsNat
  <2> QED
    BY <2>1, <2>2 DEF BackedInv, Backed
<1>2. BackedInv => Backed
  BY DEF BackedInv
<1> QED
  BY <1>1, <1>2, BackedStep, WithdrawalsTypeCorrect, PTL DEF Spec
-----------------------------------------------------------------------------
(* The limit of the day.                                                   *)

\* The rows that count against the limit, and what each counts.
Counted(u) == {w \in RowsOf(u) \cap today : status[w] # "cancelled"}
AmountsOf(u) == [w \in RowsOf(u) |-> row[w].amount]

\* A request that has passed the check of the limit still fits under it.
LimitUser(u) ==
  /\ CoinsWithdrawnToday(u) <= MaxWithdrawCoinsPerDay
  /\ \A c \in Calls : call[c].user = u /\ call[c].at \in {"balance?", "debit", "create"} =>
       CoinsWithdrawnToday(u) + call[c].amount <= MaxWithdrawCoinsPerDay

LimitInv == \A u \in orderly : LimitUser(u)

LEMMA TodayIs ==
  ASSUME NEW u \in Users
  PROVE  CoinsWithdrawnToday(u) = SumFunctionOnSet(AmountsOf(u), Counted(u))
  BY DEF CoinsWithdrawnToday, CoinsIn, AmountsOf, Counted

LEMMA CountedTerms ==
  ASSUME TypeOK, NEW u \in Users
  PROVE  /\ IsFiniteSet(Counted(u)) /\ Counted(u) \subseteq RowsOf(u)
         /\ \A w \in RowsOf(u) : AmountsOf(u)[w] = row[w].amount /\ AmountsOf(u)[w] \in Nat
  <1>1. Counted(u) \subseteq RowsOf(u)
    BY DEF Counted
  <1>2. IsFiniteSet(Counted(u))
    BY <1>1, Terms, FS_Subset
  <1>3. \A w \in RowsOf(u) : AmountsOf(u)[w] = row[w].amount /\ AmountsOf(u)[w] \in Nat
    BY Terms DEF AmountsOf
  <1> QED
    BY <1>1, <1>2, <1>3

LEMMA TodayType ==
  ASSUME TypeOK, NEW u \in Users
  PROVE  CoinsWithdrawnToday(u) \in Nat
  <1>1. IsFiniteSet(Counted(u)) /\ \A w \in Counted(u) : AmountsOf(u)[w] \in Nat
    BY CountedTerms
  <1>2. SumFunctionOnSet(AmountsOf(u), Counted(u)) \in Nat
    BY <1>1, SumNat
  <1> QED
    BY <1>2, TodayIs

\* No row is written, and at most rows stop to count.
Fewer(u) ==
  /\ UNCHANGED row
  /\ \A x \in Withdrawals : status'[x] = "none" <=> status[x] = "none"
  /\ \/ Counted(u)' = Counted(u)
     \/ Counted(u)' = {}
     \/ \E w \in Withdrawals : Counted(u)' = Counted(u) \ {w}

LEMMA TodayFewer ==
  ASSUME TypeOK, NEW u \in Users, Fewer(u)
  PROVE  CoinsWithdrawnToday(u)' \in Int /\ CoinsWithdrawnToday(u)' <= CoinsWithdrawnToday(u)
  <1> DEFINE f == AmountsOf(u)
             S == Counted(u)
             U == Counted(u)'
  <1>1. AmountsOf(u)' = f
    BY DEF Fewer, AmountsOf, RowsOf
  <1>2. CoinsWithdrawnToday(u)' = SumFunctionOnSet(f, U) /\ CoinsWithdrawnToday(u) = SumFunctionOnSet(f, S)
    BY <1>1, TodayIs DEF CoinsWithdrawnToday, CoinsIn, AmountsOf, Counted
  <1>3. IsFiniteSet(S) /\ \A w \in S : f[w] \in Nat
    BY CountedTerms
  <1>4. U = S \/ U = {} \/ \E w \in S : U = S \ {w}
    BY DEF Fewer
  <1> HIDE DEF f, S, U
  <1>5. SumFunctionOnSet(f, S) \in Nat
    BY <1>3, SumNat
  <1>6. CASE U = S
    BY <1>2, <1>5, <1>6
  <1>7. CASE U = {}
    <2>1. SumFunctionOnSet(f, U) = 0
      BY <1>7, SumNone
    <2> QED
      BY <1>2, <1>5, <2>1
  <1>8. CASE \E w \in S : U = S \ {w}
    <2>1. PICK w \in S : U = S \ {w}
      BY <1>8
    <2>2. SumFunctionOnSet(f, S) = f[w] + SumFunctionOnSet(f, U)
      BY <1>3, <2>1, SumTake
    <2>3. IsFiniteSet(U) /\ \A x \in U : f[x] \in Int
      BY <1>3, <2>1, FS_Subset
    <2>4. SumFunctionOnSet(f, U) \in Int
      BY <2>3, SumType
    <2> QED
      BY <1>2, <1>3, <2>1, <2>2, <2>4
  <1> QED
    BY <1>4, <1>6, <1>7, <1>8

\* A handler that passes no check of the limit.
Moderate(c) ==
  /\ orderly' \subseteq orderly
  /\ \A u \in Users : Fewer(u)
  /\ \A d \in Calls : d # c => call'[d] = call[d]
  /\ call'[c].at \in {"balance?", "debit", "create"} =>
       /\ call[c].at \in {"balance?", "debit", "create"}
       /\ call'[c].user = call[c].user /\ call'[c].amount = call[c].amount

LEMMA ModerateStep ==
  ASSUME TypeOK, LimitInv, NEW c \in Calls, Moderate(c)
  PROVE  LimitInv'
  <1> SUFFICES ASSUME NEW u \in orderly'
               PROVE  LimitUser(u)'
    BY DEF LimitInv
  <1>1. u \in Users /\ u \in orderly /\ LimitUser(u)
    BY DEF Moderate, TypeOK, LimitInv
  <1>2. CoinsWithdrawnToday(u)' \in Int /\ CoinsWithdrawnToday(u)' <= CoinsWithdrawnToday(u)
    BY <1>1, TodayFewer DEF Moderate
  <1>3. CoinsWithdrawnToday(u) \in Nat /\ MaxWithdrawCoinsPerDay \in Nat
    BY <1>1, TodayType, WithdrawalsAssumption
  <1>4. ASSUME NEW d \in Calls, call'[d].user = u, call'[d].at \in {"balance?", "debit", "create"}
        PROVE  CoinsWithdrawnToday(u)' + call'[d].amount <= MaxWithdrawCoinsPerDay
    <2>1. /\ call[d].user = u /\ call[d].at \in {"balance?", "debit", "create"}
          /\ call'[d].amount = call[d].amount
      BY <1>4 DEF Moderate
    <2>2. CoinsWithdrawnToday(u) + call[d].amount <= MaxWithdrawCoinsPerDay
      BY <1>1, <2>1 DEF LimitUser
    <2>3. call[d].amount \in Nat
      BY <2>1, WithdrawalsAssumption DEF TypeOK
    <2> QED
      BY <1>2, <1>3, <2>1, <2>2, <2>3
  <1>5. CoinsWithdrawnToday(u)' <= MaxWithdrawCoinsPerDay
    BY <1>1, <1>2, <1>3 DEF LimitUser
  <1> QED
    BY <1>4, <1>5 DEF LimitUser

\* The check of the limit.
LEMMA CheckLimitStep ==
  ASSUME TypeOK, LimitInv, NEW c \in Calls, CheckLimit(c)
  PROVE  LimitInv'
  <1>1. /\ call[c].at = "limit?" /\ UNCHANGED <<status, row, today, orderly>>
        /\ GoOnIf(c, CoinsWithdrawnToday(call[c].user) + call[c].amount <= MaxWithdrawCoinsPerDay, "balance?")
    BY DEF CheckLimit, tableVars
  <1>2. /\ \A d \in Calls : d # c => call'[d] = call[d]
        /\ \/ call'[c] = Idle
           \/ /\ CoinsWithdrawnToday(call[c].user) + call[c].amount <= MaxWithdrawCoinsPerDay
              /\ call'[c].user = call[c].user /\ call'[c].amount = call[c].amount
    BY <1>1, GoOnEffect DEF Stages
  <1> SUFFICES ASSUME NEW u \in orderly'
               PROVE  LimitUser(u)'
    BY DEF LimitInv
  <1>3. LimitUser(u)
    BY <1>1 DEF LimitInv
  <1>4. CoinsWithdrawnToday(u)' = CoinsWithdrawnToday(u)
    BY <1>1 DEF CoinsWithdrawnToday, CoinsIn, RowsOf
  <1>5. ASSUME NEW d \in Calls, call'[d].user = u, call'[d].at \in {"balance?", "debit", "create"}
        PROVE  CoinsWithdrawnToday(u) + call'[d].amount <= MaxWithdrawCoinsPerDay
    <2>1. CASE d = c
      BY <1>2, <1>5, <2>1, IdleType
    <2>2. CASE d # c
      BY <1>2, <1>3, <1>5, <2>2 DEF LimitUser
    <2> QED
      BY <2>1, <2>2
  <1> QED
    BY <1>3, <1>4, <1>5 DEF LimitUser

\* The row of a request that has passed the check.
LEMMA CreateStep ==
  ASSUME TypeOK, TypeOK', OrderlyInv, LimitInv, NEW c \in Calls, Create(c)
  PROVE  LimitInv'
  <1>1. call[c].at = "create" /\ Return(c) /\ orderly' = orderly
    BY DEF Create
  <1>2. PICK w \in Withdrawals :
          /\ status[w] = "none"
          /\ status' = [status EXCEPT ![w] = "pending"]
          /\ row' = [row EXCEPT ![w] = [user |-> call[c].user, amount |-> call[c].amount,
                                        address |-> call[c].address]]
          /\ today' = today \cup {w}
    BY DEF Create
  <1>3. /\ status'[w] = "pending" /\ row'[w].user = call[c].user /\ row'[w].amount = call[c].amount
        /\ \A x \in Withdrawals : x # w => status'[x] = status[x] /\ row'[x] = row[x]
    BY <1>2 DEF TypeOK
  <1>4. /\ \A d \in Calls : d # c => call'[d] = call[d]
        /\ call'[c].at = "idle"
    BY <1>1, ReturnEffect, IdleType
  <1>5. call[c].user \in Users /\ call[c].amount \in Nat
    BY <1>1, Works
  <1> SUFFICES ASSUME NEW u \in orderly'
               PROVE  LimitUser(u)'
    BY DEF LimitInv
  <1>6. u \in Users /\ LimitUser(u) /\ OrderlyUser(u)
    BY <1>1 DEF TypeOK, LimitInv, OrderlyInv
  <1>7. CASE u # call[c].user
    <2>1. RowsOf(u)' = RowsOf(u) /\ w \notin RowsOf(u)
      BY <1>2, <1>3, <1>7 DEF RowsOf
    <2>2. Counted(u)' = Counted(u)
      BY <1>2, <1>3, <2>1 DEF Counted, RowsOf
    <2>3. AmountsOf(u)' = AmountsOf(u)
      BY <1>3, <2>1 DEF AmountsOf, RowsOf
    <2>4. CoinsWithdrawnToday(u)' = CoinsWithdrawnToday(u)
      BY <1>6, <2>2, <2>3 DEF CoinsWithdrawnToday, CoinsIn, AmountsOf, Counted
    <2> QED
      BY <1>4, <1>6, <2>4 DEF LimitUser
  <1>8. CASE u = call[c].user
    <2> DEFINE f == AmountsOf(u)
               h == AmountsOf(u)'
               S == Counted(u)
               U == Counted(u)'
    <2>1. RowsOf(u)' = RowsOf(u) \cup {w} /\ w \notin RowsOf(u)
      BY <1>2, <1>3, <1>8 DEF RowsOf
    <2>2. U = S \cup {w} /\ w \notin S
      BY <1>2, <1>3, <2>1 DEF Counted, RowsOf
    <2>3. h[w] = call[c].amount
      BY <1>3, <2>1 DEF AmountsOf
    <2>4. \A x \in S : h[x] = f[x]
      BY <1>3, <2>1 DEF AmountsOf, Counted, RowsOf
    <2>5. IsFiniteSet(S) /\ \A x \in S : f[x] \in Nat
      BY <1>6, CountedTerms
    <2>6. CoinsWithdrawnToday(u)' = SumFunctionOnSet(h, U) /\ CoinsWithdrawnToday(u) = SumFunctionOnSet(f, S)
      BY DEF CoinsWithdrawnToday, CoinsIn, AmountsOf, Counted
    <2> HIDE DEF f, h, S, U
    <2>7. IsFiniteSet(U) /\ \A x \in U : h[x] \in Int
      BY <1>5, <2>2, <2>3, <2>4, <2>5, FS_AddElement
    <2>8. S = U \ {w} /\ w \in U
      BY <2>2
    <2>9. SumFunctionOnSet(h, U) = h[w] + SumFunctionOnSet(h, S)
      BY <2>7, <2>8, SumTake
    <2>10. SumFunctionOnSet(h, S) = SumFunctionOnSet(f, S) /\ SumFunctionOnSet(f, S) \in Nat
      BY <2>4, <2>5, SumSame, SumNat
    <2>11. CoinsWithdrawnToday(u) + call[c].amount <= MaxWithdrawCoinsPerDay
      BY <1>1, <1>6, <1>8 DEF LimitUser
    <2>12. CoinsWithdrawnToday(u)' <= MaxWithdrawCoinsPerDay
      BY <1>5, <2>3, <2>6, <2>9, <2>10, <2>11
    <2>13. \A d \in Calls : call'[d].at \in {"balance?", "debit", "create"} => call'[d].user # u
      BY <1>4, <1>6, <1>8 DEF OrderlyUser
    <2> QED
      BY <2>12, <2>13 DEF LimitUser
  <1> QED
    BY <1>7, <1>8

\* Every step keeps the limit.
LEMMA LimitStep == TypeOK /\ OrderlyInv /\ LimitInv /\ [Next]_vars => LimitInv'
  <1> SUFFICES ASSUME TypeOK, OrderlyInv, LimitInv, [Next]_vars PROVE LimitInv'
    OBVIOUS
  <1>0. TypeOK'
    BY TypeStep
  <1>a. ASSUME UNCHANGED <<row, status, today>> PROVE \A u \in Users : Fewer(u)
    BY <1>a DEF Fewer, Counted, RowsOf
  <1>1. ASSUME NEW c \in Calls, NEW u \in Users, NEW a \in Amounts, Request(c, u, a) PROVE Moderate(c)
    BY <1>a, <1>1, RequestBegins DEF Moderate
  <1>2. ASSUME NEW c \in Calls, NEW u \in Users, NEW a \in Addresses, Connect(c, u, a) PROVE Moderate(c)
    BY <1>a, <1>2, ConnectBegins DEF Moderate
  <1>3. ASSUME NEW c \in Calls, NEW u \in Users, Disconnect(c, u) PROVE Moderate(c)
    BY <1>a, <1>3, DisconnectBegins DEF Moderate
  <1>4. ASSUME NEW c \in Calls, NEW w \in Withdrawals, Cancel(c, w) PROVE Moderate(c)
    <2>1. UNCHANGED <<row, status, today, orderly>>
      BY <1>4 DEF Cancel, ledgerVars, tableVars
    <2> QED
      BY <1>a, <1>4, <2>1, BeginOnEffect DEF Cancel, Moderate, Stages
  <1>5. ASSUME NEW c \in Calls, NEW w \in Withdrawals, Approve(c, w) PROVE Moderate(c)
    <2>1. UNCHANGED <<row, status, today, orderly>>
      BY <1>5 DEF Approve, ledgerVars, tableVars
    <2> QED
      BY <1>a, <1>5, <2>1, BeginOnEffect DEF Approve, Moderate, Stages
  <1>6. ASSUME NEW c \in Calls, NEW w \in Withdrawals, Reject(c, w) PROVE Moderate(c)
    <2>1. UNCHANGED <<row, status, today, orderly>>
      BY <1>6 DEF Reject, ledgerVars, tableVars
    <2> QED
      BY <1>a, <1>6, <2>1, BeginOnEffect DEF Reject, Moderate, Stages
  <1>7. ASSUME NEW c \in Calls, CheckPending(c) PROVE Moderate(c)
    <2>1. UNCHANGED <<row, status, today, orderly>>
      BY <1>7 DEF CheckPending, ledgerVars, tableVars
    <2> QED
      BY <1>a, <1>7, <2>1, GoOnEffect, IdleType DEF CheckPending, Moderate, Stages
  <1>8. ASSUME NEW c \in Calls, CheckBalance(c) PROVE Moderate(c)
    <2>1. UNCHANGED <<row, status, today, orderly>>
      BY <1>8 DEF CheckBalance, ledgerVars, tableVars
    <2> QED
      BY <1>a, <1>8, <2>1, GoOnEffect, IdleType DEF CheckBalance, Moderate, Stages
  <1>9. ASSUME NEW c \in Calls, Debit(c) PROVE Moderate(c)
    <2>1. UNCHANGED <<row, status, today, orderly>>
      BY <1>9 DEF Debit, ledgerVars, tableVars
    <2> QED
      BY <1>a, <1>9, <2>1, GoOnEffect, IdleType DEF Debit, Moderate, Stages
  <1>10. ASSUME NEW c \in Calls, Compensate(c) PROVE Moderate(c)
    <2>1. UNCHANGED <<row, status, today, orderly>>
      BY <1>10 DEF Compensate, ledgerVars, tableVars
    <2> QED
      BY <1>a, <1>10, <2>1, ReturnEffect, IdleType DEF Compensate, Moderate, Stages
  <1>11. ASSUME NEW c \in Calls, ReturnCoins(c) PROVE Moderate(c)
    <2>1. UNCHANGED <<row, status, today, orderly>>
      BY <1>11 DEF ReturnCoins, ledgerVars, tableVars
    <2> QED
      BY <1>a, <1>11, <2>1, ReturnEffect, IdleType DEF ReturnCoins, Moderate, Stages
  <1>12. ASSUME NEW c \in Calls, Send(c) PROVE Moderate(c)
    <2>1. UNCHANGED <<row, status, today, orderly>>
      BY <1>12 DEF Send, ledgerVars, tableVars
    <2> QED
      BY <1>a, <1>12, <2>1, GotoEffect, ReturnEffect, IdleType DEF Send, Moderate, Stages
  <1>13. ASSUME NEW c \in Calls, Link(c) PROVE Moderate(c)
    <2>1. UNCHANGED <<row, status, today, orderly>>
      BY <1>13 DEF Link, ledgerVars, tableVars
    <2> QED
      BY <1>a, <1>13, <2>1, ReturnEffect, IdleType DEF Link, Moderate, Stages
  <1>14. ASSUME NEW c \in Calls, Unlink(c) PROVE Moderate(c)
    <2>1. UNCHANGED <<row, status, today, orderly>>
      BY <1>14 DEF Unlink, ledgerVars, tableVars
    <2> QED
      BY <1>a, <1>14, <2>1, ReturnEffect, IdleType DEF Unlink, Moderate, Stages
  <1>15. ASSUME NEW c \in Calls, StatementFails(c) PROVE Moderate(c)
    <2>1. UNCHANGED <<row, status, today, orderly>>
      BY <1>15 DEF StatementFails, ledgerVars, tableVars
    <2> QED
      BY <1>a, <1>15, <2>1, GotoEffect, ReturnEffect, IdleType DEF StatementFails, Moderate, Stages
  <1>16. ASSUME NEW c \in Calls, CheckLimit(c) PROVE LimitInv'
    BY <1>16, CheckLimitStep
  <1>17. ASSUME NEW c \in Calls, Create(c) PROVE LimitInv'
    BY <1>0, <1>17, CreateStep
  <1>18. ASSUME NEW c \in Calls, MarkCancelled(c) PROVE Moderate(c)
    <2>1. PICK w \in Withdrawals : w = call[c].w /\ status[w] # "none"
      BY <1>18 DEF MarkCancelled, TypeOK
    <2>2. /\ UNCHANGED <<row, today, orderly>>
          /\ status' = status \/ status' = [status EXCEPT ![w] = "cancelled"]
      BY <1>18, <2>1 DEF MarkCancelled, ledgerVars
    <2>3. \A u \in Users : RowsOf(u)' = RowsOf(u) /\ \A x \in Withdrawals : status'[x] = "none" <=> status[x] = "none"
      BY <2>1, <2>2 DEF RowsOf, TypeOK
    <2>4. ASSUME NEW u \in Users PROVE Counted(u)' = Counted(u) \/ Counted(u)' = Counted(u) \ {w}
      <3>1. CASE status' = status
        BY <2>2, <2>3, <3>1 DEF Counted
      <3>2. CASE status' # status
        <4>1. \A x \in Withdrawals : x # w => status'[x] = status[x]
          BY <2>2, <3>2 DEF TypeOK
        <4>2. status'[w] = "cancelled"
          BY <2>2, <3>2 DEF TypeOK
        <4> QED
          BY <2>2, <2>3, <4>1, <4>2 DEF Counted, RowsOf
      <3> QED
        BY <3>1, <3>2
    <2>5. \A u \in Users : Fewer(u)
      BY <2>2, <2>3, <2>4 DEF Fewer
    <2>6. /\ \A d \in Calls : d # c => call'[d] = call[d]
          /\ call'[c].at \notin {"balance?", "debit", "create"}
      BY <1>18, GoOnEffect, IdleType DEF MarkCancelled, Stages
    <2> QED
      BY <2>2, <2>5, <2>6 DEF Moderate
  <1>19. ASSUME NEW c \in Calls, MarkSent(c) PROVE Moderate(c)
    <2>1. PICK w \in Withdrawals : w = call[c].w /\ status[w] # "none"
      BY <1>19 DEF MarkSent, TypeOK
    <2>2. /\ UNCHANGED <<row, today, orderly>>
          /\ status' = status \/ (status[w] # "cancelled" /\ status' = [status EXCEPT ![w] = "sent"])
      BY <1>19, <2>1 DEF MarkSent, ledgerVars
    <2>3. \A u \in Users : RowsOf(u)' = RowsOf(u) /\ \A x \in Withdrawals : status'[x] = "none" <=> status[x] = "none"
      BY <2>1, <2>2 DEF RowsOf, TypeOK
    <2>4. ASSUME NEW u \in Users PROVE Counted(u)' = Counted(u) \/ Counted(u)' = Counted(u) \ {w}
      <3>1. CASE status' = status
        BY <2>2, <2>3, <3>1 DEF Counted
      <3>2. CASE status' # status
        <4>1. \A x \in Withdrawals : x # w => status'[x] = status[x]
          BY <2>2, <3>2 DEF TypeOK
        <4>2. status[w] # "cancelled" /\ status'[w] # "cancelled"
          BY <2>2, <3>2 DEF TypeOK
        <4> QED
          BY <2>2, <2>3, <4>1, <4>2 DEF Counted, RowsOf
      <3> QED
        BY <3>1, <3>2
    <2>5. \A u \in Users : Fewer(u)
      BY <2>2, <2>3, <2>4 DEF Fewer
    <2>6. /\ \A d \in Calls : d # c => call'[d] = call[d]
          /\ call'[c].at \notin {"balance?", "debit", "create"}
      BY <1>19, ReturnEffect, IdleType DEF MarkSent, Stages
    <2> QED
      BY <2>2, <2>5, <2>6 DEF Moderate
  <1>20. ASSUME NEW c \in Calls, CommitReject(c) PROVE Moderate(c)
    <2>1. PICK w \in Withdrawals : w = call[c].w /\ status[w] # "none"
      BY <1>20 DEF CommitReject, TypeOK
    <2>2. /\ UNCHANGED <<row, today, orderly>>
          /\ status' = [status EXCEPT ![w] = "cancelled"]
      BY <1>20, <2>1 DEF CommitReject, ledgerVars
    <2>3. \A u \in Users : RowsOf(u)' = RowsOf(u) /\ \A x \in Withdrawals : status'[x] = "none" <=> status[x] = "none"
      BY <2>1, <2>2 DEF RowsOf, TypeOK
    <2>4. ASSUME NEW u \in Users PROVE Counted(u)' = Counted(u) \/ Counted(u)' = Counted(u) \ {w}
      <3>1. CASE status' = status
        BY <2>2, <2>3, <3>1 DEF Counted
      <3>2. CASE status' # status
        <4>1. \A x \in Withdrawals : x # w => status'[x] = status[x]
          BY <2>2, <3>2 DEF TypeOK
        <4>2. status'[w] = "cancelled"
          BY <2>2, <3>2 DEF TypeOK
        <4> QED
          BY <2>2, <2>3, <4>1, <4>2 DEF Counted, RowsOf
      <3> QED
        BY <3>1, <3>2
    <2>5. \A u \in Users : Fewer(u)
      BY <2>2, <2>3, <2>4 DEF Fewer
    <2>6. /\ \A d \in Calls : d # c => call'[d] = call[d]
          /\ call'[c].at \notin {"balance?", "debit", "create"}
      BY <1>20, ReturnEffect, IdleType DEF CommitReject, Stages
    <2> QED
      BY <2>2, <2>5, <2>6 DEF Moderate
  <1>21. ASSUME Crash PROVE LimitInv'
    <2>1. UNCHANGED <<row, status, today, orderly>> /\ \A d \in Calls : call'[d] = Idle
      BY <1>21 DEF Crash, tableVars
    <2>2. \A u \in Users : CoinsWithdrawnToday(u)' = CoinsWithdrawnToday(u)
      BY <2>1 DEF CoinsWithdrawnToday, CoinsIn, RowsOf
    <2> QED
      BY <2>1, <2>2, IdleType DEF LimitInv, LimitUser, TypeOK
  <1>22. ASSUME NewDay PROVE LimitInv'
    <2>1. UNCHANGED <<row, status, call, orderly>> /\ today' = {}
      BY <1>22 DEF NewDay
    <2>2. \A u \in Users : Fewer(u)
      BY <2>1 DEF Fewer, Counted
    <2>3. CASE \E c \in Calls : TRUE
      <3>1. PICK c \in Calls : Moderate(c)
        BY <2>1, <2>2, <2>3 DEF Moderate
      <3> QED
        BY <3>1, ModerateStep
    <2>4. CASE Calls = {}
      BY <2>1, <2>2, <2>4, TodayFewer, TodayType, WithdrawalsAssumption DEF LimitInv, LimitUser, TypeOK
    <2> QED
      BY <2>3, <2>4
  <1>23. ASSUME UNCHANGED vars PROVE LimitInv'
    BY <1>23 DEF vars, tableVars, LimitInv, LimitUser, CoinsWithdrawnToday, CoinsIn, RowsOf
  <1>24. ASSUME NEW c \in Calls, Moderate(c) PROVE LimitInv'
    BY <1>24, ModerateStep
  <1> QED
    BY <1>1, <1>2, <1>3, <1>4, <1>5, <1>6, <1>7, <1>8, <1>9, <1>10, <1>11, <1>12, <1>13, <1>14, <1>15, <1>16, <1>17, <1>18, <1>19, <1>20, <1>21, <1>22, <1>23, <1>24
    DEF Next, RequestStep, CancelStep, AdminStep

\* What a user who makes one request at a time has withdrawn in a day, sent or
\* pending, stays within the limit, although the check, the debit and the row are
\* three statements.
THEOREM DailyLimitHolds == Spec => []DailyLimit
<1>1. Init => OrderlyInv
  BY IdleType, WithdrawalsAssumption DEF Init, OrderlyInv, OrderlyUser, RowsOf
<1>2. Init => LimitInv
  <2> SUFFICES ASSUME Init, NEW u \in Users PROVE LimitUser(u)
    BY DEF Init, LimitInv
  <2>1. Counted(u) = {}
    BY DEF Init, Counted
  <2>2. CoinsWithdrawnToday(u) = 0
    BY <2>1, SumNone, TodayIs
  <2> QED
    BY <2>2, IdleType, WithdrawalsAssumption DEF Init, LimitUser
<1>3. LimitInv => DailyLimit
  BY DEF LimitInv, LimitUser, DailyLimit, CoinsWithdrawnToday
<1> QED
  BY <1>1, <1>2, <1>3, OrderlyStep, LimitStep, WithdrawalsTypeCorrect, PTL DEF Spec
=============================================================================
