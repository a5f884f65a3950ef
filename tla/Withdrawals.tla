---------------------------- MODULE Withdrawals ----------------------------
(***************************************************************************)
(* TON withdrawals: http/handlers/ton.go (RequestWithdrawal,               *)
(* CancelWithdrawal, ConnectWallet, DisconnectWallet), ApproveWithdrawal   *)
(* and RejectWithdrawal of service/admin_service.go, and the SQL they run  *)
(* (repository/withdrawal_repo.go, wallet_repo.go, user_repo.go).          *)
(*                                                                         *)
(* Requests of users and commands of admins run concurrently, one          *)
(* goroutine each.  None of the user's handlers opens a transaction, so    *)
(* each SQL statement is a step of its own; every one of them may fail     *)
(* (and then it has changed nothing), and the process may stop between any *)
(* two.  Balances are PostgreSQL BIGINTs, far from overflow.               *)
(***************************************************************************)
EXTENDS Integers, FiniteSets, Functions

CONSTANTS Users, Nobody, Addresses, NoWallet,
          Withdrawals,  \* the rows the table may come to hold
          NoRow,
          Calls,        \* goroutines that can run handlers at the same time
          Amounts,      \* what users ask for, at least MinWithdrawCoins
          StartCoins,   \* what each user has to begin with
          MaxWithdrawCoinsPerDay,
          MaxPayments   \* bound on the payments for one withdrawal

ASSUME WithdrawalsAssumption ==
  /\ Nobody \notin Users
  /\ NoRow \notin Withdrawals \cup [user : Users, amount : Amounts, address : Addresses]
  /\ NoWallet \notin Addresses
  /\ IsFiniteSet(Withdrawals) /\ IsFiniteSet(Calls)
  /\ Amounts \subseteq Nat \ {0}
  /\ StartCoins \in Nat
  /\ MaxWithdrawCoinsPerDay \in Nat
  /\ MaxPayments \in Nat

\* "processing", "completed" and "failed" are never written.
Statuses == {"none", "pending", "sent", "cancelled"}

Rows == [user : Users, amount : Amounts, address : Addresses]

\* Where a handler is: the statement it will run next.
Stages == {"idle", "pending?", "limit?", "balance?", "debit", "create", "compensate",
           "link", "unlink", "cancel", "refund", "send", "mark", "reject"}

\* user is set by the handlers that check what the user has, w by the others.
CallStates == [at : Stages, user : Users \cup {Nobody}, amount : Amounts \cup {0},
               address : Addresses \cup {NoWallet}, w : Withdrawals \cup {NoRow}]

Idle == [at |-> "idle", user |-> Nobody, amount |-> 0, address |-> NoWallet, w |-> NoRow]

VARIABLES
  coins,      \* users.coins
  wallet,     \* wallets.address of each user
  status,     \* withdrawals.status; "none" before the row is inserted
  row,        \* the other columns of the row
  today,      \* the rows created today
  call,       \* the handlers that are running
  returned,   \* how often CancelWithdrawal has returned the coins
  rejected,   \* how often RejectWithdrawal has returned the coins
  paid,       \* the payments made, by SendTON or by hand
  orderly,    \* users none of whose requests have overlapped
  clean       \* withdrawals whose calls never overlapped, and ran to their end

tableVars == <<status, row, today>>
ledgerVars == <<coins, returned, rejected, paid>>
vars == <<ledgerVars, wallet, tableVars, call, orderly, clean>>

TypeOK ==
  /\ coins \in [Users -> Nat]
  /\ wallet \in [Users -> Addresses \cup {NoWallet}]
  /\ status \in [Withdrawals -> Statuses]
  /\ row \in [Withdrawals -> Rows \cup {NoRow}]
  /\ \A w \in Withdrawals : status[w] # "none" => row[w] \in Rows
  /\ today \subseteq Withdrawals
  /\ call \in [Calls -> CallStates]
  /\ \A c \in Calls :
       /\ call[c].at \in {"pending?", "limit?", "balance?", "debit", "create", "compensate"}
            => call[c].user \in Users /\ call[c].amount \in Amounts /\ call[c].address \in Addresses
       /\ call[c].at \in {"link", "unlink"} => call[c].user \in Users
       /\ call[c].at = "link" => call[c].address \in Addresses
       /\ call[c].at \in {"cancel", "refund", "send", "mark", "reject"}
            => call[c].w \in Withdrawals /\ status[call[c].w] # "none"
  /\ returned \in [Withdrawals -> Nat]
  /\ rejected \in [Withdrawals -> Nat]
  /\ paid \in [Withdrawals -> 0 .. MaxPayments]
  /\ orderly \subseteq Users
  /\ clean \subseteq Withdrawals

Init ==
  /\ coins = [u \in Users |-> StartCoins]
  /\ wallet = [u \in Users |-> NoWallet]
  /\ status = [w \in Withdrawals |-> "none"]
  /\ row = [w \in Withdrawals |-> NoRow]
  /\ today = {}
  /\ call = [c \in Calls |-> Idle]
  /\ returned = [w \in Withdrawals |-> 0]
  /\ rejected = [w \in Withdrawals |-> 0]
  /\ paid = [w \in Withdrawals |-> 0]
  /\ orderly = Users
  /\ clean = Withdrawals
-----------------------------------------------------------------------------
(* Queries, and how a handler moves from one statement to the next.        *)

RowsOf(u) == {w \in Withdrawals : status[w] # "none" /\ row[w].user = u}

\* Mutant of HasPendingWithdrawal: only rows of today.
HasPendingToday(u) == \E w \in RowsOf(u) : status[w] = "pending" /\ w \in today

HasPendingWithdrawal(u) == \E w \in RowsOf(u) : status[w] = "pending"

\* SUM(amount) over some rows of u.
CoinsIn(u, rowset) == SumFunctionOnSet([w \in RowsOf(u) |-> row[w].amount], rowset)

\* Mutant of CoinsWithdrawnToday: only what is still pending.
CoinsPendingToday(u) == CoinsIn(u, {w \in RowsOf(u) \cap today : status[w] = "pending"})

\* GetTotalCoinsWithdrawnToday.
CoinsWithdrawnToday(u) == CoinsIn(u, {w \in RowsOf(u) \cap today : status[w] # "cancelled"})

Goto(c, stage) == call' = [call EXCEPT ![c].at = stage]
Return(c) == call' = [call EXCEPT ![c] = Idle]
GoOnIf(c, test, stage) == IF test THEN Goto(c, stage) ELSE Return(c)

\* A handler that checks what user u has, or one that works on row w, begins.
BeginFor(c, u, state) ==
  /\ call[c] = Idle
  /\ call' = [call EXCEPT ![c] = [state EXCEPT !.user = u]]
  /\ orderly' = IF \E d \in Calls : call[d].user = u THEN orderly \ {u} ELSE orderly

BeginOn(c, w, stage) ==
  /\ call[c] = Idle
  /\ call' = [call EXCEPT ![c] = [Idle EXCEPT !.at = stage, !.w = w]]
  /\ clean' = IF \E d \in Calls : call[d].w = w THEN clean \ {w} ELSE clean
-----------------------------------------------------------------------------
(* RequestWithdrawal.                                                      *)

Request(c, u, a) ==
  /\ wallet[u] # NoWallet
  /\ BeginFor(c, u, [Idle EXCEPT !.at = "pending?", !.amount = a, !.address = wallet[u]])
  /\ UNCHANGED <<ledgerVars, wallet, tableVars, clean>>

CheckPending(c) ==
  /\ call[c].at = "pending?"
  /\ GoOnIf(c, ~HasPendingWithdrawal(call[c].user), "limit?")
  /\ UNCHANGED <<ledgerVars, wallet, tableVars, orderly, clean>>

CheckLimit(c) ==
  /\ call[c].at = "limit?"
  /\ GoOnIf(c, CoinsWithdrawnToday(call[c].user) + call[c].amount <= MaxWithdrawCoinsPerDay, "balance?")
  /\ UNCHANGED <<ledgerVars, wallet, tableVars, orderly, clean>>

CheckBalance(c) ==
  /\ call[c].at = "balance?"
  /\ GoOnIf(c, coins[call[c].user] >= call[c].amount, "debit")
  /\ UNCHANGED <<ledgerVars, wallet, tableVars, orderly, clean>>

\* Mutant of Debit: the balance is not asked again.
DebitAlways(c) ==
  /\ call[c].at = "debit"
  /\ Goto(c, "create")
  /\ coins' = [coins EXCEPT ![call[c].user] = @ - call[c].amount]
  /\ UNCHANGED <<returned, rejected, paid, wallet, tableVars, orderly, clean>>

\* Mutant of Debit: it takes what there is.
DebitWhatThereIs(c) ==
  /\ call[c].at = "debit"
  /\ Goto(c, "create")
  /\ coins' = [coins EXCEPT ![call[c].user] = IF @ >= call[c].amount THEN @ - call[c].amount ELSE 0]
  /\ UNCHANGED <<returned, rejected, paid, wallet, tableVars, orderly, clean>>

\* UpdateCoins(-amount) takes nothing from a balance that is too low.
Debit(c) ==
  /\ call[c].at = "debit"
  /\ LET enough == coins[call[c].user] >= call[c].amount
     IN  /\ GoOnIf(c, enough, "create")
         /\ coins' = IF enough THEN [coins EXCEPT ![call[c].user] = @ - call[c].amount] ELSE coins
  /\ UNCHANGED <<returned, rejected, paid, wallet, tableVars, orderly, clean>>

\* The commission of the referrer, half the fee of one coin, rounds down to nothing.
Create(c) ==
  /\ call[c].at = "create"
  /\ \E w \in Withdrawals :
       /\ status[w] = "none"
       /\ status' = [status EXCEPT ![w] = "pending"]
       /\ row' = [row EXCEPT ![w] = [user |-> call[c].user, amount |-> call[c].amount,
                                     address |-> call[c].address]]
       /\ today' = today \cup {w}
  /\ Return(c)
  /\ UNCHANGED <<ledgerVars, wallet, orderly, clean>>

\* The coins go back when the row could not be inserted.
Compensate(c) ==
  /\ call[c].at = "compensate"
  /\ coins' = [coins EXCEPT ![call[c].user] = @ + call[c].amount]
  /\ Return(c)
  /\ UNCHANGED <<returned, rejected, paid, wallet, tableVars, orderly, clean>>

RequestStep(c) ==
  CheckPending(c) \/ CheckLimit(c) \/ CheckBalance(c) \/ Debit(c) \/ Create(c) \/ Compensate(c)
-----------------------------------------------------------------------------
(* ConnectWallet and DisconnectWallet.                                     *)

\* The user has no wallet and the address belongs to nobody; then the proof.
Connect(c, u, a) ==
  /\ wallet[u] = NoWallet
  /\ \A v \in Users : wallet[v] # a
  /\ BeginFor(c, u, [Idle EXCEPT !.at = "link", !.address = a])
  /\ UNCHANGED <<ledgerVars, wallet, tableVars, clean>>

\* Both the user and the address are unique in the table.
Link(c) ==
  /\ call[c].at = "link"
  /\ IF wallet[call[c].user] = NoWallet /\ \A v \in Users : wallet[v] # call[c].address
     THEN wallet' = [wallet EXCEPT ![call[c].user] = call[c].address]
     ELSE UNCHANGED wallet
  /\ Return(c)
  /\ UNCHANGED <<ledgerVars, tableVars, orderly, clean>>

Disconnect(c, u) ==
  /\ ~HasPendingWithdrawal(u)
  /\ BeginFor(c, u, [Idle EXCEPT !.at = "unlink"])
  /\ UNCHANGED <<ledgerVars, wallet, tableVars, clean>>

Unlink(c) ==
  /\ call[c].at = "unlink"
  /\ wallet' = [wallet EXCEPT ![call[c].user] = NoWallet]
  /\ Return(c)
  /\ UNCHANGED <<ledgerVars, tableVars, orderly, clean>>
-----------------------------------------------------------------------------
(* CancelWithdrawal, by the owner.                                         *)

Cancel(c, w) ==
  /\ status[w] = "pending"
  /\ BeginOn(c, w, "cancel")
  /\ UNCHANGED <<ledgerVars, wallet, tableVars, orderly>>

\* Mutant of MarkCancelled: UPDATE ... WHERE id, without the status.
MarkCancelledAlways(c) ==
  /\ call[c].at = "cancel"
  /\ status' = [status EXCEPT ![call[c].w] = "cancelled"]
  /\ Goto(c, "refund")
  /\ UNCHANGED <<ledgerVars, wallet, row, today, orderly, clean>>

\* UPDATE ... WHERE status = 'pending', and the rows affected are counted.
MarkCancelled(c) ==
  /\ call[c].at = "cancel"
  /\ GoOnIf(c, status[call[c].w] = "pending", "refund")
  /\ status' = IF status[call[c].w] = "pending"
               THEN [status EXCEPT ![call[c].w] = "cancelled"] ELSE status
  /\ UNCHANGED <<ledgerVars, wallet, row, today, orderly, clean>>

ReturnCoins(c) ==
  /\ call[c].at = "refund"
  /\ LET w == call[c].w
     IN  /\ coins' = [coins EXCEPT ![row[w].user] = @ + row[w].amount]
         /\ returned' = [returned EXCEPT ![w] = @ + 1]
  /\ Return(c)
  /\ UNCHANGED <<rejected, paid, wallet, tableVars, orderly, clean>>

CancelStep(c) == MarkCancelled(c) \/ ReturnCoins(c)
-----------------------------------------------------------------------------
(* ApproveWithdrawal and RejectWithdrawal, by the admins.                  *)

\* Mutant of Approve: the status that was read is not looked at.
ApproveAny(c, w) ==
  /\ status[w] # "none"
  /\ BeginOn(c, w, "send")
  /\ UNCHANGED <<ledgerVars, wallet, tableVars, orderly>>

Approve(c, w) ==
  /\ status[w] = "pending"
  /\ BeginOn(c, w, "send")
  /\ UNCHANGED <<ledgerVars, wallet, tableVars, orderly>>

\* SendTON, or the hash of a payment made by hand.  SendTON may also return an
\* error, with or without having paid; the command ends and the row stays pending.
Send(c) ==
  /\ call[c].at = "send"
  /\ \/ /\ paid[call[c].w] < MaxPayments
        /\ paid' = [paid EXCEPT ![call[c].w] = @ + 1]
        /\ Goto(c, "mark")
        /\ UNCHANGED clean
     \/ /\ paid[call[c].w] < MaxPayments
        /\ paid' = [paid EXCEPT ![call[c].w] = @ + 1]
        /\ Return(c)
        /\ clean' = clean \ {call[c].w}
     \/ /\ Return(c)
        /\ UNCHANGED <<paid, clean>>
  /\ UNCHANGED <<coins, returned, rejected, wallet, tableVars, orderly>>

\* Nobody asks how many rows the UPDATE has changed.
MarkSent(c) ==
  /\ call[c].at = "mark"
  /\ status' = IF status[call[c].w] = "pending"
               THEN [status EXCEPT ![call[c].w] = "sent"] ELSE status
  /\ Return(c)
  /\ UNCHANGED <<ledgerVars, wallet, row, today, orderly, clean>>

\* The transaction reads the row without locking it...
Reject(c, w) ==
  /\ status[w] = "pending"
  /\ BeginOn(c, w, "reject")
  /\ UNCHANGED <<ledgerVars, wallet, tableVars, orderly>>

\* ... and commits both of its updates, whatever the row has become.
CommitReject(c) ==
  /\ call[c].at = "reject"
  /\ LET w == call[c].w
     IN  /\ coins' = [coins EXCEPT ![row[w].user] = @ + row[w].amount]
         /\ status' = [status EXCEPT ![w] = "cancelled"]
         /\ rejected' = [rejected EXCEPT ![w] = @ + 1]
  /\ Return(c)
  /\ UNCHANGED <<returned, paid, wallet, row, today, orderly, clean>>

AdminStep(c) == Send(c) \/ MarkSent(c) \/ CommitReject(c)
-----------------------------------------------------------------------------
(* What may go wrong around the handlers.                                  *)

\* A statement returns an error.  Every handler gives up, but for the one that
\* could not create its row.
StatementFails(c) ==
  /\ call[c] # Idle /\ call[c].at # "send"
  /\ IF call[c].at = "create" THEN Goto(c, "compensate") ELSE Return(c)
  /\ clean' = clean \ {call[c].w}
  /\ UNCHANGED <<ledgerVars, wallet, tableVars, orderly>>

\* The process stops and starts again.
Crash ==
  /\ \E c \in Calls : call[c] # Idle
  /\ call' = [c \in Calls |-> Idle]
  /\ clean' = clean \ {call[c].w : c \in Calls}
  /\ UNCHANGED <<ledgerVars, wallet, tableVars, orderly>>

\* Midnight: the sums of the day begin again.
NewDay ==
  /\ today # {}
  /\ today' = {}
  /\ UNCHANGED <<ledgerVars, wallet, status, row, call, orderly, clean>>

Next ==
  \/ \E c \in Calls, u \in Users, a \in Amounts : Request(c, u, a)
  \/ \E c \in Calls, u \in Users, a \in Addresses : Connect(c, u, a)
  \/ \E c \in Calls, u \in Users : Disconnect(c, u)
  \/ \E c \in Calls, w \in Withdrawals : Cancel(c, w) \/ Approve(c, w) \/ Reject(c, w)
  \/ \E c \in Calls : RequestStep(c) \/ CancelStep(c) \/ AdminStep(c)
  \/ \E c \in Calls : Link(c) \/ Unlink(c) \/ StatementFails(c)
  \/ Crash
  \/ NewDay

Spec == Init /\ [][Next]_vars
-----------------------------------------------------------------------------
(* Properties.                                                             *)

InFlight(u) == {c \in Calls : call[c].at \in {"create", "compensate"} /\ call[c].user = u}

\* Nothing is withdrawn that was not debited first, and nothing is given back twice
\* other than by RejectWithdrawal: what a user still has, what is on its way, and
\* the withdrawals that were not given back never exceed what he had.
CoinsInFlight(u) == SumFunctionOnSet([c \in InFlight(u) |-> call[c].amount], InFlight(u))
CoinsNotGivenBack(u) ==
  SumFunctionOnSet([w \in RowsOf(u) |-> row[w].amount * (1 - returned[w] - rejected[w])], RowsOf(u))

Backed ==
  \A u \in Users : coins[u] + CoinsInFlight(u) + CoinsNotGivenBack(u) <= StartCoins

\* However many cancellations of a withdrawal race, and whatever the admins do,
\* its owner gets the coins back by CancelWithdrawal at most once.
OwnerRefundedOnce ==
  \A w \in Withdrawals : returned[w] <= 1 /\ (returned[w] = 1 => status[w] = "cancelled")

Settled(w) ==
  /\ status[w] = "sent" => paid[w] = 1 /\ returned[w] + rejected[w] = 0
  /\ status[w] = "cancelled" => paid[w] = 0 /\ returned[w] + rejected[w] = 1
  /\ status[w] \in {"none", "pending"} => paid[w] = 0 /\ returned[w] + rejected[w] = 0

\* A withdrawal whose calls ran one after the other, each to its end, is settled
\* once: paid and sent, or given back and cancelled, or still pending.
SettledOnce == \A w \in clean : (\A c \in Calls : call[c].w # w) => Settled(w)

\* A user who makes one request at a time has at most one pending withdrawal, and
\* keeps the wallet it goes to, whatever the admins do meanwhile.
OnePending ==
  \A u \in orderly : \A w \in RowsOf(u) : status[w] = "pending" =>
    /\ wallet[u] = row[w].address
    /\ \A x \in RowsOf(u) : status[x] = "pending" => x = w

\* What such a user has withdrawn in a day, sent or pending, stays within the limit.
DailyLimit ==
  \A u \in orderly :
    CoinsIn(u, {w \in RowsOf(u) \cap today : status[w] # "cancelled"}) <= MaxWithdrawCoinsPerDay

-----------------------------------------------------------------------------
(* What the schema says, and the code does not keep.                       *)

\* "'sent' -- Transaction sent to blockchain", "'cancelled' -- Cancelled by user or
\* admin" (009_ton_withdrawals.sql:25,28): what was cancelled was not sent.
CancelledIsUnpaid == \A w \in Withdrawals : status[w] = "cancelled" => paid[w] = 0
=============================================================================
