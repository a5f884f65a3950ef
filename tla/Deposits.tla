------------------------------ MODULE Deposits ------------------------------
(***************************************************************************)
(* TON deposits: service/deposit_watcher.go, RecordManualDeposit of        *)
(* http/handlers/ton.go, CreateManualDeposit of service/admin_service.go   *)
(* and repository/deposit_repo.go.                                         *)
(*                                                                         *)
(* One goroutine polls the platform's wallet and records what it finds;    *)
(* requests (a development route) and an admin's command record deposits   *)
(* by hand.  They meet in the table only, whose tx_hash is unique.  Only   *)
(* the admin's command uses a transaction: elsewhere each SQL statement    *)
(* is a step, may fail without an effect, and the process may stop         *)
(* between any two.  Left out: the notifications, the audit row, rows of   *)
(* a status other than "confirmed" (nothing writes them).                  *)
(***************************************************************************)
EXTENDS Integers, Sequences

CONSTANTS Users, Nobody,
          Stranger,     \* a user id that is in no row of users
          Hashes,       \* transactions of the chain, by their hash
          NoRow,
          Addresses, NoWallet,
          Payment,      \* what each transaction brings in: memo, source, nano
          Watcher,      \* the watcher's goroutine
          Requests,     \* goroutines that run RecordManualDeposit
          TypedHashes, ManualNanos,  \* hashes and amounts typed in by hand
          NanoTON,      \* the units of 1 TON, 10^9 in the code
          Window,       \* transactions the API returns, 50 in the code
          MaxFaults     \* bound on failed statements and restarts

ASSUME DepositsAssumption ==
  /\ Nobody \notin Users \cup {Stranger}
  /\ Stranger \notin Users
  /\ NoWallet \notin Addresses
  /\ Watcher \notin Requests
  /\ NanoTON \in Nat \ {0}
  /\ Window \in Nat
  /\ MaxFaults \in Nat
  /\ TypedHashes \subseteq Hashes
  /\ ManualNanos \subseteq Nat
  /\ Payment \in [Hashes -> [memo : Users \cup {Nobody, Stranger}, source : Addresses, nano : Nat]]
  /\ NoRow \notin [user : Users, nano : Nat, coins : Nat]

MinDepositNano == NanoTON
CoinsPerTON == 10

\* The float the code computes with has digits to spare: it rounds like this.
NanoToCoins(nano) == (nano * CoinsPerTON) \div NanoTON

\* CreateManualDeposit converts at a rate of its own.
AdminCoins(nano) == (nano * 1000) \div NanoTON

Workers == Requests \cup {Watcher}
Rows == [user : Users, nano : Nat, coins : Nat]
Stages == {"idle", "exists", "address", "user", "create", "credit"}
Jobs == [at : Stages, h : Hashes \cup {NoRow}, user : Users \cup {Nobody, Stranger}, nano : Nat]
Idle == [at |-> "idle", h |-> NoRow, user |-> Nobody, nano |-> 0]

VARIABLES
  chain,    \* transactions of the platform's wallet, oldest first
  wallet,   \* wallets.address of each user
  row,      \* table deposits: user_id, amount_nano, gems_credited by tx_hash
  coins,    \* users.coins
  todo,     \* what the watcher has fetched and not looked at
  job,      \* the transaction each goroutine works on, and its next statement
  credits,  \* how often a transaction's coins were credited to whom
  intact,   \* transactions whose credit has met no fault
  faults

vars == <<chain, wallet, row, coins, todo, job, credits, intact, faults>>

TypeOK ==
  /\ chain \in Seq(Hashes)
  /\ wallet \in [Users -> Addresses \cup {NoWallet}]
  /\ row \in [Hashes -> Rows \cup {NoRow}]
  /\ coins \in [Users -> Nat]
  /\ todo \in Seq(Hashes)
  /\ job \in [Workers -> Jobs]
  /\ \A k \in Workers :
       /\ job[k].at # "idle" => job[k].h \in Hashes
       /\ job[k].at \in {"create", "credit"} => job[k].user \in Users
       /\ job[k].at = "exists" /\ k # Watcher => job[k].user \in Users
  /\ credits \in [Hashes -> [Users -> Nat]]
  /\ intact \subseteq Hashes
  /\ faults \in 0 .. MaxFaults

NoCredit == [u \in Users |-> 0]

Init ==
  /\ chain = <<>>
  /\ wallet = [u \in Users |-> NoWallet]
  /\ row = [h \in Hashes |-> NoRow]
  /\ coins = [u \in Users |-> 0]
  /\ todo = <<>>
  /\ job = [k \in Workers |-> Idle]
  /\ credits = [h \in Hashes |-> NoCredit]
  /\ intact = Hashes
  /\ faults = 0
-----------------------------------------------------------------------------
(* The world outside: payments, and the wallets users link (Withdrawals    *)
(* models these handlers; here is what their statements do).               *)

Send(h) ==
  /\ \A i \in 1 .. Len(chain) : chain[i] # h
  /\ chain' = Append(chain, h)
  /\ UNCHANGED <<wallet, row, coins, todo, job, credits, intact, faults>>

Link(u, a) ==
  /\ wallet[u] = NoWallet
  /\ \A v \in Users : wallet[v] # a
  /\ wallet' = [wallet EXCEPT ![u] = a]
  /\ UNCHANGED <<chain, row, coins, todo, job, credits, intact, faults>>

Unlink(u) ==
  /\ wallet' = [wallet EXCEPT ![u] = NoWallet]
  /\ UNCHANGED <<chain, row, coins, todo, job, credits, intact, faults>>
-----------------------------------------------------------------------------
(* The watcher.                                                            *)

\* Mutant of Fetched: the first transactions instead of the last.
FirstFetched == SubSeq(chain, 1, IF Len(chain) < Window THEN Len(chain) ELSE Window)

\* GetTransactions: the last ones, newest first.
Fetched == [i \in 1 .. (IF Len(chain) < Window THEN Len(chain) ELSE Window)
              |-> chain[Len(chain) + 1 - i]]

\* checkDeposits, at the start and at every tick; an API error changes nothing.
Poll ==
  /\ job[Watcher] = Idle
  /\ todo = <<>>
  /\ todo' = Fetched
  /\ UNCHANGED <<chain, wallet, row, coins, job, credits, intact, faults>>

\* ParseIncomingTransactions drops what brings in nothing: the withdrawals.
Incoming(h) == Payment[h].nano > 0

\* The loop of checkDeposits: an error has only been logged.
ProcessNext ==
  /\ job[Watcher] = Idle
  /\ todo # <<>>
  /\ todo' = Tail(todo)
  /\ job' = IF Incoming(Head(todo))
              THEN [job EXCEPT ![Watcher] = [at |-> "exists", h |-> Head(todo), user |-> Nobody,
                                             nano |-> Payment[Head(todo)].nano]]
              ELSE job
  /\ UNCHANGED <<chain, wallet, row, coins, credits, intact, faults>>

Goto(k, stage) == job' = [job EXCEPT ![k].at = stage]
Return(k) == job' = [job EXCEPT ![k] = Idle]
GoOnIf(k, test, stage) == IF test THEN Goto(k, stage) ELSE Return(k)

\* TxHashExists; then the watcher reads the memo (parseUserIDFromMemo), and
\* looks for the sender's wallet when it names nobody.
TxHashExists(k) ==
  /\ job[k].at = "exists"
  /\ \/ row[job[k].h] # NoRow /\ Return(k)
     \/ row[job[k].h] = NoRow /\ k # Watcher /\ Goto(k, "create")
     \/ row[job[k].h] = NoRow /\ k = Watcher /\ Payment[job[k].h].memo # Nobody
          /\ job' = [job EXCEPT ![k].at = "user", ![k].user = Payment[job[k].h].memo]
     \/ row[job[k].h] = NoRow /\ k = Watcher /\ Payment[job[k].h].memo = Nobody
          /\ Goto(k, "address")
  /\ UNCHANGED <<chain, wallet, row, coins, todo, credits, intact, faults>>

\* A sender nobody has linked is left for a later poll.
GetByAnyAddress(k) ==
  /\ job[k].at = "address"
  /\ \/ \E u \in Users : /\ wallet[u] = Payment[job[k].h].source
                         /\ job' = [job EXCEPT ![k].at = "user", ![k].user = u]
     \/ (\A u \in Users : wallet[u] # Payment[job[k].h].source) /\ Return(k)
  /\ UNCHANGED <<chain, wallet, row, coins, todo, credits, intact, faults>>

\* Mutant of GetByID: an unknown user is no error.
AnyID(k) ==
  /\ job[k].at = "user"
  /\ GoOnIf(k, job[k].nano >= MinDepositNano, "create")
  /\ UNCHANGED <<chain, wallet, row, coins, todo, credits, intact, faults>>

\* So are a user who does not exist and an amount that is too small.
GetByID(k) ==
  /\ job[k].at = "user"
  /\ GoOnIf(k, job[k].user \in Users /\ job[k].nano >= MinDepositNano, "create")
  /\ UNCHANGED <<chain, wallet, row, coins, todo, credits, intact, faults>>
-----------------------------------------------------------------------------
(* Recording and crediting: the watcher and RecordManualDeposit.           *)

\* RecordManualDeposit, up to its first statement.
RecordManualDeposit(k, h, u, nano) ==
  /\ job[k] = Idle
  /\ job' = [job EXCEPT ![k] = [at |-> "exists", h |-> h, user |-> u, nano |-> nano]]
  /\ UNCHANGED <<chain, wallet, row, coins, todo, credits, intact, faults>>

\* gems_credited is filled from a field that RecordManualDeposit leaves at 0.
NewRow(k) == [user |-> job[k].user, nano |-> job[k].nano,
              coins |-> IF k = Watcher THEN NanoToCoins(job[k].nano) ELSE 0]

\* Mutant of Create: ON CONFLICT DO UPDATE.
Upsert(k) ==
  /\ job[k].at = "create"
  /\ row' = [row EXCEPT ![job[k].h] = NewRow(k)]
  /\ Goto(k, "credit")
  /\ UNCHANGED <<chain, wallet, coins, todo, credits, intact, faults>>

\* Mutant of Create: a request leaves the coins to the watcher.
RecordOnly(k) ==
  /\ job[k].at = "create"
  /\ IF row[job[k].h] # NoRow
       THEN Return(k) /\ UNCHANGED row
       ELSE GoOnIf(k, k = Watcher, "credit") /\ row' = [row EXCEPT ![job[k].h] = NewRow(k)]
  /\ UNCHANGED <<chain, wallet, coins, todo, credits, intact, faults>>

\* INSERT: the unique key refuses a hash that is there by now.
Create(k) ==
  /\ job[k].at = "create"
  /\ \/ row[job[k].h] # NoRow /\ Return(k) /\ UNCHANGED row
     \/ row[job[k].h] = NoRow /\ Goto(k, "credit")
          /\ row' = [row EXCEPT ![job[k].h] = NewRow(k)]
  /\ UNCHANGED <<chain, wallet, coins, todo, credits, intact, faults>>

UpdateCoins(k) ==
  /\ job[k].at = "credit"
  /\ coins' = [coins EXCEPT ![job[k].user] = @ + NanoToCoins(job[k].nano)]
  /\ credits' = [credits EXCEPT ![job[k].h][job[k].user] = @ + 1]
  /\ Return(k)
  /\ UNCHANGED <<chain, wallet, row, todo, intact, faults>>

\* The admin's command: row and coins in one transaction, which fails when
\* the hash is there.
CreateManualDeposit(h, u, nano) ==
  /\ row[h] = NoRow
  /\ row' = [row EXCEPT ![h] = [user |-> u, nano |-> nano, coins |-> AdminCoins(nano)]]
  /\ coins' = [coins EXCEPT ![u] = @ + AdminCoins(nano)]
  /\ credits' = [credits EXCEPT ![h][u] = @ + 1]
  /\ UNCHANGED <<chain, wallet, todo, job, intact, faults>>
-----------------------------------------------------------------------------
(* Faults.                                                                 *)

\* A statement fails, or the 30 s of a poll are over: the handler returns.
StatementFails(k) ==
  /\ job[k] # Idle
  /\ faults < MaxFaults
  /\ faults' = faults + 1
  /\ intact' = IF job[k].at = "credit" THEN intact \ {job[k].h} ELSE intact
  /\ Return(k)
  /\ UNCHANGED <<chain, wallet, row, coins, todo, credits>>

\* The process stops (Stop does not wait for a poll) and starts again.
Restart ==
  /\ faults < MaxFaults
  /\ faults' = faults + 1
  /\ intact' = intact \ {job[k].h : k \in {k \in Workers : job[k].at = "credit"}}
  /\ todo' = <<>>
  /\ job' = [k \in Workers |-> Idle]
  /\ UNCHANGED <<chain, wallet, row, coins, credits>>
-----------------------------------------------------------------------------
Step(k) == TxHashExists(k) \/ GetByAnyAddress(k) \/ GetByID(k) \/ Create(k) \/ UpdateCoins(k)

Next ==
  \/ \E h \in Hashes : Send(h)
  \/ \E u \in Users, a \in Addresses : Link(u, a)
  \/ \E u \in Users : Unlink(u)
  \/ Poll \/ ProcessNext \/ Restart
  \/ \E k \in Workers : Step(k) \/ StatementFails(k)
  \/ \E h \in TypedHashes, u \in Users, nano \in ManualNanos :
       \/ CreateManualDeposit(h, u, nano)
       \/ \E k \in Requests : RecordManualDeposit(k, h, u, nano)

\* The ticker and the scheduler keep the watcher going.
Spec == Init /\ [][Next]_vars /\ WF_vars(Poll \/ ProcessNext \/ Step(Watcher))
-----------------------------------------------------------------------------
(* Who has the coins of a transaction, and how often (Promise!Spec): the   *)
(* row names him for good, and only he is credited, once, whichever of     *)
(* the watcher, the route and the admin records it first, and however      *)
(* often it is polled.                                                     *)
Promise == INSTANCE PayOnce WITH
  Things <- Hashes, Payees <- Users, None <- Nobody,
  owner <- [h \in Hashes |-> IF row[h] = NoRow THEN Nobody ELSE row[h].user],
  paid <- credits

PromiseKept == Promise!Spec

\* A confirmed deposit whose coins were not credited is being credited now,
\* unless a fault struck between the row and the coins (the code never
\* returns to such a row: its hash exists).
Crediting(h) == \E k \in Workers : job[k].at = "credit" /\ job[k].h = h

ConfirmedIsCredited ==
  \A h \in intact : row[h] # NoRow => credits[h][row[h].user] > 0 \/ Crediting(h)

\* The watcher credits a payment of at least the minimum that names its user
\* in the memo before Window later transactions, in or out, hide it: a poll
\* takes up again what an error or a restart made it leave.
Due == {h \in Hashes : Payment[h].memo \in Users /\ Payment[h].nano >= MinDepositNano}
Sent(h) == \E i \in 1 .. Len(chain) : chain[i] = h
Hidden(h) == \E i \in 1 .. Len(chain) : chain[i] = h /\ i + Window <= Len(chain)

PaymentIsRecorded == \A h \in Due : Sent(h) ~> (row[h] # NoRow \/ Hidden(h))

\* ton/constants.go: 1 TON is 10 coins.
OneRate == \A h \in Hashes :
  row[h] # NoRow => row[h].coins \in {0, NanoToCoins(row[h].nano)}
=============================================================================
