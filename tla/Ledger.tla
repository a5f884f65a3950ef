------------------------------- MODULE Ledger -------------------------------
(***************************************************************************)
(* Gems: the games that are one database transaction                       *)
(* (service/game_service.go, Dice and Wheel of http/handlers/games_pve.go  *)
(* with their handlers in api.go), service/balance_service.go, which no    *)
(* handler calls yet, and the single statements of the admin's commands,   *)
(* of ClaimBonus and of UserRepository.UpdateGems.                         *)
(*                                                                         *)
(* A statement is a step.  A row that a transaction has locked or written  *)
(* belongs to it until it commits or rolls back; what it has written shows *)
(* at the commit.  The table transactions is the journal: a game enters    *)
(* what it changed.  Left out: the audit rows and the history (Quests has  *)
(* the goroutine that a finished game starts), the share lock a journal    *)
(* row takes for its foreign key, and overflow of the 64 bits.             *)
(***************************************************************************)
EXTENDS Integers, FiniteSets

CONSTANTS Users,          \* ids: numbers, since Transfer compares them
          Workers, NoOne, \* goroutines of requests
          StartGems,
          MinBet, MaxBet,
          BonusGems, LowBalance,  \* 10000 and 100 in the code
          CaseCost, CasePrizes,   \* 100 and {250, 500, 750, 1000, 5000}
          WheelHalves,    \* {0, 1, 2, 3, 4, 6, 10, 20}, halves of the bet
          Bets, Deltas,   \* what requests and commands ask for
          MaxOps          \* bound on transactions and statements

ASSUME LedgerAssumption ==
  /\ Users \subseteq Nat /\ Users # {}
  /\ NoOne \notin Workers
  /\ StartGems \in Nat
  /\ MinBet \in Nat \ {0} /\ MaxBet \in Nat
  /\ BonusGems \in Nat /\ LowBalance \in Nat
  /\ CaseCost \in Nat \ {0} /\ CasePrizes \subseteq Nat
  /\ WheelHalves \subseteq Nat
  /\ Bets \subseteq Int /\ Deltas \subseteq Int
  /\ MaxOps \in Nat

VARIABLES
  gems,      \* users.gems, as committed
  journal,   \* sum of the rows of transactions for each user
  unmatched, \* changes without a journal row, less journal rows without a change
  owner,     \* the transaction that has each user's row
  job,       \* the transaction each goroutine runs
  least,     \* the lowest an admin has put a balance, or 0
  odd,       \* users who bet less than nothing at RPS
  ops

vars == <<gems, journal, unmatched, owner, job, least, odd, ops>>

NoChange == [u \in Users |-> 0]
Programs == {"game", "debit", "transfer", "adjust", "bonus", "free"}
Stages == {"idle", "lock", "second", "take", "award", "add", "book", "commit"}
Jobs == [at : Stages, runs : Programs, user : Users, to : Users, amount : Int,
         prizes : SUBSET Nat, awarded : Nat,
         delta : [Users -> Int], book : [Users -> Int]]
IsIdle(k) == job[k].at = "idle"

TypeOK ==
  /\ gems \in [Users -> Int]
  /\ journal \in [Users -> Int]
  /\ unmatched \in [Users -> Int]
  /\ owner \in [Users -> Workers \cup {NoOne}]
  /\ job \in [Workers -> Jobs]
  /\ \A k \in Workers, u \in Users : job[k].delta[u] # 0 => owner[u] = k
  /\ least \in [Users -> Int]
  /\ odd \subseteq Users
  /\ ops \in 0 .. MaxOps

SomeUser == CHOOSE u \in Users : TRUE
Idle == [at |-> "idle", runs |-> "free", user |-> SomeUser, to |-> SomeUser, amount |-> 0,
         prizes |-> {}, awarded |-> 0, delta |-> NoChange, book |-> NoChange]

Init ==
  /\ gems = [u \in Users |-> StartGems]
  /\ journal = NoChange
  /\ unmatched = NoChange
  /\ owner = [u \in Users |-> NoOne]
  /\ job = [k \in Workers |-> Idle]
  /\ least = NoChange
  /\ odd = {}
  /\ ops = 0
-----------------------------------------------------------------------------
(* What a transaction is to do: its program, and what it starts with.      *)

Transaction(at, runs, u, v, amount, prizes) ==
  [at |-> at, runs |-> runs, user |-> u, to |-> v, amount |-> amount,
   prizes |-> prizes, awarded |-> 0, delta |-> NoChange, book |-> NoChange]

Game(u, bet, prizes) == Transaction("lock", "game", u, u, bet, prizes)
ValidateBet(bet) == MinBet <= bet /\ bet <= MaxBet

PlayCoinFlip(u, bet) == Game(u, bet, {0, 2 * bet})
PlayMines(u, bet) == Game(u, bet, {0, 2 * bet})
PlayCaseSpin(u) == Game(u, CaseCost, CasePrizes)

\* A draw is lost, as awarded stays 0.  A bet that is not positive is not
\* taken, but it is booked.
PlayRPS(u, bet) == IF bet > 0 THEN Game(u, bet, {0, 2 * bet})
                              ELSE Transaction("book", "free", u, u, bet, {})

\* 5.5 for the exact number, 1.8 for a half, rounded down.
DicePrizes(bet) == {{0, (55 * bet) \div 10}, {0, (18 * bet) \div 10}}
WheelPrizes(bet) == {(half * bet) \div 2 : half \in WheelHalves}

Debit(u, amount) == Transaction("lock", "debit", u, u, amount, {})
Credit(u, amount) == Transaction("add", "adjust", u, u, amount, {})
Transfer(u, v, amount) == Transaction("lock", "transfer", u, v, amount, {})
UpdateBalance(u, delta) == Transaction("add", "adjust", u, u, delta, {})
LowBalanceBonus(u) == Transaction("add", "bonus", u, u, BonusGems, {})

Begin(k, t) ==
  /\ IsIdle(k)
  /\ ops < MaxOps
  /\ ops' = ops + 1
  /\ job' = [job EXCEPT ![k] = t]
  /\ odd' = IF t.runs = "free" /\ t.amount < 0 THEN odd \cup {t.user} ELSE odd
  /\ UNCHANGED <<gems, journal, unmatched, owner, least>>
-----------------------------------------------------------------------------
(* The handlers, and the calls of the balance service.                     *)

CoinFlip(k, u, bet) == bet > 0 /\ ValidateBet(bet) /\ Begin(k, PlayCoinFlip(u, bet))
Mines(k, u, bet) == bet > 0 /\ ValidateBet(bet) /\ Begin(k, PlayMines(u, bet))
RPS(k, u, bet) == (bet > 0 => ValidateBet(bet)) /\ Begin(k, PlayRPS(u, bet))
CaseSpin(k, u) == Begin(k, PlayCaseSpin(u))
Dice(k, u, bet) == bet >= 1 /\ \E prizes \in DicePrizes(bet) : Begin(k, Game(u, bet, prizes))
Wheel(k, u, bet) == bet >= 1 /\ Begin(k, Game(u, bet, WheelPrizes(bet)))
AdjustBalance(k, u, delta) == Begin(k, UpdateBalance(u, delta))

CallBalanceService(k, u, amount) ==
  \/ amount > 0 /\ Begin(k, Debit(u, amount))
  \/ amount > 0 /\ Begin(k, Credit(u, amount))
  \/ amount > 0 /\ \E v \in Users : Begin(k, Transfer(u, v, amount))
  \/ Begin(k, LowBalanceBonus(u))

Request(k, u) ==
  \/ \E bet \in Bets :
       \/ CoinFlip(k, u, bet) \/ Mines(k, u, bet) \/ RPS(k, u, bet)
       \/ Dice(k, u, bet) \/ Wheel(k, u, bet) \/ CallBalanceService(k, u, bet)
  \/ CaseSpin(k, u)
  \/ \E delta \in Deltas : AdjustBalance(k, u, delta)
-----------------------------------------------------------------------------
(* The statements of a transaction.                                        *)

Free(u, k) == owner[u] \in {NoOne, k}
Own(u, k) == owner' = [owner EXCEPT ![u] = k]
Released(k) == [u \in Users |-> IF owner[u] = k THEN NoOne ELSE owner[u]]

\* Mutant of Rollback: the rows are free again, what was written stays.
Leave(k) == job' = [job EXCEPT ![k].at = "idle"] /\ owner' = Released(k)

Rollback(k) == job' = [job EXCEPT ![k] = Idle] /\ owner' = Released(k)
Change(k, u, amount, stage) ==
  job' = [job EXCEPT ![k].at = stage, ![k].delta[u] = @ + amount]

\* Mutant of FirstRow: the sender first.
SenderRow(j) == j.user

\* Transfer locks the lower id first.
FirstRow(j) == IF j.runs = "transfer" /\ j.to < j.user THEN j.to ELSE j.user
SecondRow(j) == IF FirstRow(j) = j.user THEN j.to ELSE j.user

\* SELECT ... FOR UPDATE, and the check of what it returns.
LockRow(k) ==
  LET u == FirstRow(job[k]) IN
  /\ job[k].at = "lock"
  /\ Free(u, k)
  /\ \/ /\ job[k].runs = "transfer"
        /\ job' = [job EXCEPT ![k].at = "second"] /\ Own(u, k)
     \/ /\ job[k].runs # "transfer" /\ gems[u] >= job[k].amount
        /\ job' = [job EXCEPT ![k].at = "take"] /\ Own(u, k)
     \/ job[k].runs # "transfer" /\ gems[u] < job[k].amount /\ Rollback(k)
  /\ UNCHANGED <<gems, journal, unmatched, least, odd, ops>>

\* Mutant of LockSecondRow: the balance that is checked is the receiver's.
CheckReceiver(k) ==
  LET u == SecondRow(job[k]) IN
  /\ job[k].at = "second"
  /\ Free(u, k)
  /\ \/ gems[job[k].to] >= job[k].amount /\ job' = [job EXCEPT ![k].at = "take"] /\ Own(u, k)
     \/ gems[job[k].to] < job[k].amount /\ Rollback(k)
  /\ UNCHANGED <<gems, journal, unmatched, least, odd, ops>>

LockSecondRow(k) ==
  LET u == SecondRow(job[k]) IN
  /\ job[k].at = "second"
  /\ Free(u, k)
  /\ \/ gems[job[k].user] >= job[k].amount /\ job' = [job EXCEPT ![k].at = "take"] /\ Own(u, k)
     \/ gems[job[k].user] < job[k].amount /\ Rollback(k)
  /\ UNCHANGED <<gems, journal, unmatched, least, odd, ops>>

\* UPDATE users SET gems = gems - bet, on a row that is locked.
Take(k) ==
  /\ job[k].at = "take"
  /\ Change(k, job[k].user, - job[k].amount,
            CASE job[k].runs = "game" -> "award" [] job[k].runs = "transfer" -> "add"
              [] OTHER -> "book")
  /\ UNCHANGED <<gems, journal, unmatched, owner, least, odd, ops>>

\* The outcome is drawn, and what it is worth added.
Award(k) ==
  /\ job[k].at = "award"
  /\ \E prize \in job[k].prizes :
       job' = [job EXCEPT ![k].at = "book", ![k].delta[job[k].user] = @ + prize,
                          ![k].awarded = prize]
  /\ UNCHANGED <<gems, journal, unmatched, owner, least, odd, ops>>

\* UPDATE users SET gems = gems + amount: it locks the row; an amount below
\* zero is only taken from a balance that has it, a bonus only given to a
\* low one.
MayAdd(j) == /\ j.amount < 0 => gems[j.to] + j.amount >= 0
             /\ j.runs = "bonus" => gems[j.to] < LowBalance

Add(k) ==
  LET u == job[k].to IN
  /\ job[k].at = "add"
  /\ Free(u, k)
  /\ \/ MayAdd(job[k]) /\ Change(k, u, job[k].amount, "book") /\ Own(u, k)
     \/ ~MayAdd(job[k]) /\ Rollback(k)
  /\ UNCHANGED <<gems, journal, unmatched, least, odd, ops>>

\* Mutant of Amounts: what was won is entered without the bet.
AmountsWon(j) ==
  [u \in Users |->
     CASE j.runs \in {"game", "free"} -> IF u = j.user THEN j.awarded ELSE 0
       [] j.runs = "debit" -> IF u = j.user THEN - j.amount ELSE 0
       [] j.runs = "transfer" -> (IF u = j.to THEN j.amount ELSE 0)
                                 - (IF u = j.user THEN j.amount ELSE 0)
       [] OTHER -> IF u = j.to THEN j.amount ELSE 0]

\* The amounts of the journal rows, as each program computes them: awarded
\* less the bet, less the debit, both sides of a transfer, or the amount.
Amounts(j) ==
  [u \in Users |->
     CASE j.runs \in {"game", "free"} -> IF u = j.user THEN j.awarded - j.amount ELSE 0
       [] j.runs = "debit" -> IF u = j.user THEN - j.amount ELSE 0
       [] j.runs = "transfer" -> (IF u = j.to THEN j.amount ELSE 0)
                                 - (IF u = j.user THEN j.amount ELSE 0)
       [] OTHER -> IF u = j.to THEN j.amount ELSE 0]

Book(k) ==
  /\ job[k].at = "book"
  /\ job' = [job EXCEPT ![k].at = "commit", ![k].book = Amounts(job[k])]
  /\ UNCHANGED <<gems, journal, unmatched, owner, least, odd, ops>>

Commit(k) ==
  /\ job[k].at = "commit"
  /\ gems' = [u \in Users |-> gems[u] + job[k].delta[u]]
  /\ journal' = [u \in Users |-> journal[u] + job[k].book[u]]
  /\ Rollback(k)
  /\ UNCHANGED <<unmatched, least, odd, ops>>

\* A statement fails or the process stops: the database rolls back.
Abort(k) ==
  /\ ~IsIdle(k)
  /\ Rollback(k)
  /\ UNCHANGED <<gems, journal, unmatched, least, odd, ops>>
-----------------------------------------------------------------------------
(* Statements that are transactions of their own.  None writes a journal   *)
(* row; each waits for the row.                                            *)

Statement(u, value) ==
  /\ owner[u] = NoOne
  /\ ops < MaxOps
  /\ ops' = ops + 1
  /\ gems' = [gems EXCEPT ![u] = value]
  /\ unmatched' = [unmatched EXCEPT ![u] = @ + value - gems[u]]
  /\ UNCHANGED <<journal, owner, job, odd>>

\* Commands of the admin: they may well put a balance below zero.
AdminStatement(u, value) ==
  /\ Statement(u, value)
  /\ least' = [least EXCEPT ![u] = IF value < @ THEN value ELSE @]

AddUserGems(u, amount) == AdminStatement(u, gems[u] + amount)
SetUserGems(u, amount) == AdminStatement(u, amount)
BanUser(u) == AdminStatement(u, -1)
UnbanUser(u) == gems[u] = -1 /\ AdminStatement(u, 0)

handleAddGems(u) == \E amount \in Deltas : AddUserGems(u, amount)
handleSetGems(u) == \E amount \in Deltas : SetUserGems(u, amount)
AdminCommand(u) == handleAddGems(u) \/ handleSetGems(u) \/ BanUser(u) \/ UnbanUser(u)

\* POST /profile/bonus: whoever is low, a banned user too.
ClaimBonus(u) ==
  /\ gems[u] < LowBalance
  /\ Statement(u, gems[u] + BonusGems)
  /\ UNCHANGED least

\* Bets and prizes of the other games.
UpdateGems(u, delta) ==
  /\ gems[u] + delta >= 0
  /\ Statement(u, gems[u] + delta)
  /\ UNCHANGED least

\* POST /history: a journal row of the client's own.
AddHistory(u, amount) ==
  /\ ops < MaxOps
  /\ ops' = ops + 1
  /\ journal' = [journal EXCEPT ![u] = @ + amount]
  /\ unmatched' = [unmatched EXCEPT ![u] = @ - amount]
  /\ UNCHANGED <<gems, owner, job, least, odd>>
-----------------------------------------------------------------------------
Step(k) == LockRow(k) \/ LockSecondRow(k) \/ Take(k) \/ Award(k) \/ Add(k) \/ Book(k) \/ Commit(k)

Next ==
  \/ \E k \in Workers : Step(k) \/ Abort(k) \/ \E u \in Users : Request(k, u)
  \/ \E u \in Users : AdminCommand(u) \/ ClaimBonus(u)
  \/ \E u \in Users, delta \in Deltas : UpdateGems(u, delta) \/ AddHistory(u, delta)

\* Goroutines run, and PostgreSQL gives a row to who has waited longest.
Spec == Init /\ [][Next]_vars /\ \A k \in Workers : SF_vars(Step(k))
-----------------------------------------------------------------------------
(* No game, bet, transfer or adjustment takes a balance below zero, or     *)
(* below where an admin has put it, however they overlap.  A comment says  *)
(* of the adjustment that it may: AdjustmentMayOverdraw, below.            *)
NoDebt == \A u \in Users : gems[u] >= least[u]

\* The journal accounts for every gem the transactions moved, of all who
\* did not bet less than nothing at RPS.
Booked == \A u \in Users \ odd : gems[u] = StartGems + journal[u] + unmatched[u]

\* Transactions never wait for each other in a circle: while any is open, one
\* has all the rows that its next statement needs.
Wanted(j) == IF j.at = "lock" THEN FirstRow(j)
             ELSE IF j.at = "second" THEN SecondRow(j) ELSE j.to
Waits(k) == job[k].at \in {"lock", "second", "add"} /\ ~Free(Wanted(job[k]), k)

NoDeadlock ==
  (\E k \in Workers : ~IsIdle(k)) => \E k \in Workers : ~IsIdle(k) /\ ~Waits(k)

\* Every transaction comes to its end: none waits for ever for a row that
\* another has, whichever way two transfers go.
Finishes == \A k \in Workers : (~IsIdle(k)) ~> IsIdle(k)
-----------------------------------------------------------------------------
(* What a comment says and the code does not do (README, section 4).       *)

\* "it may go into the minus, to be finished" (handlers/api.go:56, about
\* UpdateBalance): an adjustment is made whatever the balance is.  The UPDATE
\* of the service refuses one that the balance does not cover.
AdjustmentMayOverdraw ==
  \A k \in Workers : job[k].at = "add" /\ job[k].runs = "adjust" => MayAdd(job[k])
=============================================================================
