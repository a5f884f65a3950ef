----------------------------- MODULE LedgerProofs -----------------------------
(***************************************************************************)
(* Theorems about Ledger, for any users, goroutines, bets, prizes and      *)
(* commands of the admin.                                                  *)
(***************************************************************************)
EXTENDS Ledger, WellFoundedInduction, TLAPS

-----------------------------------------------------------------------------
(* The inductive invariant.  A row that a transaction has changed belongs  *)
(* to it, so that a balance it has checked is still there at the commit.   *)

\* What the transaction of k has written so far is covered by the balances.
Covered(k) == \A u \in Users : job[k].delta[u] >= 0 \/ gems[u] + job[k].delta[u] >= 0

\* Nothing is written before the bet is taken or the amount is added.
Unwritten(k) ==
  \/ job[k].at \in {"lock", "second", "take"}
  \/ job[k].runs = "free"
  \/ job[k].at = "add" /\ job[k].runs # "transfer"

\* Only RPS without a bet books something it has not changed.
FreeRun(k) ==
  job[k].runs = "free" /\ job[k].at # "idle" =>
    /\ job[k].at \in {"book", "commit"}
    /\ job[k].amount <= 0
    /\ job[k].amount < 0 => job[k].user \in odd

\* Where a program may be, and what it has written of what it will book.
Accounted(k) ==
  /\ job[k].at \in {"lock", "take"} => job[k].runs \in {"game", "debit", "transfer"}
  /\ job[k].at = "second" => job[k].runs = "transfer"
  /\ job[k].at = "award" => job[k].runs = "game"
  /\ job[k].at = "add" => job[k].runs \in {"transfer", "adjust", "bonus"}
  /\ job[k].runs = "free" => job[k].awarded = 0
  /\ job[k].at = "award" \/ (job[k].at = "add" /\ job[k].runs = "transfer") =>
       \A u \in Users : job[k].delta[u] = IF u = job[k].user THEN - job[k].amount ELSE 0
  /\ job[k].at = "book" /\ job[k].runs # "free" =>
       \A u \in Users : job[k].delta[u] = Amounts(job[k])[u]

JobOK(k) ==
  /\ Unwritten(k) => \A u \in Users : job[k].delta[u] = 0
  /\ job[k].at = "take" => owner[job[k].user] = k /\ gems[job[k].user] >= job[k].amount
  /\ job[k].at = "second" => owner[FirstRow(job[k])] = k
  /\ job[k].at = "award" => owner[job[k].user] = k
  /\ job[k].runs = "transfer" => job[k].amount > 0
  /\ FreeRun(k)
  /\ Accounted(k)
  /\ job[k].at = "commit" => \A u \in Users \ odd : job[k].book[u] = job[k].delta[u]
  /\ Covered(k)

IInv ==
  /\ TypeOK
  /\ \A k \in Workers : JobOK(k)
  /\ \A u \in Users : least[u] <= 0
  /\ NoDebt
  /\ Booked

-----------------------------------------------------------------------------
(* What a transaction starts with.                                         *)

LEMMA NoChangeType == NoChange \in [Users -> Int] /\ \A u \in Users : NoChange[u] = 0
  BY DEF NoChange

LEMMA IdleType ==
  /\ Idle \in Jobs /\ Idle.at = "idle" /\ Idle.runs = "free" /\ Idle.delta = NoChange
  /\ Idle.awarded = 0
  <1>1. SomeUser \in Users
    BY LedgerAssumption DEF SomeUser
  <1> QED
    BY <1>1, NoChangeType DEF Idle, Jobs, Stages, Programs

\* Where programs begin, and what they know of their amount.
StartOK(t) ==
  /\ t \in Jobs
  /\ t.delta = NoChange
  /\ t.at \in {"lock", "add", "book"}
  /\ t.at = "book" <=> t.runs = "free"
  /\ t.runs = "free" => t.amount <= 0
  /\ t.runs = "transfer" => t.amount > 0
  /\ t.at = "add" => t.runs \in {"adjust", "bonus"}
  /\ t.at = "lock" => t.runs \in {"game", "debit", "transfer"}
  /\ t.awarded = 0

LEMMA TransactionStarts ==
  ASSUME NEW at \in {"lock", "add", "book"}, NEW runs \in Programs, NEW u \in Users,
         NEW v \in Users, NEW amount \in Int, NEW prizes \in SUBSET Nat,
         at = "book" <=> runs = "free",
         runs = "free" => amount <= 0,
         runs = "transfer" => amount > 0,
         at = "add" => runs \in {"adjust", "bonus"},
         at = "lock" => runs \in {"game", "debit", "transfer"}
  PROVE  StartOK(Transaction(at, runs, u, v, amount, prizes))
  BY NoChangeType DEF StartOK, Transaction, Jobs, Stages, Programs

LEMMA GameStarts ==
  ASSUME NEW u \in Users, NEW bet \in Int, NEW prizes \in SUBSET Nat
  PROVE  StartOK(Game(u, bet, prizes))
  BY TransactionStarts DEF Game, Programs

\* Prizes are natural numbers.
LEMMA PrizesType ==
  ASSUME NEW bet \in Int, bet >= 0
  PROVE  /\ {0, 2 * bet} \in SUBSET Nat
         /\ \A prizes \in DicePrizes(bet) : prizes \in SUBSET Nat
         /\ WheelPrizes(bet) \in SUBSET Nat
  <1>1. \A n \in Nat : n \div 10 \in Nat /\ n \div 2 \in Nat
    OBVIOUS
  <1>2. 55 * bet \in Nat /\ 18 * bet \in Nat /\ 2 * bet \in Nat
    OBVIOUS
  <1>3. \A prizes \in DicePrizes(bet) : prizes \in SUBSET Nat
    BY <1>1, <1>2 DEF DicePrizes
  <1>4. WheelPrizes(bet) \in SUBSET Nat
    <2>1. \A half \in WheelHalves : half * bet \in Nat
      BY LedgerAssumption
    <2> QED
      BY <2>1, <1>1 DEF WheelPrizes
  <1> QED
    BY <1>2, <1>3, <1>4

\* Every request starts a transaction like that.
LEMMA RequestStarts ==
  ASSUME NEW k \in Workers, NEW u \in Users, Request(k, u)
  PROVE  \E t : StartOK(t) /\ Begin(k, t)
  <1>1. CASE CaseSpin(k, u)
    <2>1. StartOK(PlayCaseSpin(u))
      BY GameStarts, LedgerAssumption DEF PlayCaseSpin
    <2> QED
      BY <1>1, <2>1 DEF CaseSpin
  <1>2. ASSUME NEW delta \in Deltas, AdjustBalance(k, u, delta)
        PROVE  \E t : StartOK(t) /\ Begin(k, t)
    <2>1. StartOK(UpdateBalance(u, delta))
      BY TransactionStarts, LedgerAssumption DEF UpdateBalance, Programs
    <2> QED
      BY <1>2, <2>1 DEF AdjustBalance
  <1>3. ASSUME NEW bet \in Bets,
               \/ CoinFlip(k, u, bet) \/ Mines(k, u, bet) \/ RPS(k, u, bet)
               \/ Dice(k, u, bet) \/ Wheel(k, u, bet) \/ CallBalanceService(k, u, bet)
        PROVE  \E t : StartOK(t) /\ Begin(k, t)
    <2> bet \in Int
      BY LedgerAssumption
    <2>1. CASE CoinFlip(k, u, bet)
      <3>1. StartOK(PlayCoinFlip(u, bet))
        BY <2>1, GameStarts, PrizesType DEF PlayCoinFlip, CoinFlip
      <3> QED
        BY <2>1, <3>1 DEF CoinFlip
    <2>2. CASE Mines(k, u, bet)
      <3>1. StartOK(PlayMines(u, bet))
        BY <2>2, GameStarts, PrizesType DEF PlayMines, Mines
      <3> QED
        BY <2>2, <3>1 DEF Mines
    <2>3. CASE RPS(k, u, bet)
      <3>1. StartOK(PlayRPS(u, bet))
        <4>1. CASE bet > 0
          BY <4>1, GameStarts, PrizesType DEF PlayRPS
        <4>2. CASE ~(bet > 0)
          BY <4>2, TransactionStarts DEF PlayRPS, Programs
        <4> QED
          BY <4>1, <4>2
      <3> QED
        BY <2>3, <3>1 DEF RPS
    <2>4. CASE Dice(k, u, bet)
      <3>1. PICK prizes \in DicePrizes(bet) : Begin(k, Game(u, bet, prizes))
        BY <2>4 DEF Dice
      <3>2. StartOK(Game(u, bet, prizes))
        BY <2>4, <3>1, GameStarts, PrizesType DEF Dice
      <3> QED
        BY <3>1, <3>2
    <2>5. CASE Wheel(k, u, bet)
      <3>1. StartOK(Game(u, bet, WheelPrizes(bet)))
        BY <2>5, GameStarts, PrizesType DEF Wheel
      <3> QED
        BY <2>5, <3>1 DEF Wheel
    <2>6. CASE CallBalanceService(k, u, bet)
      <3>1. bet > 0 => StartOK(Debit(u, bet)) /\ StartOK(Credit(u, bet))
        BY TransactionStarts DEF Debit, Credit, Programs
      <3>2. bet > 0 => \A v \in Users : StartOK(Transfer(u, v, bet))
        BY TransactionStarts DEF Transfer, Programs
      <3>3. StartOK(LowBalanceBonus(u))
        BY TransactionStarts, LedgerAssumption DEF LowBalanceBonus, Programs
      <3> QED
        BY <2>6, <3>1, <3>2, <3>3 DEF CallBalanceService
    <2> QED
      BY <1>3, <2>1, <2>2, <2>3, <2>4, <2>5, <2>6
  <1> QED
    BY <1>1, <1>2, <1>3 DEF Request

-----------------------------------------------------------------------------
(* Every step keeps the invariant.                                         *)

\* A step leaves the transaction of l alone, with the rows it has.
Apart(l) ==
  /\ job'[l] = job[l]
  /\ \A u \in Users : owner[u] = l => owner'[u] = l /\ gems'[u] = gems[u]
  /\ odd \subseteq odd'

LEMMA ApartKeeps ==
  ASSUME TypeOK, NEW l \in Workers, JobOK(l), Apart(l)
  PROVE  JobOK(l)' /\ \A u \in Users : job'[l].delta[u] # 0 => owner'[u] = l
  <1> job[l] \in Jobs
    BY DEF TypeOK
  <1>1. \A u \in Users : job'[l].delta[u] # 0 => owner[u] = l /\ owner'[u] = l /\ gems'[u] = gems[u]
    BY DEF TypeOK, Apart
  <1>2. Covered(l)'
    BY <1>1 DEF JobOK, Covered, Apart, TypeOK, Jobs
  <1>3. job[l].user \in Users /\ FirstRow(job[l]) \in Users
    BY DEF Jobs, FirstRow
  <1>4. /\ Unwritten(l)' = Unwritten(l) /\ (FreeRun(l) => FreeRun(l)')
        /\ Accounted(l) => Accounted(l)'
    BY DEF Unwritten, FreeRun, Accounted, Amounts, Apart
  <1>5. job'[l].at = "second" => owner'[FirstRow(job'[l])] = l
    BY <1>3 DEF Apart, JobOK
  <1> QED
    BY <1>1, <1>2, <1>3, <1>4, <1>5 DEF JobOK, Apart

\* What a step of the transaction of k must do.
Steps(k) ==
  /\ job' \in [Workers -> Jobs]
  /\ owner' \in [Users -> Workers \cup {NoOne}]
  /\ \A l \in Workers \ {k} : Apart(l)
  /\ \A u \in Users : job'[k].delta[u] # 0 => owner'[u] = k
  /\ JobOK(k)'

LEMMA StepsKeep ==
  ASSUME TypeOK, \A k \in Workers : JobOK(k), NEW k \in Workers, Steps(k)
  PROVE  /\ \A l \in Workers : JobOK(l)'
         /\ \A l \in Workers, u \in Users : job'[l].delta[u] # 0 => owner'[u] = l
  <1> SUFFICES ASSUME NEW l \in Workers
               PROVE  JobOK(l)' /\ \A u \in Users : job'[l].delta[u] # 0 => owner'[u] = l
    OBVIOUS
  <1>1. CASE l = k
    BY <1>1 DEF Steps
  <1>2. CASE l # k
    BY <1>2, ApartKeeps DEF Steps
  <1> QED
    BY <1>1, <1>2

\* The tables are not written: what else the invariant says stays.
LEMMA TablesKeep ==
  ASSUME IInv, NEW k \in Workers, Steps(k), UNCHANGED <<gems, journal, unmatched, least, odd, ops>>
  PROVE  IInv'
  <1>1. /\ \A l \in Workers : JobOK(l)'
        /\ \A l \in Workers, u \in Users : job'[l].delta[u] # 0 => owner'[u] = l
    BY StepsKeep DEF IInv
  <1>2. TypeOK'
    BY <1>1 DEF IInv, TypeOK, Steps
  <1>3. NoDebt' /\ Booked'
    BY DEF IInv, NoDebt, Booked
  <1> QED
    BY <1>1, <1>2, <1>3 DEF IInv

\* The row of u goes to k, if it was free.
LEMMA OwnEffect ==
  ASSUME TypeOK, NEW k \in Workers, NEW u \in Users, Free(u, k), Own(u, k)
  PROVE  /\ owner' \in [Users -> Workers \cup {NoOne}]
         /\ owner'[u] = k
         /\ \A v \in Users : owner[v] \in Workers => owner'[v] = owner[v]
  BY LedgerAssumption DEF TypeOK, Free, Own

\* A rolled-back transaction has nothing and is no program any more.
LEMMA RollbackSteps ==
  ASSUME TypeOK, NEW k \in Workers, Rollback(k), odd \subseteq odd',
         \A u \in Users : owner[u] # k => gems'[u] = gems[u]
  PROVE  Steps(k)
  <1>1. /\ Idle \in Jobs /\ Idle.at = "idle" /\ Idle.runs = "free"
        /\ Idle.awarded = 0 /\ \A u \in Users : Idle.delta[u] = 0
    BY IdleType, NoChangeType
  <1>2. job' = [job EXCEPT ![k] = Idle] /\ owner' = Released(k)
    BY DEF Rollback
  <1>3. /\ job' \in [Workers -> Jobs] /\ job'[k] = Idle
        /\ \A l \in Workers \ {k} : job'[l] = job[l]
    BY <1>1, <1>2 DEF TypeOK
  <1>4. /\ owner' \in [Users -> Workers \cup {NoOne}]
        /\ \A u \in Users : owner[u] # k => owner'[u] = owner[u]
    BY <1>2 DEF TypeOK, Released
  <1>5. \A l \in Workers \ {k} : Apart(l)
    BY <1>3, <1>4 DEF Apart
  <1>6. JobOK(k)'
    BY <1>1, <1>3 DEF JobOK, Covered, FreeRun, Accounted
  <1> QED
    BY <1>1, <1>3, <1>4, <1>5, <1>6 DEF Steps

\* One transaction goes on: only k and its rows change.
LEMMA OneSteps ==
  ASSUME TypeOK, NEW k \in Workers, NEW j \in Jobs,
         job' = [job EXCEPT ![k] = j],
         owner' \in [Users -> Workers \cup {NoOne}],
         \A u \in Users : owner[u] \in Workers => owner'[u] = owner[u],
         UNCHANGED <<gems, odd>>
  PROVE  /\ job' \in [Workers -> Jobs] /\ job'[k] = j
         /\ \A l \in Workers \ {k} : Apart(l)
  BY DEF TypeOK, Apart

LEMMA BeginKeeps ==
  ASSUME IInv, NEW k \in Workers, NEW t, StartOK(t), Begin(k, t)
  PROVE  IInv'
  <1> USE DEF IInv
  <1>1. job' = [job EXCEPT ![k] = t] /\ t \in Jobs
    BY DEF Begin, StartOK
  <1>2. /\ job' \in [Workers -> Jobs] /\ job'[k] = t
        /\ \A l \in Workers \ {k} : Apart(l)
    BY <1>1 DEF TypeOK, Begin, Apart
  <1>3. \A u \in Users : job'[k].delta[u] = 0
    BY <1>2, NoChangeType DEF StartOK
  <1>4. FreeRun(k)'
    BY <1>2 DEF FreeRun, StartOK, Begin
  <1>5. Accounted(k)'
    BY <1>2, <1>3 DEF Accounted, StartOK
  <1>6. JobOK(k)'
    BY <1>2, <1>3, <1>4, <1>5 DEF JobOK, Covered, StartOK
  <1>7. Steps(k)
    BY <1>2, <1>3, <1>6 DEF Steps, Begin, TypeOK
  <1>8. /\ \A l \in Workers : JobOK(l)'
        /\ \A l \in Workers, u \in Users : job'[l].delta[u] # 0 => owner'[u] = l
    BY <1>7, StepsKeep
  <1>9. odd' \subseteq Users /\ odd \subseteq odd' /\ ops' \in 0 .. MaxOps
    <2>1. t.user \in Users
      BY DEF StartOK, Jobs
    <2>2. odd' = odd \/ odd' = odd \cup {t.user}
      BY DEF Begin
    <2>3. ops' \in 0 .. MaxOps
      BY LedgerAssumption DEF Begin, TypeOK
    <2> QED
      BY <2>1, <2>2, <2>3 DEF TypeOK
  <1>10. TypeOK'
    BY <1>2, <1>8, <1>9 DEF TypeOK, Begin
  <1>11. NoDebt' /\ Booked'
    BY <1>9 DEF Begin, NoDebt, Booked
  <1> QED
    BY <1>8, <1>10, <1>11 DEF Begin

LEMMA LockRowKeeps ==
  ASSUME IInv, NEW k \in Workers, LockRow(k)
  PROVE  IInv'
  <1> DEFINE u == FirstRow(job[k])
  <1>1. job[k] \in Jobs /\ u \in Users /\ JobOK(k)
    BY DEF IInv, TypeOK, Jobs, FirstRow
  <1>2. CASE Rollback(k)
    <2>1. Steps(k)
      BY <1>2, RollbackSteps DEF LockRow, IInv
    <2> QED
      BY <2>1, TablesKeep DEF LockRow
  <1>3. CASE /\ job[k].runs = "transfer"
             /\ job' = [job EXCEPT ![k].at = "second"] /\ Own(u, k)
    <2>1. PICK j \in Jobs : j = [job[k] EXCEPT !.at = "second"]
      BY <1>1 DEF Jobs, Stages
    <2>2. job' = [job EXCEPT ![k] = j]
      BY <1>3, <2>1 DEF IInv, TypeOK
    <2>3. Free(u, k) /\ job[k].at = "lock"
      BY DEF LockRow
    <2>4. /\ owner' \in [Users -> Workers \cup {NoOne}] /\ owner'[u] = k
          /\ \A v \in Users : owner[v] \in Workers => owner'[v] = owner[v]
      BY <1>1, <1>3, <2>3, OwnEffect DEF IInv
    <2>5. /\ job' \in [Workers -> Jobs] /\ job'[k] = j
          /\ \A l \in Workers \ {k} : Apart(l)
      BY <2>2, <2>4, OneSteps DEF LockRow, IInv
    <2>6. /\ j.at = "second" /\ j.runs = "transfer" /\ j.delta = job[k].delta
          /\ j.amount = job[k].amount /\ j.awarded = job[k].awarded /\ FirstRow(j) = u
      BY <1>1, <1>3, <2>1 DEF Jobs, FirstRow
    <2>7. \A v \in Users : j.delta[v] = 0
      BY <1>1, <2>3, <2>6 DEF JobOK, Unwritten
    <2>8. JobOK(k)'
      BY <1>1, <1>3, <2>4, <2>5, <2>6, <2>7 DEF JobOK, Covered, FreeRun, Accounted
    <2>9. Steps(k)
      BY <2>4, <2>5, <2>7, <2>8 DEF Steps
    <2> QED
      BY <2>9, TablesKeep DEF LockRow
  <1>4. CASE /\ job[k].runs # "transfer" /\ gems[u] >= job[k].amount
             /\ job' = [job EXCEPT ![k].at = "take"] /\ Own(u, k)
    <2>1. PICK j \in Jobs : j = [job[k] EXCEPT !.at = "take"]
      BY <1>1 DEF Jobs, Stages
    <2>2. job' = [job EXCEPT ![k] = j]
      BY <1>4, <2>1 DEF IInv, TypeOK
    <2>3. Free(u, k) /\ job[k].at = "lock"
      BY DEF LockRow
    <2>4. /\ owner' \in [Users -> Workers \cup {NoOne}] /\ owner'[u] = k
          /\ \A v \in Users : owner[v] \in Workers => owner'[v] = owner[v]
      BY <1>1, <1>4, <2>3, OwnEffect DEF IInv
    <2>5. /\ job' \in [Workers -> Jobs] /\ job'[k] = j
          /\ \A l \in Workers \ {k} : Apart(l)
      BY <2>2, <2>4, OneSteps DEF LockRow, IInv
    <2>6. /\ j.at = "take" /\ j.runs = job[k].runs /\ j.delta = job[k].delta
          /\ j.amount = job[k].amount /\ j.awarded = job[k].awarded /\ j.user = u
      BY <1>1, <1>4, <2>1 DEF Jobs, FirstRow
    <2>7. \A v \in Users : j.delta[v] = 0
      BY <1>1, <2>3, <2>6 DEF JobOK, Unwritten
    <2>8. JobOK(k)'
      BY <1>1, <1>4, <2>3, <2>4, <2>5, <2>6, <2>7 DEF JobOK, Covered, FreeRun, Accounted,
                                                           LockRow
    <2>9. Steps(k)
      BY <2>4, <2>5, <2>7, <2>8 DEF Steps
    <2> QED
      BY <2>9, TablesKeep DEF LockRow
  <1> QED
    BY <1>2, <1>3, <1>4 DEF LockRow

LEMMA LockSecondRowKeeps ==
  ASSUME IInv, NEW k \in Workers, LockSecondRow(k)
  PROVE  IInv'
  <1> DEFINE u == SecondRow(job[k])
  <1>1. job[k] \in Jobs /\ u \in Users /\ JobOK(k)
    BY DEF IInv, TypeOK, Jobs, FirstRow, SecondRow
  <1>2. CASE Rollback(k)
    <2>1. Steps(k)
      BY <1>2, RollbackSteps DEF LockSecondRow, IInv
    <2> QED
      BY <2>1, TablesKeep DEF LockSecondRow
  <1>3. CASE /\ gems[job[k].user] >= job[k].amount
             /\ job' = [job EXCEPT ![k].at = "take"] /\ Own(u, k)
    <2>1. PICK j \in Jobs : j = [job[k] EXCEPT !.at = "take"]
      BY <1>1 DEF Jobs, Stages
    <2>2. job' = [job EXCEPT ![k] = j]
      BY <1>3, <2>1 DEF IInv, TypeOK
    <2>3. Free(u, k) /\ job[k].at = "second" /\ owner[FirstRow(job[k])] = k
      BY <1>1 DEF LockSecondRow, JobOK
    <2>4. /\ owner' \in [Users -> Workers \cup {NoOne}] /\ owner'[u] = k
          /\ \A v \in Users : owner[v] \in Workers => owner'[v] = owner[v]
      BY <1>1, <1>3, <2>3, OwnEffect DEF IInv
    <2>5. /\ job' \in [Workers -> Jobs] /\ job'[k] = j
          /\ \A l \in Workers \ {k} : Apart(l)
      BY <2>2, <2>4, OneSteps DEF LockSecondRow, IInv
    <2>6. /\ j.at = "take" /\ j.runs = job[k].runs /\ j.delta = job[k].delta
          /\ j.amount = job[k].amount /\ j.awarded = job[k].awarded /\ j.user = job[k].user
      BY <1>1, <2>1 DEF Jobs
    \* The user has either row.
    <2>7. owner'[job[k].user] = k
      BY <1>1, <2>3, <2>4 DEF FirstRow, SecondRow, Jobs
    <2>8. \A v \in Users : j.delta[v] = 0
      BY <1>1, <2>3, <2>6 DEF JobOK, Unwritten
    <2>9. JobOK(k)'
      BY <1>1, <1>3, <2>3, <2>5, <2>6, <2>7, <2>8 DEF JobOK, Covered, FreeRun, Accounted,
                                                            LockSecondRow
    <2>10. Steps(k)
      BY <2>4, <2>5, <2>8, <2>9 DEF Steps
    <2> QED
      BY <2>10, TablesKeep DEF LockSecondRow
  <1> QED
    BY <1>2, <1>3 DEF LockSecondRow

\* The transaction of k writes a row and goes on.
Written(k, j, u, amount, stage) ==
  /\ job' = [job EXCEPT ![k] = j]
  /\ j.at = stage /\ j.runs = job[k].runs /\ j.user = job[k].user /\ j.amount = job[k].amount
  /\ j.to = job[k].to /\ j.awarded = job[k].awarded
  /\ \A v \in Users : /\ job[k].delta[v] \in Int
                      /\ v # u => j.delta[v] = job[k].delta[v]
                      /\ v = u => j.delta[v] = job[k].delta[v] + amount

LEMMA ChangeWrites ==
  ASSUME TypeOK, NEW k \in Workers, NEW u \in Users, NEW amount \in Int, NEW stage \in Stages,
         Change(k, u, amount, stage)
  PROVE  \E j \in Jobs : Written(k, j, u, amount, stage)
  <1> DEFINE d == [job[k].delta EXCEPT ![u] = @ + amount]
             j == [job[k] EXCEPT !.at = stage, !.delta = d]
  <1>1. job[k] \in Jobs
    BY DEF TypeOK
  <1>2. /\ d \in [Users -> Int] /\ job[k].delta \in [Users -> Int]
        /\ \A v \in Users : IF v = u THEN d[v] = job[k].delta[v] + amount ELSE d[v] = job[k].delta[v]
    BY <1>1 DEF Jobs
  <1>3. job' = [job EXCEPT ![k] = j]
    BY <1>1 DEF TypeOK, Change, Jobs
  <1> HIDE DEF d
  <1>4. /\ j \in Jobs /\ j.delta = d
        /\ j.at = stage /\ j.runs = job[k].runs /\ j.user = job[k].user
        /\ j.amount = job[k].amount /\ j.to = job[k].to /\ j.awarded = job[k].awarded
    BY <1>1, <1>2 DEF Jobs
  <1> HIDE DEF j
  <1>5. Written(k, j, u, amount, stage)
    BY <1>2, <1>3, <1>4 DEF Written
  <1> QED
    BY <1>4, <1>5

LEMMA TakeKeeps ==
  ASSUME IInv, NEW k \in Workers, Take(k)
  PROVE  IInv'
  <1> DEFINE u == job[k].user
             next == CASE job[k].runs = "game" -> "award" [] job[k].runs = "transfer" -> "add"
                       [] OTHER -> "book"
  <1>1. job[k] \in Jobs /\ u \in Users /\ JobOK(k) /\ job[k].at = "take"
    BY DEF IInv, TypeOK, Jobs, Take
  <1>2. next \in Stages
    BY DEF Stages
  <1> HIDE DEF next
  <1>3. PICK j \in Jobs : Written(k, j, u, - job[k].amount, next)
    <2>1. - job[k].amount \in Int
      BY <1>1 DEF Jobs
    <2>2. Change(k, u, - job[k].amount, next)
      BY DEF Take, next
    <2> QED
      BY <1>1, <1>2, <2>1, <2>2, ChangeWrites DEF IInv
  <1>4. /\ job' = [job EXCEPT ![k] = j]
        /\ j.at = next /\ j.runs = job[k].runs /\ j.user = u /\ j.amount = job[k].amount
        /\ j.awarded = job[k].awarded
        /\ \A v \in Users : /\ v # u => j.delta[v] = job[k].delta[v]
                            /\ v = u => j.delta[v] = job[k].delta[v] + - job[k].amount
    BY <1>3 DEF Written
  <1>5. /\ job' \in [Workers -> Jobs] /\ job'[k] = j
        /\ \A l \in Workers \ {k} : Apart(l)
    BY <1>4, OneSteps DEF Take, IInv, TypeOK
  <1>7. \A v \in Users : job[k].delta[v] = 0
    BY <1>1 DEF JobOK, Unwritten
  <1>8. /\ owner[u] = k /\ gems[u] >= job[k].amount /\ job[k].runs # "free"
        /\ gems[u] \in Int /\ job[k].amount \in Int
    BY <1>1 DEF JobOK, FreeRun, IInv, TypeOK, Jobs
  <1>9. \A v \in Users : /\ v # u => j.delta[v] = 0
                         /\ v = u => j.delta[v] = - job[k].amount
    BY <1>4, <1>7, <1>8
  <1>10. Covered(k)'
    BY <1>1, <1>5, <1>8, <1>9 DEF Covered, Take
  \* A debit has written all it will book.
  <1>11. Accounted(k)'
    <2>1. job[k].runs \in {"game", "debit", "transfer"}
      BY <1>1 DEF JobOK, Accounted
    <2>2. next = "book" => job[k].runs = "debit"
      BY <2>1 DEF next
    <2>3. next = "book" => \A v \in Users : j.delta[v] = Amounts(j)[v]
      BY <1>4, <1>8, <1>9, <2>2 DEF Amounts
    <2>4. next \in {"book", "award", "add"}
      BY <2>1 DEF next
    <2>5. next = "award" => job[k].runs = "game"
      BY <2>1 DEF next
    <2>6. next = "add" => job[k].runs = "transfer"
      BY <2>1 DEF next
    <2> QED
      BY <1>4, <1>5, <1>8, <1>9, <2>3, <2>4, <2>5, <2>6 DEF Accounted
  <1>12. JobOK(k)'
    BY <1>1, <1>4, <1>5, <1>8, <1>10, <1>11 DEF JobOK, Unwritten, FreeRun, Take, next
  <1>13. Steps(k)
    BY <1>5, <1>8, <1>9, <1>12 DEF Steps, Take, IInv, TypeOK
  <1> QED
    BY <1>13, TablesKeep DEF Take

\* The prize is written, and remembered.
Awarded(k, j, u, prize) ==
  /\ job' = [job EXCEPT ![k] = j]
  /\ j.at = "book" /\ j.runs = job[k].runs /\ j.user = u /\ j.amount = job[k].amount
  /\ j.to = job[k].to /\ j.awarded = prize
  /\ \A v \in Users : /\ job[k].delta[v] \in Int
                      /\ v # u => j.delta[v] = job[k].delta[v]
                      /\ v = u => j.delta[v] = job[k].delta[v] + prize

LEMMA AwardWrites ==
  ASSUME TypeOK, NEW k \in Workers, Award(k)
  PROVE  \E prize \in Nat : \E j \in Jobs : Awarded(k, j, job[k].user, prize)
  <1>1. job[k] \in Jobs
    BY DEF TypeOK
  <1>2. PICK prize \in job[k].prizes :
          job' = [job EXCEPT ![k].at = "book", ![k].delta[job[k].user] = @ + prize,
                             ![k].awarded = prize]
    BY DEF Award
  <1>3. prize \in Nat /\ "book" \in Stages
    BY <1>1, <1>2 DEF Jobs, Stages
  <1> DEFINE u == job[k].user
             d == [job[k].delta EXCEPT ![u] = @ + prize]
             j == [job[k] EXCEPT !.at = "book", !.delta = d, !.awarded = prize]
  <1>4. /\ d \in [Users -> Int] /\ job[k].delta \in [Users -> Int]
        /\ \A v \in Users : IF v = u THEN d[v] = job[k].delta[v] + prize
                                     ELSE d[v] = job[k].delta[v]
    BY <1>1, <1>3 DEF Jobs
  <1>5. job' = [job EXCEPT ![k] = j]
    BY <1>1, <1>2 DEF TypeOK, Jobs
  <1> HIDE DEF d
  <1>6. /\ j \in Jobs /\ j.delta = d
        /\ j.at = "book" /\ j.runs = job[k].runs /\ j.user = job[k].user
        /\ j.amount = job[k].amount /\ j.to = job[k].to /\ j.awarded = prize
    BY <1>1, <1>3, <1>4 DEF Jobs
  <1> HIDE DEF j
  <1>7. Awarded(k, j, u, prize)
    BY <1>4, <1>5, <1>6 DEF Awarded
  <1> QED
    BY <1>3, <1>6, <1>7

LEMMA AwardKeeps ==
  ASSUME IInv, NEW k \in Workers, Award(k)
  PROVE  IInv'
  <1> DEFINE u == job[k].user
  <1>1. job[k] \in Jobs /\ u \in Users /\ JobOK(k) /\ job[k].at = "award"
    BY DEF IInv, TypeOK, Jobs, Award
  <1>2. PICK prize \in Nat : \E j \in Jobs : Awarded(k, j, u, prize)
    BY AwardWrites DEF IInv
  <1>3. PICK j \in Jobs : Awarded(k, j, u, prize)
    BY <1>2
  <1>4. /\ job' = [job EXCEPT ![k] = j]
        /\ j.at = "book" /\ j.runs = job[k].runs /\ j.amount = job[k].amount
        /\ j.user = u /\ j.awarded = prize
        /\ \A v \in Users : /\ job[k].delta[v] \in Int
                            /\ v # u => j.delta[v] = job[k].delta[v]
                            /\ v = u => j.delta[v] = job[k].delta[v] + prize
    BY <1>3 DEF Awarded
  <1>5. /\ job' \in [Workers -> Jobs] /\ job'[k] = j
        /\ \A l \in Workers \ {k} : Apart(l)
    BY <1>4, OneSteps DEF Award, IInv, TypeOK
  <1>7. owner[u] = k /\ job[k].runs # "free"
    BY <1>1 DEF JobOK, FreeRun
  <1>8. \A v \in Users : gems[v] \in Int /\ gems'[v] = gems[v]
    BY DEF Award, IInv, TypeOK
  <1>9. Covered(k)'
    BY <1>1, <1>4, <1>5, <1>8 DEF Covered, JobOK
  \* The game is to book the prize less the bet, which was written before.
  <1>10. Accounted(k)'
    <2>1. /\ job[k].runs = "game" /\ job[k].amount \in Int
          /\ \A v \in Users : job[k].delta[v] = IF v = u THEN - job[k].amount ELSE 0
      BY <1>1 DEF JobOK, Accounted, Jobs
    <2>2. \A v \in Users : j.delta[v] = Amounts(j)[v]
      BY <1>4, <2>1 DEF Amounts
    <2> QED
      BY <1>4, <1>5, <2>1, <2>2 DEF Accounted
  <1>11. JobOK(k)'
    BY <1>1, <1>4, <1>5, <1>7, <1>9, <1>10 DEF JobOK, Unwritten, FreeRun, Award
  <1>12. Steps(k)
    BY <1>1, <1>4, <1>5, <1>7, <1>11 DEF Steps, Award, IInv, TypeOK
  <1> QED
    BY <1>12, TablesKeep DEF Award

LEMMA AddKeeps ==
  ASSUME IInv, NEW k \in Workers, Add(k)
  PROVE  IInv'
  <1> DEFINE u == job[k].to
  <1>1. job[k] \in Jobs /\ u \in Users /\ JobOK(k) /\ job[k].at = "add" /\ Free(u, k)
    BY DEF IInv, TypeOK, Jobs, Add
  <1>2. CASE Rollback(k)
    <2>1. Steps(k)
      BY <1>2, RollbackSteps DEF Add, IInv
    <2> QED
      BY <2>1, TablesKeep DEF Add
  <1>3. CASE MayAdd(job[k]) /\ Change(k, u, job[k].amount, "book") /\ Own(u, k)
    <2>1. PICK j \in Jobs : Written(k, j, u, job[k].amount, "book")
      <3>1. job[k].amount \in Int /\ "book" \in Stages
        BY <1>1 DEF Stages, Jobs
      <3> QED
        BY <1>1, <1>3, <3>1, ChangeWrites DEF IInv
    <2>2. /\ job' = [job EXCEPT ![k] = j]
          /\ j.at = "book" /\ j.runs = job[k].runs /\ j.amount = job[k].amount
          /\ j.user = job[k].user /\ j.to = u
          /\ \A v \in Users : /\ job[k].delta[v] \in Int
                              /\ v # u => j.delta[v] = job[k].delta[v]
                              /\ v = u => j.delta[v] = job[k].delta[v] + job[k].amount
      BY <2>1 DEF Written
    <2>3. /\ owner' \in [Users -> Workers \cup {NoOne}] /\ owner'[u] = k
          /\ \A v \in Users : owner[v] \in Workers => owner'[v] = owner[v]
      BY <1>1, <1>3, OwnEffect DEF IInv
    <2>4. /\ job' \in [Workers -> Jobs] /\ job'[k] = j
          /\ \A l \in Workers \ {k} : Apart(l)
      BY <2>2, <2>3, OneSteps DEF Add, IInv
    <2>6. job[k].runs # "free" /\ job[k].amount \in Int /\ gems[u] \in Int
      BY <1>1 DEF JobOK, FreeRun, Jobs, IInv, TypeOK
    \* A receiver gets more; a single amount was checked by the statement.
    <2>8. j.delta[u] >= 0 \/ gems[u] + j.delta[u] >= 0
      <3>1. CASE job[k].runs = "transfer"
        BY <1>1, <3>1, <2>6, <2>2 DEF JobOK, Covered
      <3>2. CASE job[k].runs # "transfer"
        BY <1>1, <1>3, <3>2, <2>6, <2>2 DEF JobOK, Unwritten, MayAdd
      <3> QED
        BY <3>1, <3>2
    <2>9. Covered(k)'
      BY <1>1, <2>4, <2>2, <2>8 DEF Covered, Add, JobOK
    \* What the sender of a transfer lost was written before.
    <2>10. Accounted(k)'
      <3>1. job[k].runs \in {"transfer", "adjust", "bonus"}
        BY <1>1 DEF JobOK, Accounted
      <3>2. ASSUME job[k].runs = "transfer"
            PROVE  \A v \in Users : j.delta[v] = Amounts(j)[v]
        <4>1. \A v \in Users : job[k].delta[v] = IF v = job[k].user THEN - job[k].amount ELSE 0
          BY <1>1, <3>2 DEF JobOK, Accounted
        <4> QED
          BY <2>2, <2>6, <3>2, <4>1 DEF Amounts
      <3>3. ASSUME job[k].runs # "transfer"
            PROVE  \A v \in Users : j.delta[v] = Amounts(j)[v]
        <4>1. \A v \in Users : job[k].delta[v] = 0
          BY <1>1, <3>3 DEF JobOK, Unwritten
        <4> QED
          BY <2>2, <2>6, <3>1, <3>3, <4>1 DEF Amounts
      <3> QED
        BY <2>2, <2>4, <2>6, <3>2, <3>3 DEF Accounted
    <2>11. JobOK(k)'
      BY <1>1, <2>4, <2>2, <2>6, <2>9, <2>10 DEF JobOK, Unwritten, FreeRun
    <2>12. \A v \in Users : j.delta[v] # 0 => owner'[v] = k
      BY <1>1, <2>3, <2>2 DEF IInv, TypeOK
    <2>13. Steps(k)
      BY <2>3, <2>4, <2>11, <2>12 DEF Steps
    <2> QED
      BY <2>13, TablesKeep DEF Add
  <1> QED
    BY <1>2, <1>3 DEF Add

LEMMA AmountsType ==
  ASSUME NEW j \in Jobs
  PROVE  Amounts(j) \in [Users -> Int]
  BY DEF Amounts, Jobs

LEMMA BookKeeps ==
  ASSUME IInv, NEW k \in Workers, Book(k)
  PROVE  IInv'
  <1> DEFINE u == job[k].user
             b == Amounts(job[k])
  <1>1. job[k] \in Jobs /\ u \in Users /\ JobOK(k) /\ job[k].at = "book"
    BY DEF IInv, TypeOK, Jobs, Book
  <1>2. b \in [Users -> Int]
    BY <1>1, AmountsType
  <1>3. PICK j \in Jobs : j = [job[k] EXCEPT !.at = "commit", !.book = b]
    BY <1>1, <1>2 DEF Jobs, Stages
  <1>4. job' = [job EXCEPT ![k] = j]
    BY <1>3 DEF IInv, TypeOK, Book
  <1>5. /\ job' \in [Workers -> Jobs] /\ job'[k] = j
        /\ \A l \in Workers \ {k} : Apart(l)
    BY <1>4, OneSteps DEF Book, IInv, TypeOK
  <1>6. /\ j.at = "commit" /\ j.runs = job[k].runs /\ j.amount = job[k].amount
        /\ j.delta = job[k].delta /\ j.book = b /\ j.user = u
        /\ j.awarded = job[k].awarded
    BY <1>1, <1>3 DEF Jobs
  <1>7. \A v \in Users \ odd : b[v] = job[k].delta[v]
    <2>1. CASE job[k].runs # "free"
      BY <1>1, <2>1 DEF JobOK, Accounted
    <2>2. CASE job[k].runs = "free"
      <3>1. \A v \in Users : job[k].delta[v] = 0
        BY <1>1, <2>2 DEF JobOK, Unwritten
      <3>2. /\ u \notin odd => job[k].amount = 0
            /\ job[k].awarded = 0 /\ job[k].amount \in Int
        BY <1>1, <2>2 DEF JobOK, FreeRun, Accounted, Jobs
      <3>3. \A v \in Users : b[v] = IF v = u THEN job[k].awarded - job[k].amount ELSE 0
        BY <2>2 DEF Amounts
      <3> QED
        BY <3>1, <3>2, <3>3
    <2> QED
      BY <2>1, <2>2
  <1>8. JobOK(k)'
    BY <1>1, <1>5, <1>6, <1>7 DEF JobOK, Unwritten, FreeRun, Accounted, Covered, Book
  <1>9. Steps(k)
    BY <1>5, <1>6, <1>8 DEF Steps, Book, IInv, TypeOK
  <1> QED
    BY <1>9, TablesKeep DEF Book

LEMMA CommitKeeps ==
  ASSUME IInv, NEW k \in Workers, Commit(k)
  PROVE  IInv'
  <1> DEFINE d == job[k].delta
             b == job[k].book
  <1>1. /\ job[k] \in Jobs /\ d \in [Users -> Int] /\ b \in [Users -> Int]
        /\ JobOK(k) /\ job[k].at = "commit"
    BY DEF IInv, TypeOK, Jobs, Commit
  <1>2. \A u \in Users : gems[u] \in Int /\ journal[u] \in Int /\ unmatched[u] \in Int
                           /\ least[u] \in Int /\ d[u] \in Int /\ b[u] \in Int
    BY <1>1 DEF IInv, TypeOK
  <1>3. /\ gems' = [u \in Users |-> gems[u] + d[u]]
        /\ journal' = [u \in Users |-> journal[u] + b[u]]
        /\ UNCHANGED <<unmatched, least, odd, ops>>
    BY DEF Commit
  <1>4. \A u \in Users : owner[u] # k => gems'[u] = gems[u]
    BY <1>2, <1>3 DEF IInv, TypeOK
  <1>5. Steps(k)
    BY <1>3, <1>4, RollbackSteps DEF Commit, IInv
  <1>6. /\ \A l \in Workers : JobOK(l)'
        /\ \A l \in Workers, u \in Users : job'[l].delta[u] # 0 => owner'[u] = l
    BY <1>5, StepsKeep DEF IInv
  <1>7. gems' \in [Users -> Int] /\ journal' \in [Users -> Int]
    BY <1>2, <1>3
  <1>8. TypeOK'
    BY <1>3, <1>5, <1>6, <1>7 DEF IInv, TypeOK, Steps
  \* What is written was covered, and what is booked is what is written.
  <1>9. NoDebt'
    <2> SUFFICES ASSUME NEW u \in Users
                 PROVE  gems'[u] >= least[u]
      BY <1>3 DEF NoDebt
    <2>1. gems'[u] = gems[u] + d[u] /\ least[u] <= 0 /\ gems[u] >= least[u]
      BY <1>3 DEF IInv, NoDebt
    <2>2. d[u] >= 0 \/ gems[u] + d[u] >= 0
      BY <1>1 DEF JobOK, Covered
    <2> QED
      BY <1>2, <2>1, <2>2
  <1>10. Booked'
    <2> SUFFICES ASSUME NEW u \in Users \ odd
                 PROVE  gems'[u] = StartGems + journal'[u] + unmatched[u]
      BY <1>3 DEF Booked
    <2>1. gems'[u] = gems[u] + d[u] /\ journal'[u] = journal[u] + b[u]
      BY <1>3
    <2>2. b[u] = d[u] /\ gems[u] = StartGems + journal[u] + unmatched[u]
      BY <1>1 DEF JobOK, IInv, Booked
    <2>3. /\ gems[u] \in Int /\ journal[u] \in Int /\ unmatched[u] \in Int
          /\ d[u] \in Int /\ StartGems \in Int
      <3>1. u \in Users /\ StartGems \in Int
        BY LedgerAssumption
      <3> HIDE DEF d, b
      <3> QED
        BY <1>2, <3>1
    <2> HIDE DEF d, b
    <2> QED
      BY <2>1, <2>2, <2>3
  <1> QED
    BY <1>3, <1>6, <1>8, <1>9, <1>10 DEF IInv

LEMMA AbortKeeps ==
  ASSUME IInv, NEW k \in Workers, Abort(k)
  PROVE  IInv'
  <1>1. Steps(k)
    BY RollbackSteps DEF Abort, IInv
  <1> QED
    BY <1>1, TablesKeep DEF Abort

\* A statement of its own meets no row of a transaction.
LEMMA StatementKeeps ==
  ASSUME IInv, NEW u \in Users, NEW value \in Int, Statement(u, value),
         least' \in [Users -> Int],
         \A v \in Users : least'[v] <= least[v],
         value >= least'[u]
  PROVE  IInv'
  <1>1. /\ gems' = [gems EXCEPT ![u] = value] /\ owner[u] = NoOne
        /\ unmatched' = [unmatched EXCEPT ![u] = @ + value - gems[u]]
        /\ UNCHANGED <<journal, owner, job, odd>>
        /\ ops < MaxOps /\ ops' = ops + 1
    BY DEF Statement
  <1>2. \A v \in Users : gems[v] \in Int /\ journal[v] \in Int /\ unmatched[v] \in Int
                           /\ least[v] \in Int
    BY DEF IInv, TypeOK
  <1>3. \A l \in Workers : Apart(l)
    BY <1>1, LedgerAssumption DEF Apart, IInv, TypeOK
  <1>4. \A l \in Workers : JobOK(l)'
    BY <1>3, ApartKeeps DEF IInv
  <1>5. /\ gems' \in [Users -> Int] /\ unmatched' \in [Users -> Int]
        /\ ops' \in 0 .. MaxOps
    BY <1>1, <1>2, LedgerAssumption DEF IInv, TypeOK
  <1>6. TypeOK'
    BY <1>1, <1>5 DEF IInv, TypeOK
  <1>7. NoDebt'
    BY <1>1, <1>2 DEF IInv, TypeOK, NoDebt
  <1>8. Booked'
    <2> SUFFICES ASSUME NEW v \in Users \ odd
                 PROVE  gems'[v] = StartGems + journal[v] + unmatched'[v]
      BY <1>1 DEF Booked
    <2>1. gems[v] = StartGems + journal[v] + unmatched[v]
      BY DEF IInv, Booked
    <2>2. CASE v = u
      <3>1. gems'[v] = value /\ unmatched'[v] = unmatched[v] + value - gems[v]
        BY <1>1, <2>2 DEF IInv, TypeOK
      <3> QED
        BY <1>2, <2>1, <3>1, LedgerAssumption
    <2>3. CASE v # u
      BY <1>1, <2>1, <2>3 DEF IInv, TypeOK
    <2> QED
      BY <2>2, <2>3
  <1>9. \A v \in Users : least'[v] <= 0
    BY <1>2 DEF IInv
  <1> QED
    BY <1>4, <1>6, <1>7, <1>8, <1>9 DEF IInv

LEMMA AdminStatementKeeps ==
  ASSUME IInv, NEW u \in Users, NEW value \in Int, AdminStatement(u, value)
  PROVE  IInv'
  <1>1. /\ least' = [least EXCEPT ![u] = IF value < @ THEN value ELSE @]
        /\ least \in [Users -> Int] /\ Statement(u, value)
    BY DEF AdminStatement, IInv, TypeOK
  <1>2. /\ least' \in [Users -> Int]
        /\ \A v \in Users : least'[v] <= least[v]
        /\ value >= least'[u]
    BY <1>1
  <1> QED
    BY <1>1, <1>2, StatementKeeps

LEMMA CommandKeeps ==
  ASSUME IInv, NEW u \in Users, AdminCommand(u)
  PROVE  IInv'
  <1>1. gems[u] \in Int /\ Deltas \subseteq Int
    BY LedgerAssumption DEF IInv, TypeOK
  <1>2. ASSUME NEW amount \in Deltas, AddUserGems(u, amount) \/ SetUserGems(u, amount)
        PROVE  IInv'
    <2>1. amount \in Int /\ gems[u] + amount \in Int
      BY <1>1
    <2> QED
      BY <1>2, <2>1, AdminStatementKeeps DEF AddUserGems, SetUserGems
  <1>3. CASE BanUser(u) \/ UnbanUser(u)
    <2>1. -1 \in Int /\ 0 \in Int
      OBVIOUS
    <2> QED
      BY <1>3, <2>1, AdminStatementKeeps DEF BanUser, UnbanUser
  <1> QED
    BY <1>2, <1>3 DEF AdminCommand, handleAddGems, handleSetGems

LEMMA ClaimBonusKeeps ==
  ASSUME IInv, NEW u \in Users, ClaimBonus(u)
  PROVE  IInv'
  <1>1. /\ gems[u] \in Int /\ BonusGems \in Nat /\ least \in [Users -> Int]
        /\ gems[u] >= least[u] /\ least' = least /\ Statement(u, gems[u] + BonusGems)
    BY LedgerAssumption DEF IInv, TypeOK, NoDebt, ClaimBonus
  <1>2. gems[u] + BonusGems \in Int /\ gems[u] + BonusGems >= least'[u]
    BY <1>1
  <1>3. \A v \in Users : least'[v] <= least[v]
    BY <1>1
  <1> QED
    BY <1>1, <1>2, <1>3, StatementKeeps

LEMMA UpdateGemsKeeps ==
  ASSUME IInv, NEW u \in Users, NEW delta \in Deltas, UpdateGems(u, delta)
  PROVE  IInv'
  <1>1. /\ gems[u] \in Int /\ delta \in Int /\ least \in [Users -> Int] /\ least[u] <= 0
        /\ gems[u] + delta >= 0 /\ least' = least /\ Statement(u, gems[u] + delta)
    BY LedgerAssumption DEF IInv, TypeOK, UpdateGems
  <1>2. gems[u] + delta \in Int /\ gems[u] + delta >= least'[u]
    BY <1>1
  <1>3. \A v \in Users : least'[v] <= least[v]
    BY <1>1
  <1> QED
    BY <1>1, <1>2, <1>3, StatementKeeps

LEMMA AddHistoryKeeps ==
  ASSUME IInv, NEW u \in Users, NEW amount \in Deltas, AddHistory(u, amount)
  PROVE  IInv'
  <1>1. /\ journal' = [journal EXCEPT ![u] = @ + amount]
        /\ unmatched' = [unmatched EXCEPT ![u] = @ - amount]
        /\ UNCHANGED <<gems, owner, job, least, odd>>
        /\ ops < MaxOps /\ ops' = ops + 1
    BY DEF AddHistory
  <1>2. \A v \in Users : gems[v] \in Int /\ journal[v] \in Int /\ unmatched[v] \in Int
    BY DEF IInv, TypeOK
  <1>3. amount \in Int
    BY LedgerAssumption
  <1>4. \A l \in Workers : Apart(l)
    BY <1>1 DEF Apart
  <1>5. \A l \in Workers : JobOK(l)'
    BY <1>4, ApartKeeps DEF IInv
  <1>6. /\ journal' \in [Users -> Int] /\ unmatched' \in [Users -> Int]
        /\ ops' \in 0 .. MaxOps
    BY <1>1, <1>2, <1>3, LedgerAssumption DEF IInv, TypeOK
  <1>7. TypeOK'
    BY <1>1, <1>6 DEF IInv, TypeOK
  <1>8. \A v \in Users : journal'[v] + unmatched'[v] = journal[v] + unmatched[v]
    BY <1>1, <1>2, <1>3 DEF IInv, TypeOK
  <1>9. \A v \in Users : journal'[v] \in Int /\ unmatched'[v] \in Int
    BY <1>6
  <1>10. Booked'
    BY <1>1, <1>2, <1>8, <1>9, LedgerAssumption DEF IInv, Booked
  <1> QED
    BY <1>1, <1>5, <1>7, <1>10 DEF IInv, NoDebt

-----------------------------------------------------------------------------
(* Row locks.  A transaction that waits has no row, or is a transfer that  *)
(* has the lower of its two.                                               *)

HasNone(k) == \A u \in Users : owner[u] # k

HeldOK(k) ==
  /\ job[k].at \in {"idle", "lock"} => HasNone(k)
  /\ job[k].at = "add" /\ job[k].runs # "transfer" => HasNone(k)
  /\ job[k].at = "second" =>
       job[k].runs = "transfer" /\ \A u \in Users : owner[u] = k => u = FirstRow(job[k])
  /\ job[k].runs = "transfer" /\ job[k].at \in {"take", "add"} => owner[job[k].to] = k

HeldInv == \A k \in Workers : HeldOK(k)

\* A step leaves the transaction of l alone, with exactly the rows it has.
Still(l) == job'[l] = job[l] /\ \A u \in Users : owner'[u] = l <=> owner[u] = l

LEMMA StillKeeps ==
  ASSUME TypeOK, NEW l \in Workers, HeldOK(l), Still(l)
  PROVE  HeldOK(l)'
  <1>1. job[l].to \in Users
    BY DEF TypeOK, Jobs
  <1>2. HasNone(l) => HasNone(l)'
    BY DEF HasNone, Still
  <1> QED
    BY <1>1, <1>2 DEF HeldOK, Still

LEMMA OthersHeld ==
  ASSUME TypeOK, HeldInv, NEW k \in Workers, HeldOK(k)',
         \A l \in Workers \ {k} : Still(l)
  PROVE  HeldInv'
  BY StillKeeps DEF HeldInv

LEMMA RollbackHeld ==
  ASSUME TypeOK, HeldInv, NEW k \in Workers, Rollback(k)
  PROVE  HeldInv'
  <1>1. Idle.at = "idle" /\ Idle.runs = "free"
    BY IdleType
  <1>2. job'[k] = Idle /\ \A l \in Workers \ {k} : job'[l] = job[l]
    BY DEF Rollback, TypeOK
  <1>3. \A u \in Users : owner'[u] = IF owner[u] = k THEN NoOne ELSE owner[u]
    BY DEF Rollback, Released
  <1>4. \A l \in Workers \ {k} : Still(l)
    BY <1>2, <1>3, LedgerAssumption DEF Still
  <1>5. HasNone(k)'
    BY <1>3, LedgerAssumption DEF HasNone
  <1>6. HeldOK(k)'
    BY <1>1, <1>2, <1>5 DEF HeldOK
  <1> QED
    BY <1>4, <1>6, OthersHeld

\* What a transaction that goes on looks like: its stage is new, its program
\* and users are not.
Goes(k, stage) ==
  /\ job'[k].at = stage /\ job'[k].runs = job[k].runs
  /\ job'[k].user = job[k].user /\ job'[k].to = job[k].to
  /\ \A l \in Workers \ {k} : job'[l] = job[l]

LEMMA StageGoes ==
  ASSUME TypeOK, NEW k \in Workers, NEW stage \in Stages,
         job' = [job EXCEPT ![k].at = stage]
  PROVE  Goes(k, stage)
  BY DEF TypeOK, Jobs, Goes

LEMMA ChangeGoes ==
  ASSUME TypeOK, NEW k \in Workers, NEW u \in Users, NEW amount, NEW stage \in Stages,
         Change(k, u, amount, stage)
  PROVE  Goes(k, stage)
  <1> DEFINE d == [job[k].delta EXCEPT ![u] = @ + amount]
             j == [job[k] EXCEPT !.at = stage, !.delta = d]
  <1>1. job[k] \in Jobs
    BY DEF TypeOK
  <1>2. job' = [job EXCEPT ![k] = j]
    BY <1>1 DEF TypeOK, Change, Jobs
  <1> HIDE DEF d
  <1>3. j.at = stage /\ j.runs = job[k].runs /\ j.user = job[k].user /\ j.to = job[k].to
    BY <1>1 DEF Jobs
  <1> HIDE DEF j
  <1> QED
    BY <1>2, <1>3 DEF Goes, TypeOK

\* A transaction locks a row that is free, and goes on.
LEMMA OwnHolds ==
  ASSUME TypeOK, NEW k \in Workers, NEW u \in Users, NEW stage, Goes(k, stage),
         Free(u, k), Own(u, k)
  PROVE  /\ \A l \in Workers \ {k} : Still(l)
         /\ \A v \in Users : owner'[v] = k <=> v = u \/ owner[v] = k
  BY LedgerAssumption DEF TypeOK, Goes, Still, Free, Own

LEMMA LockRowHeld ==
  ASSUME TypeOK, HeldInv, NEW k \in Workers, LockRow(k)
  PROVE  HeldInv'
  <1>1. PICK u \in Users : u = FirstRow(job[k])
    BY DEF TypeOK, Jobs, FirstRow
  <1>2. Free(u, k) /\ HasNone(k)
    BY <1>1 DEF LockRow, HeldInv, HeldOK
  <1>3. CASE Rollback(k)
    BY <1>3, RollbackHeld
  <1>4. CASE job[k].runs = "transfer" /\ job' = [job EXCEPT ![k].at = "second"] /\ Own(u, k)
    <2>1. Goes(k, "second")
      BY <1>4, StageGoes DEF Stages
    <2>2. /\ \A l \in Workers \ {k} : Still(l)
          /\ \A v \in Users : owner'[v] = k <=> v = u \/ owner[v] = k
      BY <1>2, <1>4, <2>1, OwnHolds
    <2>3. FirstRow(job'[k]) = u
      BY <1>1, <2>1 DEF FirstRow, Goes
    <2>4. HeldOK(k)'
      BY <1>2, <1>4, <2>1, <2>2, <2>3 DEF HeldOK, HasNone, Goes
    <2> QED
      BY <2>2, <2>4, OthersHeld
  <1>5. CASE job[k].runs # "transfer" /\ job' = [job EXCEPT ![k].at = "take"] /\ Own(u, k)
    <2>1. Goes(k, "take")
      BY <1>5, StageGoes DEF Stages
    <2>2. \A l \in Workers \ {k} : Still(l)
      BY <1>2, <1>5, <2>1, OwnHolds
    <2>3. HeldOK(k)'
      BY <1>5, <2>1 DEF HeldOK, Goes
    <2> QED
      BY <2>2, <2>3, OthersHeld
  <1> QED
    BY <1>1, <1>3, <1>4, <1>5 DEF LockRow

LEMMA LockSecondRowHeld ==
  ASSUME IInv, HeldInv, NEW k \in Workers, LockSecondRow(k)
  PROVE  HeldInv'
  <1>0. TypeOK
    BY DEF IInv
  <1>1. PICK u \in Users : u = SecondRow(job[k])
    BY <1>0 DEF TypeOK, Jobs, SecondRow, FirstRow
  <1>2. /\ Free(u, k) /\ job[k].runs = "transfer"
        /\ owner[FirstRow(job[k])] = k
        /\ job[k].to \in Users
    BY <1>0, <1>1 DEF LockSecondRow, HeldInv, HeldOK, IInv, JobOK, TypeOK, Jobs
  <1>3. CASE Rollback(k)
    BY <1>0, <1>3, RollbackHeld
  <1>4. CASE job' = [job EXCEPT ![k].at = "take"] /\ Own(u, k)
    <2>1. Goes(k, "take")
      BY <1>0, <1>4, StageGoes DEF Stages
    <2>2. /\ \A l \in Workers \ {k} : Still(l)
          /\ \A v \in Users : owner'[v] = k <=> v = u \/ owner[v] = k
      BY <1>0, <1>2, <1>4, <2>1, OwnHolds
    \* One of the two rows is the receiver's.
    <2>3. job[k].to = u \/ owner[job[k].to] = k
      BY <1>1, <1>2 DEF FirstRow, SecondRow
    <2>4. HeldOK(k)'
      BY <1>2, <2>1, <2>2, <2>3 DEF HeldOK, Goes
    <2> QED
      BY <1>0, <2>2, <2>4, OthersHeld
  <1> QED
    BY <1>1, <1>3, <1>4 DEF LockSecondRow

\* A statement on rows that the transaction has, or on none.
LEMMA GoesHeld ==
  ASSUME TypeOK, HeldInv, NEW k \in Workers, NEW stage \in {"award", "book", "commit", "add"},
         Goes(k, stage), owner' = owner,
         stage = "add" => job[k].runs = "transfer" /\ owner[job[k].to] = k
  PROVE  HeldInv'
  <1>1. \A l \in Workers \ {k} : Still(l)
    BY DEF Goes, Still
  <1>2. HeldOK(k)'
    BY DEF HeldOK, Goes
  <1> QED
    BY <1>1, <1>2, OthersHeld

LEMMA TakeHeld ==
  ASSUME TypeOK, HeldInv, NEW k \in Workers, Take(k)
  PROVE  HeldInv'
  <1> DEFINE next == CASE job[k].runs = "game" -> "award" [] job[k].runs = "transfer" -> "add"
                       [] OTHER -> "book"
  <1>1. PICK stage \in Stages : stage = next
    BY DEF Stages
  <1>2. stage \in {"award", "book", "add"} /\ (stage = "add" => job[k].runs = "transfer")
    BY <1>1
  <1>3. job[k].user \in Users
    BY DEF TypeOK, Jobs
  <1>4. Change(k, job[k].user, - job[k].amount, stage)
    BY <1>1 DEF Take
  <1>5. Goes(k, stage)
    BY <1>3, <1>4, ChangeGoes
  <1>6. stage = "add" => owner[job[k].to] = k
    BY <1>2 DEF Take, HeldInv, HeldOK
  <1> QED
    BY <1>2, <1>5, <1>6, GoesHeld DEF Take

LEMMA AwardHeld ==
  ASSUME TypeOK, HeldInv, NEW k \in Workers, Award(k)
  PROVE  HeldInv'
  <1>1. PICK prize \in Nat : \E j \in Jobs : Awarded(k, j, job[k].user, prize)
    BY AwardWrites
  <1>2. Goes(k, "book")
    BY <1>1 DEF Awarded, Goes, TypeOK
  <1> QED
    BY <1>2, GoesHeld DEF Award

LEMMA AddHeld ==
  ASSUME TypeOK, HeldInv, NEW k \in Workers, Add(k)
  PROVE  HeldInv'
  <1>1. job[k].to \in Users /\ "book" \in Stages /\ Free(job[k].to, k)
    BY DEF TypeOK, Jobs, Stages, Add
  <1>2. CASE Rollback(k)
    BY <1>2, RollbackHeld
  <1>3. CASE Change(k, job[k].to, job[k].amount, "book") /\ Own(job[k].to, k)
    <2>1. Goes(k, "book")
      BY <1>1, <1>3, ChangeGoes
    <2>2. \A l \in Workers \ {k} : Still(l)
      BY <1>1, <1>3, <2>1, OwnHolds
    <2>3. HeldOK(k)'
      BY <2>1 DEF HeldOK, Goes
    <2> QED
      BY <2>2, <2>3, OthersHeld
  <1> QED
    BY <1>2, <1>3 DEF Add

LEMMA BookHeld ==
  ASSUME TypeOK, HeldInv, NEW k \in Workers, Book(k)
  PROVE  HeldInv'
  <1> DEFINE b == Amounts(job[k])
             j == [job[k] EXCEPT !.at = "commit", !.book = b]
  <1>1. job[k] \in Jobs
    BY DEF TypeOK
  <1>2. job' = [job EXCEPT ![k] = j]
    BY <1>1 DEF TypeOK, Book
  <1> HIDE DEF b
  <1>3. j.at = "commit" /\ j.runs = job[k].runs /\ j.user = job[k].user /\ j.to = job[k].to
    BY <1>1 DEF Jobs
  <1> HIDE DEF j
  <1>4. Goes(k, "commit")
    BY <1>2, <1>3 DEF Goes, TypeOK
  <1> QED
    BY <1>4, GoesHeld DEF Book

LEMMA BeginHeld ==
  ASSUME TypeOK, HeldInv, NEW k \in Workers, NEW t, StartOK(t), Begin(k, t)
  PROVE  HeldInv'
  <1>1. /\ job'[k] = t /\ owner' = owner /\ HasNone(k)
        /\ \A l \in Workers \ {k} : job'[l] = job[l]
    BY DEF Begin, TypeOK, IsIdle, HeldInv, HeldOK
  <1>2. \A l \in Workers \ {k} : Still(l)
    BY <1>1 DEF Still
  <1>3. HeldOK(k)'
    BY <1>1 DEF HeldOK, HasNone, StartOK
  <1> QED
    BY <1>2, <1>3, OthersHeld

\* Who does not touch transactions and rows.
LEMMA SameHeld ==
  ASSUME TypeOK, HeldInv, job' = job, owner' = owner
  PROVE  HeldInv'
  BY DEF HeldInv, HeldOK, HasNone

LEMMA NextHeld == IInv /\ HeldInv /\ [Next]_vars => HeldInv'
  <1> SUFFICES ASSUME IInv, HeldInv, [Next]_vars
               PROVE  HeldInv'
    OBVIOUS
  <1>0. TypeOK
    BY DEF IInv
  <1>1. ASSUME NEW k \in Workers, Step(k)
        PROVE  HeldInv'
    <2>1. CASE LockRow(k) \/ LockSecondRow(k) \/ Take(k) \/ Award(k)
      BY <1>0, <2>1, LockRowHeld, LockSecondRowHeld, TakeHeld, AwardHeld
    <2>2. CASE Add(k) \/ Book(k)
      BY <1>0, <2>2, AddHeld, BookHeld
    <2>3. CASE Commit(k)
      BY <1>0, <2>3, RollbackHeld DEF Commit
    <2> QED
      BY <1>1, <2>1, <2>2, <2>3 DEF Step
  <1>2. ASSUME NEW k \in Workers, Abort(k)
        PROVE  HeldInv'
    BY <1>0, <1>2, RollbackHeld DEF Abort
  <1>3. ASSUME NEW k \in Workers, NEW u \in Users, Request(k, u)
        PROVE  HeldInv'
    BY <1>0, <1>3, RequestStarts, BeginHeld
  <1>4. ASSUME NEW u \in Users, AdminCommand(u) \/ ClaimBonus(u)
        PROVE  HeldInv'
    <2>1. job' = job /\ owner' = owner
      BY <1>4 DEF AdminCommand, handleAddGems, handleSetGems, AddUserGems, SetUserGems, BanUser,
                  UnbanUser, ClaimBonus, AdminStatement, Statement
    <2> QED
      BY <1>0, <2>1, SameHeld
  <1>5. ASSUME NEW u \in Users, NEW delta \in Deltas, UpdateGems(u, delta) \/ AddHistory(u, delta)
        PROVE  HeldInv'
    <2>1. job' = job /\ owner' = owner
      BY <1>5 DEF UpdateGems, AddHistory, Statement
    <2> QED
      BY <1>0, <2>1, SameHeld
  <1>6. CASE UNCHANGED vars
    BY <1>0, <1>6, SameHeld DEF vars
  <1> QED
    BY <1>1, <1>2, <1>3, <1>4, <1>5, <1>6 DEF Next

LEMMA InitHeld == Init => HeldInv
  <1> SUFFICES ASSUME Init
               PROVE  HeldInv
    OBVIOUS
  <1>1. \A k \in Workers : job[k] = Idle /\ HasNone(k)
    BY LedgerAssumption DEF Init, HasNone
  <1> QED
    BY <1>1, IdleType DEF HeldInv, HeldOK

\* A set of numbers up to a bound has a greatest.
LEMMA GreatestExists ==
  ASSUME NEW bound \in Nat, NEW S \in SUBSET (0 .. bound), S # {}
  PROVE  \E m \in S : \A n \in S : n <= m
  <1> DEFINE T == {t \in Nat : bound - t \in S}
             R == {ss \in Nat \X Nat : ss[1] < ss[2]}
  <1>1. PICK n \in S : TRUE
    OBVIOUS
  <1>2. n \in Nat /\ n <= bound /\ bound - n \in Nat /\ bound - (bound - n) = n
    BY <1>1
  <1>3. T \subseteq Nat /\ bound - n \in T
    BY <1>1, <1>2
  <1>4. OpToRel(<, Nat) = R
    BY Zenon DEF OpToRel
  <1>5. IsWellFoundedOn(R, Nat)
    BY NatLessThanWellFounded, <1>4, Zenon
  <1>6. \A i, j \in Nat : i < j => <<i, j>> \in R
    OBVIOUS
  <1>7. \A t \in T : t \in Nat /\ bound - t \in S
    OBVIOUS
  <1>8. \A i \in S : i \in Nat /\ bound - i \in Nat /\ bound - (bound - i) = i
    OBVIOUS
  <1>9. \A i \in S : bound - i \in T
    BY <1>8
  <1> HIDE DEF T, R
  <1>10. PICK t \in T : \A s \in T : ~ (<<s, t>> \in R)
    BY <1>3, <1>5, WFMin
  <1>11. \A s \in T : ~ (s < t)
    BY <1>3, <1>6, <1>10
  <1>12. bound - t \in S
    BY <1>7
  <1>13. ASSUME NEW i \in S
         PROVE  i <= bound - t
    <2>1. ~ (bound - i < t) /\ i \in Nat /\ t \in Nat
      BY <1>7, <1>8, <1>9, <1>11
    <2> QED
      BY <2>1
  <1> QED
    BY <1>12, <1>13

\* Who has the row that a transaction waits for, waits for a higher one.
LEMMA WaitsForHigher ==
  ASSUME IInv, HeldInv, NEW k \in Workers, Waits(k)
  PROVE  \E l \in Workers : /\ ~IsIdle(l)
                            /\ Waits(l) => Wanted(job[l]) > Wanted(job[k])
  <1>1. Wanted(job[k]) \in Users
    BY DEF IInv, TypeOK, Jobs, Wanted, FirstRow, SecondRow
  <1>2. PICK l \in Workers : l = owner[Wanted(job[k])] /\ l # k
    BY <1>1 DEF IInv, TypeOK, Waits, Free
  <1>3. ~HasNone(l)
    BY <1>1, <1>2 DEF HasNone
  <1>4. ~IsIdle(l)
    BY <1>3 DEF HeldInv, HeldOK, IsIdle
  <1>5. SUFFICES ASSUME Waits(l)
                 PROVE  Wanted(job[l]) > Wanted(job[k])
    BY <1>4
  <1>6. job[l].at = "second"
    <2>1. job[l].at # "lock"
      BY <1>3 DEF HeldInv, HeldOK
    <2>2. ASSUME job[l].at = "add"
          PROVE  FALSE
      <3>1. job[l].runs = "transfer" /\ owner[job[l].to] = l
        BY <1>3, <2>2 DEF HeldInv, HeldOK
      <3>2. Wanted(job[l]) = job[l].to
        BY <2>2 DEF Wanted
      <3> QED
        BY <1>5, <3>1, <3>2 DEF Waits, Free
    <2> QED
      BY <1>5, <2>1, <2>2 DEF Waits
  <1>7. job[l].runs = "transfer" /\ Wanted(job[k]) = FirstRow(job[l])
    BY <1>1, <1>2, <1>6 DEF HeldInv, HeldOK
  <1>8. Wanted(job[l]) = SecondRow(job[l]) /\ owner[Wanted(job[l])] # l
    BY <1>5, <1>6 DEF Wanted, Waits, Free
  <1>9. FirstRow(job[l]) # SecondRow(job[l])
    BY <1>2, <1>7, <1>8
  <1>10. job[l].user \in Nat /\ job[l].to \in Nat
    BY LedgerAssumption DEF IInv, TypeOK, Jobs
  <1>11. FirstRow(job[l]) < SecondRow(job[l])
    BY <1>7, <1>9, <1>10 DEF FirstRow, SecondRow
  <1> QED
    BY <1>7, <1>8, <1>11

-----------------------------------------------------------------------------
(* The theorems.                                                           *)

LEMMA InitHolds == Init => IInv
  <1> SUFFICES ASSUME Init
               PROVE  IInv
    OBVIOUS
  <1>1. \A k \in Workers : job[k] = Idle
    BY DEF Init
  <1>2. /\ Idle \in Jobs /\ Idle.at = "idle" /\ Idle.runs = "free"
        /\ Idle.awarded = 0 /\ \A u \in Users : Idle.delta[u] = 0
    BY IdleType, NoChangeType
  <1>3. TypeOK
    <2>1. /\ gems \in [Users -> Int]
          /\ owner \in [Users -> Workers \cup {NoOne}]
      BY LedgerAssumption DEF Init
    <2>2. journal \in [Users -> Int] /\ unmatched \in [Users -> Int] /\ least \in [Users -> Int]
      BY NoChangeType DEF Init
    <2>3. job \in [Workers -> Jobs]
      BY <1>2 DEF Init
    <2>4. odd \subseteq Users /\ ops \in 0 .. MaxOps
      BY LedgerAssumption DEF Init
    <2>5. \A k \in Workers, u \in Users : job[k].delta[u] = 0
      BY <1>1, <1>2
    <2> QED
      BY <2>1, <2>2, <2>3, <2>4, <2>5 DEF TypeOK
  <1>4. \A k \in Workers : JobOK(k)
    BY <1>1, <1>2 DEF JobOK, Covered, FreeRun, Accounted
  <1>5. /\ \A u \in Users : gems[u] = StartGems /\ journal[u] = 0 /\ unmatched[u] = 0 /\ least[u] = 0
        /\ StartGems \in Nat
    BY NoChangeType, LedgerAssumption DEF Init
  <1>6. NoDebt /\ Booked
    BY <1>5 DEF NoDebt, Booked
  <1> QED
    BY <1>3, <1>4, <1>5, <1>6 DEF IInv

LEMMA NextKeeps == IInv /\ [Next]_vars => IInv'
  <1> SUFFICES ASSUME IInv, [Next]_vars
               PROVE  IInv'
    OBVIOUS
  <1>1. ASSUME NEW k \in Workers, Step(k) \/ Abort(k)
        PROVE  IInv'
    BY <1>1, LockRowKeeps, LockSecondRowKeeps, TakeKeeps, AwardKeeps, AddKeeps, BookKeeps,
       CommitKeeps, AbortKeeps DEF Step
  <1>2. ASSUME NEW k \in Workers, NEW u \in Users, Request(k, u)
        PROVE  IInv'
    BY <1>2, RequestStarts, BeginKeeps
  <1>3. ASSUME NEW u \in Users, AdminCommand(u) \/ ClaimBonus(u)
        PROVE  IInv'
    BY <1>3, CommandKeeps, ClaimBonusKeeps
  <1>4. ASSUME NEW u \in Users, NEW delta \in Deltas, UpdateGems(u, delta) \/ AddHistory(u, delta)
        PROVE  IInv'
    BY <1>4, UpdateGemsKeeps, AddHistoryKeeps
  <1>5. CASE UNCHANGED vars
    <2>1. UNCHANGED <<gems, journal, unmatched, owner, job, least, odd, ops>>
      BY <1>5 DEF vars
    <2>2. \A l \in Workers : Apart(l)
      BY <2>1 DEF Apart
    <2>3. \A l \in Workers : JobOK(l)'
      BY <2>2, ApartKeeps DEF IInv
    <2> QED
      BY <2>1, <2>3 DEF IInv, TypeOK, NoDebt, Booked
  <1> QED
    BY <1>1, <1>2, <1>3, <1>4, <1>5 DEF Next

\* However transactions, statements and commands overlap, everything keeps
\* its type, and a row that a transaction has changed is its own.
THEOREM LedgerTypeCorrect == Spec => []TypeOK
  <1>1. IInv => TypeOK
    BY DEF IInv
  <1> QED
    BY <1>1, InitHolds, NextKeeps, PTL DEF Spec

\* No game, bet, transfer or adjustment takes a balance below zero or below
\* where an admin has put it: what was checked is still there at the commit.
THEOREM NoDebtHolds == Spec => []NoDebt
  <1>1. IInv => NoDebt
    BY DEF IInv
  <1> QED
    BY <1>1, InitHolds, NextKeeps, PTL DEF Spec

\* The journal accounts for every gem that a transaction moved.
THEOREM BookedHolds == Spec => []Booked
  <1>1. IInv => Booked
    BY DEF IInv
  <1> QED
    BY <1>1, InitHolds, NextKeeps, PTL DEF Spec
\* Transactions never wait for each other in a circle, however many they are
\* and whichever ways they transfer: some open one has all the rows that its
\* next statement needs.  Ids are bounded, as a column of 64 bits is.
THEOREM NoDeadlockHolds ==
  ASSUME NEW maxId \in Nat, Users \subseteq 0 .. maxId
  PROVE  Spec => []NoDeadlock
  <1>1. IInv /\ HeldInv => NoDeadlock
    <2> SUFFICES ASSUME IInv, HeldInv, NEW k \in Workers, ~IsIdle(k),
                        \A l \in Workers : ~IsIdle(l) => Waits(l)
                 PROVE  FALSE
      BY DEF NoDeadlock
    <2> DEFINE Open == {l \in Workers : ~IsIdle(l)}
               Rows == {Wanted(job[l]) : l \in Open}
    <2>1. \A l \in Workers : Wanted(job[l]) \in Users
      BY DEF IInv, TypeOK, Jobs, Wanted, FirstRow, SecondRow
    <2>2. Rows \in SUBSET (0 .. maxId) /\ Rows # {}
      BY <2>1
    <2> HIDE DEF Rows
    <2>3. PICK top \in Rows : \A u \in Rows : u <= top
      BY <2>2, GreatestExists
    <2>4. PICK l \in Workers : ~IsIdle(l) /\ Wanted(job[l]) = top
      BY DEF Rows
    <2>5. PICK o \in Workers : ~IsIdle(o) /\ Wanted(job[o]) > top
      BY <2>4, WaitsForHigher
    <2>6. Wanted(job[o]) \in Rows
      BY <2>5 DEF Rows
    <2>7. Wanted(job[o]) \in Nat /\ top \in Nat
      BY <2>1, <2>4, <2>5, LedgerAssumption
    <2>8. Wanted(job[o]) <= top
      BY <2>3, <2>6
    <2> QED
      BY <2>5, <2>7, <2>8
  <1> QED
    BY <1>1, InitHolds, NextKeeps, InitHeld, NextHeld, PTL DEF Spec
=============================================================================
