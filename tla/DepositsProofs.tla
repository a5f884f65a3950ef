---------------------------- MODULE DepositsProofs ----------------------------
(***************************************************************************)
(* Theorems about Deposits, for any number of users, transactions and      *)
(* requests, any payments, and any number of faults.                       *)
(***************************************************************************)
EXTENDS Deposits, TLAPS

-----------------------------------------------------------------------------
(* Typing.                                                                 *)

LEMMA IdleType == Idle \in Jobs /\ Idle.at = "idle" /\ Idle.user = Nobody
  BY DEF Idle, Jobs, Stages

\* Conversions give natural numbers.
LEMMA CoinsType ==
  ASSUME NEW nano \in Nat
  PROVE  NanoToCoins(nano) \in Nat /\ AdminCoins(nano) \in Nat
  <1>1. nano * 10 \in Nat /\ nano * 1000 \in Nat
    OBVIOUS
  <1>2. \A n \in Nat : n \div NanoTON \in Nat
    BY DepositsAssumption
  <1> QED
    BY <1>1, <1>2 DEF NanoToCoins, AdminCoins, CoinsPerTON

LEMMA GotoEffect ==
  ASSUME TypeOK, NEW k \in Workers, NEW stage \in Stages, Goto(k, stage)
  PROVE  /\ job' \in [Workers -> Jobs]
         /\ \A l \in Workers : l # k => job'[l] = job[l]
         /\ job'[k].at = stage /\ job'[k].user = job[k].user /\ job'[k].h = job[k].h
         /\ job'[k].nano = job[k].nano
  BY DEF Goto, TypeOK, Jobs

LEMMA ReturnEffect ==
  ASSUME TypeOK, NEW k \in Workers, Return(k)
  PROVE  /\ job' \in [Workers -> Jobs]
         /\ \A l \in Workers : l # k => job'[l] = job[l]
         /\ job'[k].at = "idle"
  BY IdleType DEF Return, TypeOK

\* The job of a goroutine.
JobOK(k) ==
  /\ job[k].at # "idle" => job[k].h \in Hashes
  /\ job[k].at \in {"create", "credit"} => job[k].user \in Users
  /\ job[k].at = "exists" /\ k # Watcher => job[k].user \in Users

LEMMA JobTyped == TypeOK => \A k \in Workers : JobOK(k) /\ job[k] \in Jobs
  BY DEF TypeOK, JobOK

\* One goroutine moves on, to no credit, and touches no table.
Moves(k) ==
  /\ job' \in [Workers -> Jobs]
  /\ \A l \in Workers : l # k => job'[l] = job[l]
  /\ job[k].at # "credit" /\ job'[k].at # "credit"
  /\ JobOK(k)'
  /\ UNCHANGED <<row, coins, credits, intact>>

LEMMA ReturnMoves ==
  ASSUME TypeOK, NEW k \in Workers, Return(k), job[k].at # "credit",
         UNCHANGED <<row, coins, credits, intact>>
  PROVE  Moves(k)
  BY ReturnEffect DEF Moves, JobOK

LEMMA GotoMoves ==
  ASSUME TypeOK, NEW k \in Workers, NEW stage \in {"create", "address"}, Goto(k, stage),
         job[k].at \notin {"idle", "credit"}, stage = "create" => job[k].user \in Users,
         UNCHANGED <<row, coins, credits, intact>>
  PROVE  Moves(k)
  BY GotoEffect, JobTyped DEF Moves, JobOK, Stages

LEMMA ToUserMoves ==
  ASSUME TypeOK, NEW k \in Workers, NEW u \in Users \cup {Stranger},
         job' = [job EXCEPT ![k].at = "user", ![k].user = u],
         job[k].at \notin {"idle", "credit"}, UNCHANGED <<row, coins, credits, intact>>
  PROVE  Moves(k)
  <1>1. job \in [Workers -> Jobs] /\ JobOK(k)
    BY JobTyped DEF TypeOK
  <1>2. /\ job' \in [Workers -> Jobs] /\ \A l \in Workers : l # k => job'[l] = job[l]
        /\ job'[k].at = "user" /\ job'[k].h = job[k].h
    BY <1>1 DEF Jobs, Stages
  <1> QED
    BY <1>1, <1>2 DEF Moves, JobOK

LEMMA ReadMoves ==
  ASSUME TypeOK, NEW k \in Workers, TxHashExists(k) \/ GetByAnyAddress(k) \/ GetByID(k)
  PROVE  Moves(k) /\ UNCHANGED <<chain, wallet, todo, faults>>
  <1>0. UNCHANGED <<row, coins, credits, intact, chain, wallet, todo, faults>>
        /\ job[k].at \in {"exists", "address", "user"}
    BY DEF TxHashExists, GetByAnyAddress, GetByID
  <1>1. CASE Return(k)
    BY <1>0, <1>1, ReturnMoves
  <1>2. CASE Goto(k, "create") /\ job[k].user \in Users
    BY <1>0, <1>2, GotoMoves
  <1>3. CASE Goto(k, "address")
    BY <1>0, <1>3, GotoMoves
  <1>4. CASE \E u \in Users \cup {Stranger} :
               job' = [job EXCEPT ![k].at = "user", ![k].user = u]
    BY <1>0, <1>4, ToUserMoves
  <1>5. CASE TxHashExists(k)
    <2>1. JobOK(k) /\ job[k].h \in Hashes
      BY <1>5, JobTyped DEF JobOK, TxHashExists
    <2>2. Payment[job[k].h].memo \in Users \cup {Nobody, Stranger}
      BY <2>1, DepositsAssumption
    <2>3. k # Watcher => job[k].user \in Users
      BY <1>5, <2>1 DEF JobOK, TxHashExists
    <2>4. \/ Return(k)
          \/ Goto(k, "create") /\ k # Watcher
          \/ Goto(k, "address")
          \/ /\ Payment[job[k].h].memo # Nobody
             /\ job' = [job EXCEPT ![k].at = "user", ![k].user = Payment[job[k].h].memo]
      BY <1>5 DEF TxHashExists
    <2> QED
      BY <1>0, <1>1, <1>2, <1>3, <1>4, <2>2, <2>3, <2>4
  <1>6. CASE GetByAnyAddress(k)
    BY <1>0, <1>1, <1>4, <1>6 DEF GetByAnyAddress
  <1>7. CASE GetByID(k)
    BY <1>0, <1>1, <1>2, <1>7 DEF GetByID, GoOnIf
  <1> QED
    BY <1>5, <1>6, <1>7

\* A new row.
LEMMA RowType ==
  ASSUME TypeOK, NEW k \in Workers, job[k].user \in Users
  PROVE  NewRow(k) \in Rows /\ NewRow(k).user = job[k].user
  <1>1. job[k].nano \in Nat
    BY DEF TypeOK, Jobs
  <1> QED
    BY <1>1, CoinsType DEF NewRow, Rows

\* Create writes one row, where there was none, or finds one.
LEMMA CreateEffect ==
  ASSUME TypeOK, NEW k \in Workers, Create(k)
  PROVE  LET h == job[k].h IN
         /\ job' \in [Workers -> Jobs] /\ \A l \in Workers : l # k => job'[l] = job[l]
         /\ job[k].at = "create" /\ h \in Hashes /\ job[k].user \in Users
         /\ UNCHANGED <<chain, wallet, coins, todo, credits, intact, faults>>
         /\ \/ row[h] # NoRow /\ job'[k].at = "idle" /\ UNCHANGED row
            \/ /\ row[h] = NoRow /\ row' = [row EXCEPT ![h] = NewRow(k)]
               /\ job'[k].at = "credit" /\ job'[k].h = h /\ job'[k].user = job[k].user
  <1>1. JobOK(k) /\ job[k].at = "create"
    BY JobTyped DEF Create
  <1>2. CASE row[job[k].h] # NoRow /\ Return(k) /\ UNCHANGED row
    BY <1>1, <1>2, ReturnEffect DEF Create, JobOK
  <1>3. CASE row[job[k].h] = NoRow /\ Goto(k, "credit") /\ row' = [row EXCEPT ![job[k].h] = NewRow(k)]
    BY <1>1, <1>3, GotoEffect DEF Create, JobOK, Stages
  <1> QED
    BY <1>2, <1>3 DEF Create

\* UpdateCoins credits the user of the job.
LEMMA CreditEffect ==
  ASSUME TypeOK, NEW k \in Workers, UpdateCoins(k)
  PROVE  LET h == job[k].h  u == job[k].user IN
         /\ job' \in [Workers -> Jobs] /\ \A l \in Workers : l # k => job'[l] = job[l]
         /\ job[k].at = "credit" /\ job'[k].at = "idle" /\ h \in Hashes /\ u \in Users
         /\ credits' = [credits EXCEPT ![h][u] = @ + 1]
         /\ coins' \in [Users -> Nat]
         /\ UNCHANGED <<chain, wallet, row, todo, intact, faults>>
  <1>1. JobOK(k) /\ job[k].at = "credit" /\ job[k].nano \in Nat
    BY JobTyped DEF UpdateCoins, Jobs
  <1>2. NanoToCoins(job[k].nano) \in Nat
    BY <1>1, CoinsType
  <1>3. coins' \in [Users -> Nat]
    BY <1>2 DEF UpdateCoins, TypeOK
  <1> QED
    BY <1>1, <1>3, ReturnEffect DEF UpdateCoins, JobOK

\* Every step keeps the types.
LEMMA TypeStep == TypeOK /\ [Next]_vars => TypeOK'
  <1> SUFFICES ASSUME TypeOK, [Next]_vars PROVE TypeOK'
    OBVIOUS
  <1> USE DEF vars
  <1>0. ASSUME NEW k \in Workers, job' \in [Workers -> Jobs], JobOK(k)',
               \A l \in Workers : l # k => job'[l] = job[l]
        PROVE  \A l \in Workers : JobOK(l)'
    BY <1>0, JobTyped DEF JobOK
  <1>1. ASSUME NEW h \in Hashes, Send(h) PROVE TypeOK'
    BY <1>1 DEF Send, TypeOK
  <1>2. ASSUME NEW u \in Users, NEW a \in Addresses, Link(u, a) PROVE TypeOK'
    BY <1>2 DEF Link, TypeOK
  <1>3. ASSUME NEW u \in Users, Unlink(u) PROVE TypeOK'
    BY <1>3 DEF Unlink, TypeOK
  <1>4. ASSUME Poll PROVE TypeOK'
    <2>1. chain \in Seq(Hashes) /\ Len(chain) \in Nat /\ Window \in Nat
      BY DepositsAssumption DEF TypeOK
    <2> DEFINE n == IF Len(chain) < Window THEN Len(chain) ELSE Window
    <2>2. n \in Nat /\ n <= Len(chain)
      BY <2>1
    <2> HIDE DEF n
    <2>3. \A i \in 1 .. n : chain[Len(chain) + 1 - i] \in Hashes
      BY <2>1, <2>2
    <2>4. [i \in 1 .. n |-> chain[Len(chain) + 1 - i]] \in Seq(Hashes)
      BY <2>2, <2>3
    <2>5. Fetched \in Seq(Hashes)
      BY <2>4 DEF Fetched, n
    <2> QED
      BY <1>4, <2>5 DEF Poll, TypeOK
  <1>5. ASSUME ProcessNext PROVE TypeOK'
    <2>1. Head(todo) \in Hashes /\ Tail(todo) \in Seq(Hashes)
      BY <1>5 DEF ProcessNext, TypeOK
    <2>2. Watcher \in Workers
      BY DEF Workers
    <2>3. [at |-> "exists", h |-> Head(todo), user |-> Nobody, nano |-> Payment[Head(todo)].nano] \in Jobs
      BY <2>1, DepositsAssumption DEF Jobs, Stages
    <2>4. job' \in [Workers -> Jobs] /\ \A l \in Workers : l # Watcher => job'[l] = job[l]
      BY <1>5, <2>2, <2>3 DEF ProcessNext, TypeOK
    <2>5. JobOK(Watcher)'
      BY <1>5, <2>1, <2>2 DEF ProcessNext, TypeOK, JobOK
    <2>6. \A l \in Workers : JobOK(l)'
      BY <1>0, <2>2, <2>4, <2>5
    <2> QED
      BY <1>5, <2>1, <2>4, <2>6 DEF ProcessNext, TypeOK, JobOK
  <1>6. ASSUME Restart PROVE TypeOK'
    BY <1>6, IdleType, DepositsAssumption DEF Restart, TypeOK
  <1>7. ASSUME NEW k \in Workers, TxHashExists(k) \/ GetByAnyAddress(k) \/ GetByID(k) PROVE TypeOK'
    <2>1. Moves(k) /\ UNCHANGED <<chain, wallet, todo, faults>>
      BY <1>7, ReadMoves
    <2>2. \A l \in Workers : JobOK(l)'
      BY <1>0, <2>1 DEF Moves
    <2> QED
      BY <2>1, <2>2 DEF Moves, TypeOK, JobOK
  <1>8. ASSUME NEW k \in Workers, Create(k) PROVE TypeOK'
    <2>1. NewRow(k) \in Rows
      BY <1>8, CreateEffect, RowType
    <2>2. UNCHANGED row \/ row' = [row EXCEPT ![job[k].h] = NewRow(k)]
      BY <1>8, CreateEffect
    <2>5. row' \in [Hashes -> Rows \cup {NoRow}]
      BY <2>1, <2>2 DEF TypeOK
    <2>3. JobOK(k)'
      BY <1>8, CreateEffect DEF JobOK
    <2>4. \A l \in Workers : JobOK(l)'
      BY <1>0, <1>8, <2>3, CreateEffect
    <2> QED
      BY <1>8, <2>4, <2>5, CreateEffect DEF TypeOK, JobOK
  <1>9. ASSUME NEW k \in Workers, UpdateCoins(k) PROVE TypeOK'
    <2>0. /\ credits' = [credits EXCEPT ![job[k].h][job[k].user] = @ + 1]
          /\ job[k].h \in Hashes /\ job[k].user \in Users
      BY <1>9, CreditEffect
    <2>1. credits' \in [Hashes -> [Users -> Nat]]
      BY <2>0 DEF TypeOK
    <2>2. JobOK(k)'
      BY <1>9, CreditEffect DEF JobOK
    <2>3. \A l \in Workers : JobOK(l)'
      BY <1>0, <1>9, <2>2, CreditEffect
    <2> QED
      BY <1>9, <2>1, <2>3, CreditEffect DEF TypeOK, JobOK
  <1>10. ASSUME NEW k \in Workers, StatementFails(k) PROVE TypeOK'
    <2>1. JobOK(k)'
      BY <1>10, ReturnEffect DEF StatementFails, JobOK
    <2>2. \A l \in Workers : JobOK(l)'
      BY <1>0, <1>10, <2>1, ReturnEffect DEF StatementFails
    <2>3. faults' \in 0 .. MaxFaults
      BY <1>10, DepositsAssumption DEF StatementFails, TypeOK
    <2> QED
      BY <1>10, <2>2, <2>3, ReturnEffect DEF StatementFails, TypeOK, JobOK
  <1>11. ASSUME NEW h \in TypedHashes, NEW u \in Users, NEW nano \in ManualNanos,
                CreateManualDeposit(h, u, nano)
         PROVE  TypeOK'
    <2>1. nano \in Nat /\ h \in Hashes /\ AdminCoins(nano) \in Nat
      BY CoinsType, DepositsAssumption
    <2> QED
      BY <1>11, <2>1 DEF CreateManualDeposit, TypeOK, Rows
  <1>12. ASSUME NEW h \in TypedHashes, NEW u \in Users, NEW nano \in ManualNanos, NEW k \in Requests,
                RecordManualDeposit(k, h, u, nano)
         PROVE  TypeOK'
    <2>1. nano \in Nat /\ h \in Hashes /\ k \in Workers
      BY DepositsAssumption DEF Workers
    <2>2. [at |-> "exists", h |-> h, user |-> u, nano |-> nano] \in Jobs
      BY <2>1 DEF Jobs, Stages
    <2>3. job' \in [Workers -> Jobs] /\ \A l \in Workers : l # k => job'[l] = job[l]
      BY <1>12, <2>1, <2>2 DEF RecordManualDeposit, TypeOK
    <2>4. JobOK(k)'
      BY <1>12, <2>1 DEF RecordManualDeposit, TypeOK, JobOK
    <2>5. \A l \in Workers : JobOK(l)'
      BY <1>0, <2>1, <2>3, <2>4
    <2> QED
      BY <1>12, <2>3, <2>5 DEF RecordManualDeposit, TypeOK, JobOK
  <1>13. CASE UNCHANGED vars
    BY <1>13 DEF TypeOK
  <1> QED
    BY <1>1, <1>2, <1>3, <1>4, <1>5, <1>6, <1>7, <1>8, <1>9, <1>10, <1>11, <1>12, <1>13
    DEF Next, Step

\* Every variable keeps its type, whatever is paid and recorded.
THEOREM DepositsTypeCorrect == Spec => []TypeOK
  <1>1. Init => TypeOK
    BY IdleType, DepositsAssumption DEF Init, TypeOK, NoCredit
  <1> QED
    BY <1>1, TypeStep, PTL DEF Spec

-----------------------------------------------------------------------------
(* Once, and to the owner.  A goroutine that is about to credit a          *)
(* transaction has inserted its row; the unique key makes it the only one, *)
(* and nothing was credited before.                                        *)

CreditInv ==
  /\ \A h \in Hashes : row[h] = NoRow => credits[h] = NoCredit
  /\ \A k \in Workers : job[k].at = "credit" =>
       /\ row[job[k].h] # NoRow /\ row[job[k].h].user = job[k].user
       /\ credits[job[k].h] = NoCredit
  /\ \A k, l \in Workers : job[k].at = "credit" /\ job[l].at = "credit" /\ job[k].h = job[l].h => k = l

\* No row is NoRow.
LEMMA RowIsNoNoRow == \A r \in Rows : r # NoRow
  BY DepositsAssumption DEF Rows

\* A step that starts no credit and writes no table keeps CreditInv.
LEMMA QuietStep ==
  ASSUME TypeOK, CreditInv, UNCHANGED <<row, credits>>,
         \A k \in Workers : job'[k] = job[k] \/ job'[k].at # "credit"
  PROVE  CreditInv'
  BY DEF CreditInv

\* Every step keeps credits to one per row.
LEMMA CreditStep == TypeOK /\ CreditInv /\ [Next]_vars => CreditInv'
  <1> SUFFICES ASSUME TypeOK, CreditInv, [Next]_vars PROVE CreditInv'
    OBVIOUS
  <1>1. CASE \/ \E h \in Hashes : Send(h)
             \/ \E u \in Users, a \in Addresses : Link(u, a)
             \/ \E u \in Users : Unlink(u)
             \/ Poll \/ UNCHANGED vars
    BY <1>1, QuietStep DEF Send, Link, Unlink, Poll, vars
  <1>2. CASE ProcessNext
    <2>1. \A k \in Workers : job'[k] = job[k] \/ job'[k].at # "credit"
      BY <1>2 DEF ProcessNext, TypeOK
    <2> QED
      BY <1>2, <2>1, QuietStep DEF ProcessNext
  <1>3. CASE Restart
    BY <1>3, IdleType, QuietStep DEF Restart
  <1>4. ASSUME NEW k \in Workers, TxHashExists(k) \/ GetByAnyAddress(k) \/ GetByID(k) PROVE CreditInv'
    BY <1>4, ReadMoves, QuietStep DEF Moves
  <1>5. ASSUME NEW k \in Workers, StatementFails(k) PROVE CreditInv'
    <2>1. \A l \in Workers : job'[l] = job[l] \/ job'[l].at # "credit"
      BY <1>5, ReturnEffect DEF StatementFails
    <2> QED
      BY <1>5, <2>1, QuietStep DEF StatementFails
  <1>6. ASSUME NEW k \in Workers, Create(k) PROVE CreditInv'
    <2> DEFINE g == job[k].h
    <2>0. g \in Hashes /\ job[k].user \in Users /\ UNCHANGED credits
      BY <1>6, CreateEffect
    <2>1. CASE row[g] # NoRow
      BY <1>6, <2>1, CreateEffect, QuietStep
    <2>2. CASE row[g] = NoRow
      <3>1. /\ row' = [row EXCEPT ![g] = NewRow(k)] /\ job'[k].at = "credit" /\ job'[k].h = g
            /\ job'[k].user = job[k].user /\ \A l \in Workers : l # k => job'[l] = job[l]
        BY <1>6, <2>2, CreateEffect
      <3>2. NewRow(k) # NoRow /\ NewRow(k).user = job[k].user
        BY <2>0, RowType, RowIsNoNoRow
      <3>3. row'[g] = NewRow(k) /\ \A h \in Hashes \ {g} : row'[h] = row[h]
        BY <2>0, <3>1 DEF TypeOK
      <3>4. \A l \in Workers : l # k /\ job[l].at = "credit" => job[l].h # g /\ job[l].h \in Hashes
        BY <2>2 DEF CreditInv, TypeOK
      <3>5. \A h \in Hashes : row'[h] = NoRow => credits'[h] = NoCredit
        BY <2>0, <3>2, <3>3 DEF CreditInv
      <3>6. \A l \in Workers : job'[l].at = "credit" =>
              /\ row'[job'[l].h] # NoRow /\ row'[job'[l].h].user = job'[l].user
              /\ credits'[job'[l].h] = NoCredit
        BY <2>0, <2>2, <3>1, <3>2, <3>3, <3>4 DEF CreditInv
      <3>7. \A l, m \in Workers :
              job'[l].at = "credit" /\ job'[m].at = "credit" /\ job'[l].h = job'[m].h => l = m
        BY <3>1, <3>4 DEF CreditInv
      <3> QED
        BY <3>5, <3>6, <3>7 DEF CreditInv
    <2> QED
      BY <2>1, <2>2
  <1>7. ASSUME NEW k \in Workers, UpdateCoins(k) PROVE CreditInv'
    <2> DEFINE g == job[k].h
    <2>1. /\ job[k].at = "credit" /\ job'[k].at = "idle" /\ g \in Hashes /\ UNCHANGED row
          /\ \A l \in Workers : l # k => job'[l] = job[l]
          /\ credits' = [credits EXCEPT ![g][job[k].user] = @ + 1]
      BY <1>7, CreditEffect
    <2>2. row[g] # NoRow /\ \A h \in Hashes \ {g} : credits'[h] = credits[h]
      BY <2>1 DEF CreditInv, TypeOK
    <2>3. \A l \in Workers : l # k /\ job[l].at = "credit" => job[l].h \in Hashes \ {g}
      BY <2>1 DEF CreditInv, TypeOK
    <2> QED
      BY <2>1, <2>2, <2>3 DEF CreditInv
  <1>8. ASSUME NEW h \in TypedHashes, NEW u \in Users, NEW nano \in ManualNanos,
               CreateManualDeposit(h, u, nano)
        PROVE  CreditInv'
    <2>1. /\ h \in Hashes /\ row[h] = NoRow /\ UNCHANGED job
          /\ [user |-> u, nano |-> nano, coins |-> AdminCoins(nano)] \in Rows
      BY <1>8, CoinsType, DepositsAssumption DEF CreateManualDeposit, Rows
    <2>2. row'[h] # NoRow
      BY <1>8, <2>1, RowIsNoNoRow DEF CreateManualDeposit, TypeOK
    <2>3. \A i \in Hashes \ {h} : row'[i] = row[i] /\ credits'[i] = credits[i]
      BY <1>8, <2>1 DEF CreateManualDeposit, TypeOK
    <2>4. \A l \in Workers : job[l].at = "credit" => job[l].h \in Hashes \ {h}
      BY <2>1 DEF CreditInv, TypeOK
    <2> QED
      BY <2>1, <2>2, <2>3, <2>4 DEF CreditInv
  <1>9. ASSUME NEW h \in TypedHashes, NEW u \in Users, NEW nano \in ManualNanos, NEW k \in Requests,
               RecordManualDeposit(k, h, u, nano)
        PROVE  CreditInv'
    <2>1. \A l \in Workers : job'[l] = job[l] \/ job'[l].at # "credit"
      BY <1>9 DEF RecordManualDeposit, TypeOK
    <2> QED
      BY <1>9, <2>1, QuietStep DEF RecordManualDeposit
  <1> QED
    BY <1>1, <1>2, <1>3, <1>4, <1>5, <1>6, <1>7, <1>8, <1>9 DEF Next, Step

LEMMA DepositInvHolds == Spec => [](TypeOK /\ CreditInv)
  <1>1. Init => TypeOK
    BY IdleType, DepositsAssumption DEF Init, TypeOK, NoCredit
  <1>2. Init => CreditInv
    BY IdleType DEF Init, CreditInv
  <1> QED
    BY <1>1, <1>2, TypeStep, CreditStep, PTL DEF Spec

-----------------------------------------------------------------------------
(* The refinement.                                                         *)

OwnerOf == [h \in Hashes |-> IF row[h] = NoRow THEN Nobody ELSE row[h].user]

\* A step that leaves the tables alone stutters.
LEMMA SameTables ==
  ASSUME UNCHANGED <<row, credits>>
  PROVE  UNCHANGED <<OwnerOf, credits>>
  BY DEF OwnerOf

\* A row that is written names the owner of its transaction and no other.
LEMMA NewOwner ==
  ASSUME TypeOK, NEW h \in Hashes, row[h] = NoRow, NEW r \in Rows, row' = [row EXCEPT ![h] = r]
  PROVE  OwnerOf[h] = Nobody /\ OwnerOf' = [OwnerOf EXCEPT ![h] = r.user]
  BY RowIsNoNoRow DEF OwnerOf, TypeOK

LEMMA TakeStep ==
  ASSUME NEW h \in Hashes, NEW u \in Users, OwnerOf[h] = Nobody,
         OwnerOf' = [OwnerOf EXCEPT ![h] = u], UNCHANGED credits
  PROVE  Promise!Next
  <1>1. Promise!Take(h, u)
    BY DEF Promise!Take, OwnerOf
  <1> QED
    BY <1>1 DEF Promise!Next

\* Every step takes a transaction, pays it, does both, or neither.
LEMMA PromiseStep ==
  TypeOK /\ CreditInv /\ [Next]_vars => [Promise!Next]_<<OwnerOf, credits>>
  <1> SUFFICES ASSUME TypeOK, CreditInv, [Next]_vars PROVE [Promise!Next]_<<OwnerOf, credits>>
    OBVIOUS
  <1>0. Promise!Unpaid = NoCredit
    BY DEF Promise!Unpaid, NoCredit
  <1>1. CASE UNCHANGED <<row, credits>>
    BY <1>1, SameTables
  <1>2. ASSUME NEW k \in Workers, Create(k) PROVE [Promise!Next]_<<OwnerOf, credits>>
    <2>1. CASE UNCHANGED row
      BY <1>1, <1>2, <2>1 DEF Create
    <2>2. CASE row[job[k].h] = NoRow /\ row' = [row EXCEPT ![job[k].h] = NewRow(k)]
      <3> DEFINE g == job[k].h  v == job[k].user  r == NewRow(k)
      <3>1. g \in Hashes /\ v \in Users /\ UNCHANGED credits
        BY <1>2, CreateEffect
      <3>2. r \in Rows /\ r.user = v
        BY <3>1, RowType
      <3>3. row[g] = NoRow /\ row' = [row EXCEPT ![g] = r]
        BY <2>2
      <3> HIDE DEF g, v, r
      <3>4. OwnerOf[g] = Nobody /\ OwnerOf' = [OwnerOf EXCEPT ![g] = r.user]
        BY <3>1, <3>2, <3>3, NewOwner
      <3>5. Promise!Next
        BY <3>1, <3>2, <3>4, TakeStep
      <3> QED
        BY <3>5
    <2> QED
      BY <1>2, <2>1, <2>2, CreateEffect
  <1>3. ASSUME NEW k \in Workers, UpdateCoins(k) PROVE [Promise!Next]_<<OwnerOf, credits>>
    <2> DEFINE g == job[k].h
    <2>1. /\ job[k].at = "credit" /\ g \in Hashes /\ job[k].user \in Users /\ UNCHANGED row
          /\ credits' = [credits EXCEPT ![g][job[k].user] = @ + 1]
      BY <1>3, CreditEffect
    <2>2. row[g] # NoRow /\ row[g].user = job[k].user /\ credits[g] = NoCredit
      BY <2>1 DEF CreditInv
    <2>3. OwnerOf[g] = job[k].user /\ UNCHANGED OwnerOf
      BY <2>1, <2>2 DEF OwnerOf
    <2>4. credits[g][job[k].user] + 1 = 1
      BY <2>1, <2>2 DEF NoCredit
    <2>5. credits' = [credits EXCEPT ![g][OwnerOf[g]] = 1]
      BY <2>1, <2>3, <2>4
    <2>6. OwnerOf[g] # Nobody
      BY <2>1, <2>3, DepositsAssumption
    <2>7. Promise!Pay(g)
      BY <1>0, <2>2, <2>3, <2>5, <2>6 DEF Promise!Pay, OwnerOf
    <2> QED
      BY <2>1, <2>7 DEF Promise!Next
  <1>4. ASSUME NEW h \in TypedHashes, NEW u \in Users, NEW nano \in ManualNanos,
               CreateManualDeposit(h, u, nano)
        PROVE  [Promise!Next]_<<OwnerOf, credits>>
    <2> DEFINE r == [user |-> u, nano |-> nano, coins |-> AdminCoins(nano)]
    <2>1. h \in Hashes /\ row[h] = NoRow /\ r \in Rows /\ row' = [row EXCEPT ![h] = r]
      BY <1>4, CoinsType, DepositsAssumption DEF CreateManualDeposit, Rows
    <2>2. r.user = u
      OBVIOUS
    <2> HIDE DEF r
    <2>3. OwnerOf[h] = Nobody /\ OwnerOf' = [OwnerOf EXCEPT ![h] = u]
      BY <2>1, <2>2, NewOwner
    <2>4. credits[h] = NoCredit
      BY <2>1 DEF CreditInv
    <2>5. credits[h][u] + 1 = 1
      BY <2>4 DEF NoCredit
    <2>6. credits' = [credits EXCEPT ![h][u] = 1]
      BY <1>4, <2>5 DEF CreateManualDeposit
    <2>7. Promise!TakeAndPay(h, u)
      BY <1>0, <2>3, <2>4, <2>6 DEF Promise!TakeAndPay, OwnerOf
    <2> QED
      BY <2>1, <2>7 DEF Promise!Next
  <1>5. CASE ~ \/ \E k \in Workers : Create(k) \/ UpdateCoins(k)
               \/ \E h \in TypedHashes, u \in Users, nano \in ManualNanos : CreateManualDeposit(h, u, nano)
    BY <1>1, <1>5 DEF Next, Step, vars, Send, Link, Unlink, Poll, ProcessNext, Restart, TxHashExists,
                      GetByAnyAddress, GetByID, StatementFails, RecordManualDeposit
  <1> QED
    BY <1>2, <1>3, <1>4, <1>5

\* A transaction is recorded for one user, for good, and its coins go to him,
\* once, whoever records it first and however often it is polled.
THEOREM DepositsKeepPromise == Spec => PromiseKept
  <1>1. Init => Promise!Init
    BY DEF Init, Promise!Init, Promise!Unpaid, NoCredit
  <1> QED
    BY <1>1, DepositInvHolds, PromiseStep, PTL DEF Spec, PromiseKept, Promise!Spec, OwnerOf

-----------------------------------------------------------------------------
(* Nothing is lost without a fault.                                        *)

\* A step of goroutines that credit nothing, which writes no table.
LEMMA QuietConfirmed ==
  ASSUME TypeOK, ConfirmedIsCredited, UNCHANGED <<row, credits>>, intact' \subseteq intact,
         \A k \in Workers : job[k].at = "credit" => job'[k] = job[k] \/ job[k].h \notin intact'
  PROVE  ConfirmedIsCredited'
  BY DEF ConfirmedIsCredited, Crediting

\* Every step keeps a confirmed deposit credited or on its way.
LEMMA ConfirmedStep == TypeOK /\ CreditInv /\ ConfirmedIsCredited /\ [Next]_vars => ConfirmedIsCredited'
  <1> SUFFICES ASSUME TypeOK, CreditInv, ConfirmedIsCredited, [Next]_vars PROVE ConfirmedIsCredited'
    OBVIOUS
  <1>1. CASE \/ \E h \in Hashes : Send(h)
             \/ \E u \in Users, a \in Addresses : Link(u, a)
             \/ \E u \in Users : Unlink(u)
             \/ Poll \/ UNCHANGED vars
    BY <1>1, QuietConfirmed DEF Send, Link, Unlink, Poll, vars
  <1>2. CASE ProcessNext
    <2>1. \A k \in Workers : job[k].at = "credit" => job'[k] = job[k]
      BY <1>2, IdleType DEF ProcessNext, TypeOK
    <2> QED
      BY <1>2, <2>1, QuietConfirmed DEF ProcessNext
  <1>3. CASE Restart
    BY <1>3, QuietConfirmed DEF Restart
  <1>4. ASSUME NEW k \in Workers, TxHashExists(k) \/ GetByAnyAddress(k) \/ GetByID(k)
        PROVE  ConfirmedIsCredited'
    BY <1>4, ReadMoves, QuietConfirmed DEF Moves
  <1>5. ASSUME NEW k \in Workers, StatementFails(k) PROVE ConfirmedIsCredited'
    <2>1. \A l \in Workers : l # k => job'[l] = job[l]
      BY <1>5, ReturnEffect DEF StatementFails
    <2>2. UNCHANGED <<row, credits>> /\ intact' \subseteq intact
          /\ (job[k].at = "credit" => job[k].h \notin intact')
      BY <1>5 DEF StatementFails
    <2> QED
      BY <2>1, <2>2, QuietConfirmed
  <1>6. ASSUME NEW k \in Workers, Create(k) PROVE ConfirmedIsCredited'
    <2> DEFINE g == job[k].h
    <2>0. /\ g \in Hashes /\ job[k].user \in Users /\ job[k].at = "create"
          /\ UNCHANGED <<credits, intact>> /\ \A l \in Workers : l # k => job'[l] = job[l]
      BY <1>6, CreateEffect
    <2>1. CASE UNCHANGED row
      BY <2>0, <2>1, QuietConfirmed
    <2>2. CASE row' = [row EXCEPT ![g] = NewRow(k)] /\ job'[k].at = "credit" /\ job'[k].h = g
      <3>2. \A h \in Hashes \ {g} : row'[h] = row[h]
        BY <2>0, <2>2 DEF TypeOK
      <3>3. \A h \in Hashes : Crediting(h) => Crediting(h)'
        BY <2>0 DEF Crediting
      <3>4. ASSUME NEW h \in intact', row'[h] # NoRow
            PROVE  credits'[h][row'[h].user] > 0 \/ Crediting(h)'
        <4>1. h \in Hashes /\ h \in intact
          BY <2>0, <3>4 DEF TypeOK
        <4>2. CASE h = g
          BY <2>2, <4>2 DEF Crediting
        <4>3. CASE h # g
          <5>1. row'[h] = row[h] /\ row[h] # NoRow
            BY <3>2, <3>4, <4>1, <4>3
          <5>2. credits[h][row[h].user] > 0 \/ Crediting(h)
            BY <4>1, <5>1 DEF ConfirmedIsCredited
          <5>3. credits'[h][row'[h].user] = credits[h][row[h].user]
            BY <2>0, <5>1
          <5> QED
            BY <3>3, <4>1, <5>2, <5>3
        <4> QED
          BY <4>2, <4>3
      <3> QED
        BY <3>4 DEF ConfirmedIsCredited
    <2> QED
      BY <1>6, <2>1, <2>2, CreateEffect
  <1>7. ASSUME NEW k \in Workers, UpdateCoins(k) PROVE ConfirmedIsCredited'
    <2> DEFINE g == job[k].h  u == job[k].user
    <2>1. /\ job[k].at = "credit" /\ g \in Hashes /\ u \in Users
          /\ UNCHANGED <<row, intact>> /\ \A l \in Workers : l # k => job'[l] = job[l]
          /\ credits' = [credits EXCEPT ![g][u] = @ + 1]
      BY <1>7, CreditEffect
    <2>2. row[g].user = u
      BY <2>1 DEF CreditInv
    <2>3. credits'[g][u] > 0 /\ \A h \in Hashes \ {g} : credits'[h] = credits[h]
      BY <2>1 DEF TypeOK
    <2>4. \A h \in Hashes \ {g} : Crediting(h) => Crediting(h)'
      BY <2>1 DEF Crediting
    <2> QED
      BY <2>1, <2>2, <2>3, <2>4 DEF ConfirmedIsCredited, TypeOK
  <1>8. ASSUME NEW h \in TypedHashes, NEW u \in Users, NEW nano \in ManualNanos,
               CreateManualDeposit(h, u, nano)
        PROVE  ConfirmedIsCredited'
    <2>1. h \in Hashes /\ UNCHANGED <<job, intact>> /\ row'[h].user = u
      BY <1>8, DepositsAssumption DEF CreateManualDeposit, TypeOK
    <2>2. \A i \in Hashes \ {h} : row'[i] = row[i] /\ credits'[i] = credits[i]
      BY <1>8, <2>1 DEF CreateManualDeposit, TypeOK
    <2>3. credits'[h][u] > 0
      BY <1>8, <2>1 DEF CreateManualDeposit, TypeOK
    <2>4. \A i \in Hashes : Crediting(i) => Crediting(i)'
      BY <2>1 DEF Crediting
    <2> QED
      BY <2>1, <2>2, <2>3, <2>4 DEF ConfirmedIsCredited, TypeOK
  <1>9. ASSUME NEW h \in TypedHashes, NEW u \in Users, NEW nano \in ManualNanos, NEW k \in Requests,
               RecordManualDeposit(k, h, u, nano)
        PROVE  ConfirmedIsCredited'
    <2>1. \A l \in Workers : job[l].at = "credit" => job'[l] = job[l]
      BY <1>9, IdleType DEF RecordManualDeposit, TypeOK
    <2> QED
      BY <1>9, <2>1, QuietConfirmed DEF RecordManualDeposit
  <1> QED
    BY <1>1, <1>2, <1>3, <1>4, <1>5, <1>6, <1>7, <1>8, <1>9 DEF Next, Step

\* A confirmed deposit whose transaction met no failure or restart between
\* the row and the coins has been credited, or is being credited.
THEOREM ConfirmedIsCreditedHolds == Spec => []ConfirmedIsCredited
  <1>1. Init => TypeOK
    BY IdleType, DepositsAssumption DEF Init, TypeOK, NoCredit
  <1>2. Init => CreditInv /\ ConfirmedIsCredited
    BY IdleType DEF Init, CreditInv, ConfirmedIsCredited
  <1> QED
    BY <1>1, <1>2, TypeStep, CreditStep, ConfirmedStep, PTL DEF Spec
=============================================================================
