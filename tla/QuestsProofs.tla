----------------------------- MODULE QuestsProofs -----------------------------
(***************************************************************************)
(* Theorems about Quests, for any users, quests, targets, recordings and   *)
(* claims, any number of days and of faults.                               *)
(***************************************************************************)
EXTENDS Quests, WellFoundedInduction, TLAPS

-----------------------------------------------------------------------------
(* Typing.                                                                 *)

\* A set of numbers has a least one: Current is well defined.
LEMMA Least ==
  ASSUME NEW S \in SUBSET Nat, S # {}
  PROVE  \E m \in S : \A n \in S : m <= n
  <1> DEFINE R == {ss \in Nat \X Nat : ss[1] < ss[2]}
  <1>1. OpToRel(<, Nat) = R
    BY Zenon DEF OpToRel
  <1>2. IsWellFoundedOn(R, Nat)
    BY NatLessThanWellFounded, <1>1, Zenon
  <1>3. \A n, k \in Nat : n < k => <<n, k>> \in R
    OBVIOUS
  <1> HIDE DEF R
  <1>4. PICK m \in S : \A n \in S : ~ (<<n, m>> \in R)
    BY <1>2, WFMin
  <1>5. \A n \in S : ~(n < m)
    BY <1>3, <1>4
  <1> QED
    BY <1>5

\* What a recording knows.
JobOK(g) ==
  /\ AtWork(g) => job[g].user \in Users
  /\ \A q \in job[g].todo : quest[q] # "none"
  /\ job[g].at \in {"insert", "write"} => job[g].todo # {}
  /\ job[g].at = "write" => job[g].id \in RowIds

TypeInv == TypeOK /\ \A g \in Games : JobOK(g)

LEMMA CurrentType ==
  ASSUME TypeOK, NEW g \in Games, job[g].todo # {}
  PROVE  Current(g) \in job[g].todo /\ Current(g) \in Quests
  <1>1. job[g].todo \in SUBSET Quests
    BY DEF TypeOK, Jobs
  <1>2. \E q \in job[g].todo : \A p \in job[g].todo : q <= p
    BY <1>1, Least, QuestsAssumption
  <1> QED
    BY <1>1, <1>2 DEF Current

LEMMA DaysType == 0 \in Days
  BY QuestsAssumption DEF Days

LEMMA NewJobType ==
  /\ NewJob \in Jobs /\ NewJob.at = "new" /\ NewJob.todo = {}
  /\ [NewJob EXCEPT !.at = "over"] \in Jobs
  /\ [NewJob EXCEPT !.at = "over"].at = "over"
  /\ [NewJob EXCEPT !.at = "over"].todo = {}
  BY DaysType DEF NewJob, Jobs, GameStages

\* One recording moves to job j; the others stay.
MovesTo(g, j) ==
  /\ j \in Jobs
  /\ job' = [job EXCEPT ![g] = j]

LEMMA MoveKeeps ==
  ASSUME TypeInv, NEW g \in Games, NEW j, MovesTo(g, j),
         \A q \in Quests : quest[q] # "none" => quest'[q] # "none",
         j.at \notin {"new", "over"} => j.user \in Users,
         \A q \in j.todo : quest'[q] # "none",
         j.at \in {"insert", "write"} => j.todo # {},
         j.at = "write" => j.id \in RowIds
  PROVE  job' \in [Games -> Jobs] /\ \A h \in Games : JobOK(h)'
  <1>1. /\ job' \in [Games -> Jobs] /\ job'[g] = j
        /\ \A h \in Games : h # g => job'[h] = job[h]
    BY DEF MovesTo, TypeInv, TypeOK
  <1>2. \A h \in Games : job[h].todo \in SUBSET Quests
    BY DEF TypeInv, TypeOK, Jobs
  <1>3. ASSUME NEW h \in Games, h # g
        PROVE  JobOK(h)'
    BY <1>1, <1>2, <1>3 DEF TypeInv, JobOK, AtWork
  <1>4. JobOK(g)'
    BY <1>1 DEF JobOK, AtWork
  <1> QED
    BY <1>1, <1>3, <1>4

\* The recording leaves its quest.
LEMMA LeaveMoves ==
  ASSUME TypeInv, NEW g \in Games, AtWork(g), job' = Leave(g, "next"),
         quest' = quest
  PROVE  job' \in [Games -> Jobs] /\ \A h \in Games : JobOK(h)'
  <1> DEFINE t == job[g].todo \ {Current(g)}
             j == [job[g] EXCEPT !.at = "next", !.todo = t, !.id = NoId, !.count = 0, !.day = 0]
  <1>1. job[g] \in Jobs /\ JobOK(g) /\ t \in SUBSET Quests /\ t \subseteq job[g].todo
    BY DEF TypeInv, TypeOK, Jobs
  <1>2. job' = [job EXCEPT ![g] = j]
    BY <1>1 DEF TypeInv, TypeOK, Jobs, Leave
  <1> HIDE DEF t
  <1>3. /\ j \in Jobs /\ j.at = "next" /\ j.todo = t /\ j.user = job[g].user
    BY <1>1, DaysType DEF Jobs, GameStages, NoId
  <1> HIDE DEF j
  <1>4. MovesTo(g, j)
    BY <1>2, <1>3 DEF MovesTo
  <1> QED
    BY <1>1, <1>3, <1>4, MoveKeeps DEF JobOK, AtWork

\* Rows are written, not added, and keep their keys.
RowsStay ==
  /\ row' \in [RowIds -> Rows \cup {NoRow}]
  /\ \A r \in RowIds : row'[r] # NoRow => row[r] # NoRow /\ row'[r].key = row[r].key

LEMMA RowsStayTyped ==
  ASSUME TypeOK, RowsStay, rows' = rows, quest' = quest
  PROVE  /\ \A r \in RowIds : row'[r] # NoRow =>
                r <= rows' /\ quest'[row'[r].key[2]] \in {"active", "hidden"}
         /\ \A r, s \in RowIds :
                row'[r] # NoRow /\ row'[s] # NoRow /\ row'[r].key = row'[s].key => r = s
  BY DEF TypeOK, RowsStay

LEMMA RowType ==
  ASSUME TypeOK, NEW r \in RowIds, row[r] # NoRow
  PROVE  /\ row[r] \in Rows /\ row[r].key \in Keys /\ row[r].key[1] \in Users
         /\ row[r].key[2] \in Quests
  BY DEF TypeOK, Rows, Keys

-----------------------------------------------------------------------------
(* Every action keeps the types.                                           *)

LEMMA RecordGameTyped ==
  ASSUME TypeInv, NEW g \in Games, NEW u \in Users, NEW result \in Results, RecordGame(g, u, result)
  PROVE  TypeInv'
  <1> DEFINE t == {q \in Quests : quest[q] = "active" /\ Matching(q, result)}
             j == [job[g] EXCEPT !.at = "next", !.user = u, !.result = result, !.todo = t]
  <1>1. /\ job[g] \in Jobs /\ t \in SUBSET Quests /\ \A q \in t : quest[q] # "none"
        /\ UNCHANGED <<quest, deleting, row, rows, day, claim, taken, credits, played, faults>>
    BY DEF TypeInv, TypeOK, RecordGame, adminVars, rowVars, claimVars
  <1>2. job' = [job EXCEPT ![g] = j]
    BY <1>1 DEF TypeInv, TypeOK, RecordGame
  <1> HIDE DEF t
  <1>3. j \in Jobs /\ j.at = "next" /\ j.user = u /\ j.todo = t
    BY <1>1 DEF Jobs, GameStages
  <1> HIDE DEF j
  <1>4. job' \in [Games -> Jobs] /\ \A h \in Games : JobOK(h)'
    BY <1>1, <1>2, <1>3, MoveKeeps DEF MovesTo
  <1>5. lost' \subseteq Users
    BY DEF RecordGame, TypeInv, TypeOK
  <1> QED
    BY <1>1, <1>4, <1>5 DEF TypeInv, TypeOK

LEMMA FindProgressTyped ==
  ASSUME TypeInv, NEW g \in Games, FindProgress(g)
  PROVE  TypeInv'
  <1> DEFINE q == Current(g)
             key == <<job[g].user, q, PeriodStart(q)>>
  <1>1. /\ job[g] \in Jobs /\ JobOK(g) /\ AtWork(g) /\ job[g].todo # {}
        /\ UNCHANGED <<quest, deleting, row, rows, day, claim, taken, credits, lost, faults>>
    BY DEF TypeInv, TypeOK, FindProgress, AtWork, adminVars, rowVars, claimVars
  <1>2. q \in Quests /\ job[g].user \in Users /\ PeriodStart(q) \in Days
    BY <1>1, CurrentType, DaysType DEF TypeInv, TypeOK, JobOK, PeriodStart
  <1>3. key \in Keys /\ key[3] = PeriodStart(q)
    BY <1>2 DEF Keys
  <1>4. played' \in [Keys -> Nat]
    <2>1. played' = [played EXCEPT ![key] = @ + 1] \/ played' = played
      BY DEF FindProgress
    <2> HIDE DEF key
    <2> QED
      BY <1>3, <2>1 DEF TypeInv, TypeOK
  <1>5. job' \in [Games -> Jobs] /\ \A h \in Games : JobOK(h)'
    <2>1. CASE job' = Leave(g, "next")
      BY <1>1, <2>1, LeaveMoves
    <2>2. ASSUME NEW r \in RowsOf(key),
                 job' = [job EXCEPT ![g].at = "write", ![g].id = r,
                                    ![g].count = row[r].count, ![g].day = key[3]]
          PROVE  job' \in [Games -> Jobs] /\ \A h \in Games : JobOK(h)'
      <3> DEFINE j == [job[g] EXCEPT !.at = "write", !.id = r, !.count = row[r].count,
                                     !.day = PeriodStart(q)]
      <3>1. r \in RowIds /\ row[r].count \in Nat
        BY RowType DEF RowsOf, Rows, TypeInv
      <3>2. MovesTo(g, j) /\ j.at = "write" /\ j.id = r /\ j.user = job[g].user
              /\ j.todo = job[g].todo
        BY <1>1, <1>2, <1>3, <2>2, <3>1 DEF MovesTo, Jobs, GameStages, TypeInv, TypeOK
      <3> HIDE DEF j
      <3> QED
        BY <1>1, <1>2, <3>1, <3>2, MoveKeeps DEF JobOK
    <2>3. CASE job' = [job EXCEPT ![g].at = "insert", ![g].day = key[3]]
      <3> DEFINE j == [job[g] EXCEPT !.at = "insert", !.day = PeriodStart(q)]
      <3>1. MovesTo(g, j) /\ j.at = "insert" /\ j.user = job[g].user /\ j.todo = job[g].todo
        BY <1>1, <1>2, <1>3, <2>3 DEF MovesTo, Jobs, GameStages, TypeInv, TypeOK
      <3> HIDE DEF j
      <3> QED
        BY <1>1, <1>2, <3>1, MoveKeeps DEF JobOK
    <2> QED
      BY <2>1, <2>2, <2>3 DEF FindProgress
  <1> QED
    BY <1>1, <1>4, <1>5 DEF TypeInv, TypeOK

\* A new row.
NewRowOf(g) == [key |-> KeyOf(g), count |-> 0, done |-> FALSE, claimed |-> FALSE]

LEMMA InsertProgressTyped ==
  ASSUME TypeInv, NEW g \in Games, InsertProgress(g)
  PROVE  TypeInv'
  <1>1. /\ job[g] \in Jobs /\ JobOK(g) /\ AtWork(g) /\ job[g].todo # {}
        /\ UNCHANGED <<quest, deleting, day, claim, taken, credits, played, faults>>
    BY DEF TypeInv, TypeOK, JobOK, InsertProgress, AtWork, adminVars, claimVars
  <1>2. /\ Current(g) \in Quests /\ quest[Current(g)] # "none" /\ job[g].user \in Users
        /\ job[g].day \in Days
    BY <1>1, CurrentType DEF TypeInv, TypeOK, JobOK, Jobs
  <1>3. CASE /\ job' = Leave(g, "next")
             /\ lost' = lost \cup {job[g].user}
             /\ UNCHANGED rowVars
    BY <1>1, <1>2, <1>3, LeaveMoves DEF TypeInv, TypeOK, rowVars
  <1>4. CASE /\ RowsOf(KeyOf(g)) = {} /\ quest[Current(g)] # "deleted"
             /\ rows < MaxRows
             /\ rows' = rows + 1
             /\ row' = [row EXCEPT ![rows + 1] = NewRowOf(g)]
             /\ job' = [job EXCEPT ![g].at = "write", ![g].id = rows + 1, ![g].count = 0]
             /\ UNCHANGED lost
    <2> DEFINE n == rows + 1
               j == [job[g] EXCEPT !.at = "write", !.id = n, !.count = 0]
    <2>1. /\ n \in RowIds /\ rows' = n /\ n \in 0 .. MaxRows /\ \A r \in RowIds : r <= rows => r # n
      BY <1>4, QuestsAssumption DEF RowIds, TypeInv, TypeOK
    <2>2. /\ NewRowOf(g) \in Rows /\ NewRowOf(g).key = KeyOf(g) /\ KeyOf(g)[2] = Current(g)
      BY <1>2 DEF NewRowOf, Rows, KeyOf, Keys
    <2>3. /\ row' \in [RowIds -> Rows \cup {NoRow}] /\ row'[n] = NewRowOf(g)
          /\ \A r \in RowIds : r # n => row'[r] = row[r]
      BY <1>4, <2>1, <2>2 DEF TypeInv, TypeOK
    <2>4. \A r \in RowIds : row'[r] # NoRow =>
             r <= rows' /\ quest'[row'[r].key[2]] \in {"active", "hidden"}
      <3> SUFFICES ASSUME NEW r \in RowIds, row'[r] # NoRow
                   PROVE  r <= rows' /\ quest'[row'[r].key[2]] \in {"active", "hidden"}
        OBVIOUS
      <3>1. CASE r = n
        BY <1>1, <1>2, <1>4, <2>1, <2>2, <2>3, <3>1 DEF TypeInv, TypeOK, RowIds
      <3>2. CASE r # n
        BY <1>1, <1>4, <2>3, <3>2, QuestsAssumption DEF TypeInv, TypeOK, RowIds
      <3> QED
        BY <3>1, <3>2
    <2>5. \A r, s \in RowIds :
             row'[r] # NoRow /\ row'[s] # NoRow /\ row'[r].key = row'[s].key => r = s
      <3>1. \A r \in RowIds : row[r] # NoRow => row[r].key # KeyOf(g)
        BY <1>4 DEF RowsOf
      <3> QED
        BY <2>2, <2>3, <3>1 DEF TypeInv, TypeOK
    <2>6. MovesTo(g, j) /\ j.at = "write" /\ j.id = n /\ j.user = job[g].user
            /\ j.todo = job[g].todo
      BY <1>1, <1>4, <2>1 DEF MovesTo, Jobs, GameStages, TypeInv, TypeOK
    <2> HIDE DEF j
    <2>7. job' \in [Games -> Jobs] /\ \A h \in Games : JobOK(h)'
      BY <1>1, <1>2, <2>1, <2>6, MoveKeeps DEF JobOK
    <2> QED
      BY <1>1, <1>4, <2>1, <2>3, <2>4, <2>5, <2>7 DEF TypeInv, TypeOK
  <1> QED
    BY <1>3, <1>4 DEF InsertProgress, NewRowOf

LEMMA UpdateProgressTyped ==
  ASSUME TypeInv, NEW g \in Games, UpdateProgress(g)
  PROVE  TypeInv' /\ RowsStay /\ \A r \in RowIds : row'[r] # NoRow => row'[r].claimed = row[r].claimed
  <1> DEFINE r == job[g].id
             n == job[g].count + 1
             done == n >= Target[row[r].key[2]]
  <1>1. /\ job[g] \in Jobs /\ JobOK(g) /\ AtWork(g) /\ job[g].todo # {} /\ r \in RowIds
        /\ UNCHANGED <<quest, deleting, rows, day, claim, taken, credits, played, lost, faults>>
    BY DEF TypeInv, TypeOK, JobOK, UpdateProgress, AtWork, adminVars, claimVars
  <1>2. job' \in [Games -> Jobs] /\ \A h \in Games : JobOK(h)'
    BY <1>1, LeaveMoves DEF UpdateProgress
  <1>3. /\ RowsStay
        /\ \A s \in RowIds : row'[s] # NoRow => row'[s].claimed = row[s].claimed
    <2>1. CASE row[r] = NoRow
      BY <2>1 DEF UpdateProgress, RowsStay, TypeInv, TypeOK
    <2>2. CASE row[r] # NoRow
      <3> DEFINE new == [row[r] EXCEPT !.count = n, !.done = done]
      <3>1. row[r] \in Rows /\ n \in Nat /\ done \in BOOLEAN
        BY <1>1, <2>2, RowType DEF TypeInv, Jobs
      <3>2. row' = [row EXCEPT ![r] = new]
        BY <1>1, <2>2, <3>1 DEF UpdateProgress, TypeInv, TypeOK
      <3> HIDE DEF n, done
      <3>3. new \in Rows /\ new.key = row[r].key /\ new.claimed = row[r].claimed
        BY <3>1 DEF Rows
      <3> HIDE DEF new
      <3> QED
        BY <1>1, <2>2, <3>2, <3>3 DEF RowsStay, TypeInv, TypeOK
    <2> QED
      BY <2>1, <2>2
  <1> QED
    BY <1>1, <1>2, <1>3, RowsStayTyped DEF TypeInv, TypeOK, RowsStay

LEMMA RecordedTyped ==
  ASSUME TypeInv, NEW g \in Games, Recorded(g)
  PROVE  TypeInv'
  <1> DEFINE j == [NewJob EXCEPT !.at = "over"]
  <1>1. /\ job' = [job EXCEPT ![g] = j]
        /\ UNCHANGED <<quest, deleting, row, rows, day, claim, taken, credits, played, lost, faults>>
    BY DEF Recorded, adminVars, rowVars, claimVars
  <1>2. j \in Jobs /\ j.at = "over" /\ j.todo = {}
    BY NewJobType
  <1> HIDE DEF j
  <1>3. job' \in [Games -> Jobs] /\ \A h \in Games : JobOK(h)'
    BY <1>1, <1>2, MoveKeeps DEF MovesTo
  <1> QED
    BY <1>1, <1>3 DEF TypeInv, TypeOK

\* No recording moves, and a quest that is there stays there.
LEMMA JobsStay ==
  ASSUME TypeInv, job' = job, \A q \in Quests : quest[q] # "none" => quest'[q] # "none"
  PROVE  \A g \in Games : JobOK(g)'
  <1>1. \A g \in Games : job[g].todo \in SUBSET Quests
    BY DEF TypeInv, TypeOK, Jobs
  <1> QED
    BY <1>1 DEF TypeInv, JobOK, AtWork

LEMMA ClaimRewardTyped ==
  ASSUME TypeInv, NEW c \in Claims, NEW u \in Users, NEW r \in RowIds, ClaimReward(c, u, r)
  PROVE  /\ TypeInv' /\ RowsStay
         /\ \A s \in RowIds : row'[s] # NoRow =>
              IF s = r THEN row'[s].claimed = TRUE ELSE row'[s] = row[s]
         /\ claim' = [claim EXCEPT ![c] = [id |-> r, user |-> u]]
         /\ [id |-> r, user |-> u] \in ClaimJobs
  <1> DEFINE new == [row[r] EXCEPT !.claimed = TRUE]
  <1>1. /\ row[r] # NoRow
        /\ row' = [row EXCEPT ![r].claimed = TRUE]
        /\ claim' = [claim EXCEPT ![c] = [id |-> r, user |-> u]]
        /\ taken' = [taken EXCEPT ![r] = u]
        /\ UNCHANGED <<quest, deleting, rows, day, job, credits, played, lost, faults>>
    BY DEF ClaimReward, adminVars
  <1>2. row[r] \in Rows /\ row' = [row EXCEPT ![r] = new]
    BY <1>1, RowType DEF TypeInv, TypeOK
  <1>3. new \in Rows /\ new.key = row[r].key /\ new.claimed = TRUE
    BY <1>2 DEF Rows
  <1> HIDE DEF new
  <1>4. /\ RowsStay
        /\ \A s \in RowIds : row'[s] # NoRow =>
             IF s = r THEN row'[s].claimed = TRUE ELSE row'[s] = row[s]
    BY <1>1, <1>2, <1>3 DEF RowsStay, TypeInv, TypeOK
  <1>5. [id |-> r, user |-> u] \in ClaimJobs
    BY DEF ClaimJobs
  <1>6. claim' \in [Claims -> ClaimJobs] /\ taken' \in [RowIds -> Users \cup {Nobody}]
    BY <1>1, <1>5 DEF TypeInv, TypeOK
  <1>7. \A g \in Games : JobOK(g)'
    BY <1>1, JobsStay
  <1> QED
    BY <1>1, <1>4, <1>5, <1>6, <1>7, RowsStayTyped DEF TypeInv, TypeOK, RowsStay

LEMMA NoClaimType == NoClaim \in ClaimJobs /\ NoClaim.id = NoId
  BY DEF NoClaim, ClaimJobs

\* What a claim holds is a row and a user.
ClaimOK(c) == claim[c] # NoClaim => claim[c].id \in RowIds /\ claim[c].user \in Users

LEMMA CreditRewardTyped ==
  ASSUME TypeInv, NEW c \in Claims, ClaimOK(c), CreditReward(c)
  PROVE  TypeInv'
  <1> DEFINE r == claim[c].id
             u == claim[c].user
  <1>1. /\ r \in RowIds /\ u \in Users
        /\ credits' = [credits EXCEPT ![r][u] = @ + 1]
        /\ claim' = [claim EXCEPT ![c] = NoClaim]
        /\ UNCHANGED <<quest, deleting, row, rows, day, job, taken, played, lost, faults>>
    BY DEF CreditReward, ClaimOK, adminVars, rowVars
  <1>2. credits[r] \in [Users -> Nat]
    BY <1>1 DEF TypeInv, TypeOK
  <1>3. credits' = [credits EXCEPT ![r] = [credits[r] EXCEPT ![u] = @ + 1]]
    BY <1>1, <1>2 DEF TypeInv, TypeOK
  <1> HIDE DEF r, u
  <1>4. [credits[r] EXCEPT ![u] = @ + 1] \in [Users -> Nat]
    BY <1>1, <1>2
  <1>5. credits' \in [RowIds -> [Users -> Nat]] /\ claim' \in [Claims -> ClaimJobs]
    BY <1>1, <1>3, <1>4, NoClaimType DEF TypeInv, TypeOK
  <1>6. \A g \in Games : JobOK(g)'
    BY <1>1, JobsStay
  <1> QED
    BY <1>1, <1>5, <1>6 DEF TypeInv, TypeOK

LEMMA QuestCommandsTyped ==
  ASSUME TypeInv, NEW q \in Quests, CreateQuest(q) \/ ToggleQuestActive(q)
  PROVE  TypeInv' /\ UNCHANGED <<row, rows, claim, taken, credits>>
  <1>1. /\ UNCHANGED <<deleting, row, rows, day, job, claim, taken, credits, played, lost, faults>>
        /\ quest' \in [Quests -> {"none", "active", "hidden", "deleted"}]
        /\ \A p \in Quests : p # q => quest'[p] = quest[p]
        /\ quest'[q] \in {"active", "hidden"}
    BY DEF CreateQuest, ToggleQuestActive, TypeInv, TypeOK, rowVars, claimVars
  <1>2. \A g \in Games : JobOK(g)'
    BY <1>1, JobsStay
  <1>3. \A r \in RowIds : row[r] # NoRow => row[r].key[2] \in Quests
    BY RowType DEF TypeInv
  <1> QED
    BY <1>1, <1>2, <1>3 DEF TypeInv, TypeOK

LEMMA RowsGoneStay ==
  ASSUME TypeInv, NEW q \in Quests, RowsGone(q)
  PROVE  /\ RowsStay
         /\ \A r \in RowIds : row'[r] # NoRow => row'[r] = row[r] /\ row[r].key[2] # q
         /\ lost' \subseteq Users
  <1>1. row' \in [RowIds -> Rows \cup {NoRow}]
    BY DEF RowsGone, TypeInv, TypeOK
  <1>2. \A r \in RowIds : row'[r] # NoRow => row'[r] = row[r] /\ row[r].key[2] # q
    BY DEF RowsGone
  <1>3. lost' \subseteq Users
    BY DEF RowsGone, TypeInv, TypeOK
  <1> QED
    BY <1>1, <1>2, <1>3 DEF RowsStay

LEMMA DeleteProgressTyped ==
  ASSUME TypeInv, NEW q \in Quests, DeleteProgress(q)
  PROVE  TypeInv'
  <1>1. /\ RowsGone(q) /\ deleting' \subseteq Quests
        /\ UNCHANGED <<quest, rows, day, job, claim, taken, credits, played, faults>>
    BY DEF DeleteProgress, TypeInv, TypeOK, claimVars
  <1>2. \A g \in Games : JobOK(g)'
    BY <1>1, JobsStay
  <1> QED
    BY <1>1, <1>2, RowsGoneStay, RowsStayTyped DEF TypeInv, TypeOK, RowsStay

LEMMA DeleteQuestTyped ==
  ASSUME TypeInv, NEW q \in Quests, DeleteQuest(q)
  PROVE  TypeInv'
  <1>1. /\ RowsGone(q) /\ deleting' \subseteq Quests
        /\ quest' = [quest EXCEPT ![q] = "deleted"]
        /\ UNCHANGED <<rows, day, job, claim, taken, credits, played, faults>>
    BY DEF DeleteQuest, TypeInv, TypeOK, claimVars
  <1>2. /\ quest' \in [Quests -> {"none", "active", "hidden", "deleted"}]
        /\ \A p \in Quests : p # q => quest'[p] = quest[p]
        /\ quest'[q] = "deleted"
    BY <1>1 DEF TypeInv, TypeOK
  <1>3. \A g \in Games : JobOK(g)'
    BY <1>1, <1>2, JobsStay
  <1>4. /\ RowsStay /\ lost' \subseteq Users
        /\ \A r \in RowIds : row'[r] # NoRow => row'[r] = row[r] /\ row[r].key[2] # q
    BY <1>1, RowsGoneStay
  <1>5. \A r \in RowIds : row[r] # NoRow => row[r].key[2] \in Quests
    BY RowType DEF TypeInv
  <1>6. \A r \in RowIds : row'[r] # NoRow =>
             r <= rows' /\ quest'[row'[r].key[2]] \in {"active", "hidden"}
    BY <1>1, <1>2, <1>4, <1>5 DEF TypeInv, TypeOK, RowsStay
  <1>7. \A r, s \in RowIds :
             row'[r] # NoRow /\ row'[s] # NoRow /\ row'[r].key = row'[s].key => r = s
    BY <1>4 DEF TypeInv, TypeOK, RowsStay
  <1> QED
    BY <1>1, <1>2, <1>3, <1>4, <1>6, <1>7 DEF TypeInv, TypeOK, RowsStay

LEMMA NextDayTyped ==
  ASSUME TypeInv, NextDay
  PROVE  TypeInv'
  <1>1. /\ day' \in Days
        /\ UNCHANGED <<quest, deleting, row, rows, job, claim, taken, credits, played, lost, faults>>
    BY QuestsAssumption DEF NextDay, TypeInv, TypeOK, Days, adminVars, rowVars, claimVars
  <1>2. \A g \in Games : JobOK(g)'
    BY <1>1, JobsStay
  <1> QED
    BY <1>1, <1>2 DEF TypeInv, TypeOK

LEMMA FaultType ==
  ASSUME TypeInv, faults < MaxFaults
  PROVE  faults + 1 \in 0 .. MaxFaults
  BY QuestsAssumption DEF TypeInv, TypeOK

LEMMA RecordingFailsTyped ==
  ASSUME TypeInv, NEW g \in Games, RecordingFails(g)
  PROVE  TypeInv'
  <1>1. /\ AtWork(g) /\ job' = Leave(g, "next")
        /\ lost' = lost \cup {job[g].user} /\ faults' = faults + 1
        /\ UNCHANGED <<quest, deleting, row, rows, day, claim, taken, credits, played>>
    BY DEF RecordingFails, adminVars, rowVars, claimVars
  <1>2. job' \in [Games -> Jobs] /\ \A h \in Games : JobOK(h)'
    BY <1>1, LeaveMoves
  <1>3. faults' \in 0 .. MaxFaults /\ job[g].user \in Users
    BY <1>1, FaultType DEF RecordingFails, TypeInv, JobOK
  <1> QED
    BY <1>1, <1>2, <1>3 DEF TypeInv, TypeOK

LEMMA RestartTyped ==
  ASSUME TypeInv, Restart
  PROVE  TypeInv'
  <1> DEFINE over == [NewJob EXCEPT !.at = "over"]
  <1>1. /\ faults' = faults + 1 /\ deleting' = {}
        /\ lost' = lost \cup {job[g].user : g \in {g \in Games : AtWork(g)}}
        /\ job' = [g \in Games |-> IF AtWork(g) THEN over ELSE job[g]]
        /\ claim' = [c \in Claims |-> NoClaim]
        /\ UNCHANGED <<quest, row, rows, day, taken, credits, played>>
    BY DEF Restart, rowVars
  <1>2. over \in Jobs /\ over.at = "over" /\ over.todo = {}
    BY NewJobType
  <1> HIDE DEF over
  <1>3. job' \in [Games -> Jobs]
    BY <1>1, <1>2 DEF TypeInv, TypeOK
  <1>4. ASSUME NEW g \in Games
        PROVE  JobOK(g)'
    <2>1. CASE AtWork(g)
      BY <1>1, <1>2, <2>1 DEF JobOK, AtWork
    <2>2. CASE ~AtWork(g)
      BY <1>1, <2>2 DEF JobOK, AtWork, TypeInv
    <2> QED
      BY <2>1, <2>2
  <1>5. lost' \subseteq Users
    BY <1>1 DEF TypeInv, TypeOK, JobOK
  <1>6. faults' \in 0 .. MaxFaults
    BY <1>1, FaultType DEF Restart
  <1>7. claim' \in [Claims -> ClaimJobs]
    BY <1>1, NoClaimType
  <1> QED
    BY <1>1, <1>3, <1>4, <1>5, <1>6, <1>7 DEF TypeInv, TypeOK

-----------------------------------------------------------------------------
(* A claim holds the row it has marked: nobody else has it, and it is not  *)
(* paid.                                                                   *)

Unpaid == [u \in Users |-> 0]

\* A claim that is not answered yet.
Held(c) ==
  claim[c] # NoClaim =>
    /\ claim[c].id \in RowIds /\ claim[c].user \in Users
    /\ taken[claim[c].id] = claim[c].user
    /\ credits[claim[c].id] = Unpaid

ClaimInv ==
  /\ \A c \in Claims : Held(c)
  /\ \A c, d \in Claims : claim[c] # NoClaim /\ claim[d] # NoClaim /\ claim[c].id = claim[d].id
                            => c = d
  /\ \A r \in RowIds : row[r] # NoRow /\ ~row[r].claimed => taken[r] = Nobody
  /\ \A r \in RowIds : r > rows => taken[r] = Nobody
  /\ \A r \in RowIds : taken[r] = Nobody => credits[r] = Unpaid

IInv == TypeInv /\ ClaimInv

\* Claims stay, and a row that is there and unclaimed was so before.
LEMMA ClaimsStay ==
  ASSUME IInv, UNCHANGED <<claim, taken, credits>>, rows' >= rows, rows' \in Nat,
         \A r \in RowIds : row'[r] # NoRow /\ ~row'[r].claimed =>
                             (row[r] # NoRow /\ ~row[r].claimed) \/ r > rows
  PROVE  ClaimInv'
  <1>1. rows \in Nat /\ RowIds \subseteq Nat
    BY QuestsAssumption DEF IInv, TypeInv, TypeOK, RowIds
  <1>2. \A c \in Claims : Held(c)'
    BY DEF IInv, ClaimInv, Held
  <1>3. \A r \in RowIds : r > rows' => r > rows
    BY <1>1
  <1> QED
    BY <1>2, <1>3 DEF IInv, ClaimInv

LEMMA RowsUnchanged ==
  ASSUME IInv, UNCHANGED <<row, rows, claim, taken, credits>>
  PROVE  ClaimInv'
  <1>1. rows' >= rows /\ rows' \in Nat
    BY QuestsAssumption DEF IInv, TypeInv, TypeOK
  <1> QED
    BY <1>1, ClaimsStay

LEMMA ClaimRewardHolds ==
  ASSUME IInv, NEW c \in Claims, NEW u \in Users, NEW r \in RowIds, ClaimReward(c, u, r)
  PROVE  ClaimInv'
  <1> DEFINE new == [id |-> r, user |-> u]
  <1>1. /\ row[r] # NoRow /\ ~row[r].claimed /\ claim[c] = NoClaim
        /\ taken' = [taken EXCEPT ![r] = u] /\ taken \in [RowIds -> Users \cup {Nobody}]
        /\ UNCHANGED <<credits, rows>>
    BY DEF ClaimReward, IInv, TypeInv, TypeOK
  <1>2. /\ RowsStay
        /\ \A s \in RowIds : row'[s] # NoRow =>
             IF s = r THEN row'[s].claimed = TRUE ELSE row'[s] = row[s]
        /\ claim' = [claim EXCEPT ![c] = new] /\ claim \in [Claims -> ClaimJobs]
    <2>1. TypeInv /\ claim \in [Claims -> ClaimJobs]
      BY DEF IInv, TypeInv, TypeOK
    <2>2. /\ RowsStay
          /\ \A s \in RowIds : row'[s] # NoRow =>
               IF s = r THEN row'[s].claimed = TRUE ELSE row'[s] = row[s]
      BY <2>1, ClaimRewardTyped
    <2>3. claim' = [claim EXCEPT ![c] = new]
      BY DEF ClaimReward
    <2> QED
      BY <2>1, <2>2, <2>3
  <1>3. taken[r] = Nobody /\ credits[r] = Unpaid /\ r <= rows
    BY <1>1 DEF IInv, ClaimInv, TypeInv, TypeOK
  <1>4. /\ taken'[r] = u /\ \A s \in RowIds : s # r => taken'[s] = taken[s]
        /\ claim'[c] = new /\ \A d \in Claims : d # c => claim'[d] = claim[d]
    BY <1>1, <1>2
  \* The other claims hold other rows: theirs are taken.
  <1>5. \A d \in Claims : d # c /\ claim[d] # NoClaim => claim[d].id # r
    BY <1>3, QuestsAssumption DEF IInv, ClaimInv, Held
  <1>6. \A d \in Claims : Held(d)'
    <2> SUFFICES ASSUME NEW d \in Claims
                 PROVE  Held(d)'
      OBVIOUS
    <2>1. CASE d = c
      BY <1>1, <1>3, <1>4, <2>1 DEF Held, Unpaid
    <2>2. CASE d # c
      BY <1>1, <1>4, <1>5, <2>2 DEF Held, IInv, ClaimInv, Unpaid
    <2> QED
      BY <2>1, <2>2
  <1>7. \A d, e \in Claims : claim'[d] # NoClaim /\ claim'[e] # NoClaim
                               /\ claim'[d].id = claim'[e].id => d = e
    BY <1>4, <1>5 DEF IInv, ClaimInv
  <1>8. \A s \in RowIds : row'[s] # NoRow /\ ~row'[s].claimed => taken'[s] = Nobody
    BY <1>2, <1>4 DEF IInv, ClaimInv, RowsStay
  <1>9. \A s \in RowIds : s > rows' => taken'[s] = Nobody
    <2>1. ~(r > rows)
      BY <1>3, QuestsAssumption DEF IInv, TypeInv, TypeOK, RowIds
    <2> QED
      BY <1>1, <1>4, <2>1 DEF IInv, ClaimInv
  <1>10. \A s \in RowIds : taken'[s] = Nobody => credits'[s] = Unpaid
    BY <1>1, <1>4, QuestsAssumption DEF IInv, ClaimInv
  <1> QED
    BY <1>6, <1>7, <1>8, <1>9, <1>10 DEF ClaimInv, Unpaid

LEMMA CreditRewardHolds ==
  ASSUME IInv, NEW c \in Claims, CreditReward(c)
  PROVE  ClaimInv'
  <1> DEFINE r == claim[c].id
  <1>1. /\ claim[c] # NoClaim /\ r \in RowIds /\ taken[r] # Nobody
        /\ claim' = [claim EXCEPT ![c] = NoClaim] /\ claim \in [Claims -> ClaimJobs]
        /\ UNCHANGED <<row, rows, taken>>
    BY QuestsAssumption DEF CreditReward, IInv, ClaimInv, Held, TypeInv, TypeOK, rowVars
  <1>2. \A s \in RowIds : s # r => credits'[s] = credits[s]
    BY <1>1 DEF CreditReward, IInv, TypeInv, TypeOK
  <1>3. claim'[c] = NoClaim /\ \A d \in Claims : d # c => claim'[d] = claim[d]
    BY <1>1
  <1>4. \A d \in Claims : d # c /\ claim[d] # NoClaim => claim[d].id # r
    BY <1>1 DEF IInv, ClaimInv
  <1> HIDE DEF r
  <1>5. \A d \in Claims : Held(d)'
    BY <1>1, <1>2, <1>3, <1>4 DEF Held, IInv, ClaimInv, Unpaid
  <1>6. \A d, e \in Claims : claim'[d] # NoClaim /\ claim'[e] # NoClaim
                               /\ claim'[d].id = claim'[e].id => d = e
    BY <1>3 DEF IInv, ClaimInv
  <1>7. \A s \in RowIds : taken'[s] = Nobody => credits'[s] = Unpaid
    BY <1>1, <1>2 DEF IInv, ClaimInv
  <1> QED
    BY <1>1, <1>5, <1>6, <1>7 DEF IInv, ClaimInv, Unpaid

LEMMA InsertHolds ==
  ASSUME IInv, NEW g \in Games, InsertProgress(g)
  PROVE  ClaimInv'
  <1>1. UNCHANGED <<claim, taken, credits>> /\ rows \in Nat /\ RowIds \subseteq Nat
    BY QuestsAssumption DEF InsertProgress, claimVars, IInv, TypeInv, TypeOK, RowIds
  <1>2. CASE UNCHANGED rowVars
    BY <1>1, <1>2, RowsUnchanged DEF rowVars
  <1>3. CASE rows' = rows + 1 /\ row' = [row EXCEPT ![rows + 1] = NewRowOf(g)]
    <2>1. rows' >= rows /\ rows' \in Nat
      BY <1>1, <1>3
    <2>2. \A r \in RowIds : r # rows + 1 => row'[r] = row[r]
      BY <1>3 DEF IInv, TypeInv, TypeOK
    <2>3. \A r \in RowIds : r = rows + 1 => r > rows
      BY <1>1
    <2> QED
      BY <1>1, <2>1, <2>2, <2>3, ClaimsStay
  <1> QED
    BY <1>2, <1>3 DEF InsertProgress, NewRowOf

LEMMA NextHolds == IInv /\ [Next]_vars => IInv'
  <1> SUFFICES ASSUME IInv, [Next]_vars
               PROVE  IInv'
    OBVIOUS
  <1> USE DEF IInv
  <1>0. rows \in Nat /\ rows >= rows
    BY QuestsAssumption DEF TypeInv, TypeOK
  <1>1. ASSUME NEW g \in Games, Step(g) \/ RecordingFails(g)
        PROVE  IInv'
    <2>1. CASE FindProgress(g)
      BY <2>1, FindProgressTyped, RowsUnchanged DEF FindProgress, rowVars, claimVars
    <2>2. CASE InsertProgress(g)
      BY <2>2, InsertProgressTyped, InsertHolds
    <2>3. CASE UpdateProgress(g)
      <3>1. /\ TypeInv' /\ RowsStay
            /\ \A r \in RowIds : row'[r] # NoRow => row'[r].claimed = row[r].claimed
        BY <2>3, UpdateProgressTyped
      <3>2. UNCHANGED <<claim, taken, credits>> /\ rows' = rows
        BY <2>3 DEF UpdateProgress, claimVars
      <3> QED
        BY <1>0, <3>1, <3>2, ClaimsStay DEF RowsStay
    <2>4. CASE Recorded(g)
      BY <2>4, RecordedTyped, RowsUnchanged DEF Recorded, rowVars, claimVars
    <2>5. CASE RecordingFails(g)
      BY <2>5, RecordingFailsTyped, RowsUnchanged DEF RecordingFails, rowVars, claimVars
    <2> QED
      BY <1>1, <2>1, <2>2, <2>3, <2>4, <2>5 DEF Step
  <1>2. ASSUME NEW g \in Games, NEW u \in Users, NEW result \in Results, RecordGame(g, u, result)
        PROVE  IInv'
    BY <1>2, RecordGameTyped, RowsUnchanged DEF RecordGame, rowVars, claimVars
  <1>3. ASSUME NEW c \in Claims, CreditReward(c)
        PROVE  IInv'
    <2>1. ClaimOK(c)
      BY DEF ClaimOK, ClaimInv, Held
    <2> QED
      BY <1>3, <2>1, CreditRewardTyped, CreditRewardHolds
  <1>4. ASSUME NEW c \in Claims, NEW u \in Users, NEW r \in RowIds, ClaimReward(c, u, r)
        PROVE  IInv'
    BY <1>4, ClaimRewardTyped, ClaimRewardHolds
  <1>5. ASSUME NEW q \in Quests, CreateQuest(q) \/ ToggleQuestActive(q)
        PROVE  IInv'
    BY <1>5, QuestCommandsTyped, RowsUnchanged
  <1>6. ASSUME NEW q \in Quests, DeleteProgress(q) \/ DeleteQuest(q)
        PROVE  IInv'
    <2>1. RowsGone(q) /\ UNCHANGED <<rows, claim, taken, credits>>
      BY <1>6 DEF DeleteProgress, DeleteQuest, claimVars
    <2>2. \A r \in RowIds : row'[r] # NoRow => row'[r] = row[r]
      BY <2>1, RowsGoneStay
    <2>3. ClaimInv'
      BY <1>0, <2>1, <2>2, ClaimsStay
    <2> QED
      BY <1>6, <2>3, DeleteProgressTyped, DeleteQuestTyped
  <1>7. CASE NextDay
    BY <1>7, NextDayTyped, RowsUnchanged DEF NextDay, rowVars, claimVars
  <1>8. CASE Restart
    <2>1. /\ UNCHANGED <<row, rows, taken, credits>>
          /\ \A c \in Claims : claim'[c] = NoClaim
      BY <1>8 DEF Restart, rowVars
    <2>2. ClaimInv'
      BY <2>1 DEF ClaimInv, Held, Unpaid
    <2> QED
      BY <1>8, <2>2, RestartTyped
  <1>9. CASE UNCHANGED vars
    <2>1. /\ UNCHANGED <<quest, deleting, row, rows, day, job, claim, taken, credits, played>>
          /\ UNCHANGED <<lost, faults>>
      BY <1>9 DEF vars, adminVars, rowVars, claimVars
    <2>2. TypeInv'
      BY <2>1, JobsStay DEF TypeInv, TypeOK
    <2> QED
      BY <2>1, <2>2, RowsUnchanged
  <1> QED
    BY <1>1, <1>2, <1>3, <1>4, <1>5, <1>6, <1>7, <1>8, <1>9 DEF Next

LEMMA InitHolds == Init => IInv
  <1> SUFFICES ASSUME Init
               PROVE  IInv
    OBVIOUS
  <1>1. TypeOK
    BY DaysType, NewJobType, NoClaimType, QuestsAssumption DEF Init, TypeOK
  <1>2. \A g \in Games : JobOK(g)
    BY NewJobType DEF Init, JobOK, AtWork
  <1>3. ClaimInv
    BY DEF Init, ClaimInv, Held, Unpaid
  <1> QED
    BY <1>1, <1>2, <1>3 DEF IInv, TypeInv

LEMMA IInvHolds == Spec => []IInv
  BY InitHolds, NextHolds, PTL DEF Spec

-----------------------------------------------------------------------------
(* Progress and the games that were played.                                *)

\* What a row has to show for the games that were played.
RowPlayed(r) ==
  row[r] # NoRow =>
    /\ row[r].count <= played[row[r].key]
    /\ (row[r].done <=> row[r].count >= Target[row[r].key[2]])
    /\ (row[r].claimed => played[row[r].key] >= Target[row[r].key[2]])

\* A recording works on quests that count its game, and has counted it.
JobPlayed(g) ==
  /\ \A q \in job[g].todo : job[g].result \in Counts[q]
  /\ job[g].at = "insert" => played[KeyOf(g)] >= 1
  /\ job[g].at = "write" =>
       /\ played[KeyOf(g)] >= job[g].count + 1
       /\ job[g].id <= rows
       /\ (row[job[g].id] # NoRow => row[job[g].id].key = KeyOf(g))

\* Every game that counts is in the row, up to the target.
Exact(key) ==
  IF RowsOf(key) = {} THEN played[key] = 0
  ELSE \A r \in RowsOf(key) :
         row[r].count = IF played[key] < Target[key[2]] THEN played[key] ELSE Target[key[2]]

Mine(g, u) == AtWork(g) /\ job[g].user = u

\* A recording between its SELECT and its UPDATE lacks one game, its own.
Owes(g) == job[g].at \in {"insert", "write"}
Owed(g) ==
  /\ job[g].at = "insert" => RowsOf(KeyOf(g)) = {} /\ played[KeyOf(g)] = 1
  /\ job[g].at = "write" =>
       /\ row[job[g].id] # NoRow /\ row[job[g].id].count = job[g].count /\ ~row[job[g].id].done
       /\ played[KeyOf(g)] = job[g].count + 1

\* A user whose games did not overlap, and who has lost nothing.
ExactUser(u) ==
  /\ \A g, h \in Games : Mine(g, u) /\ Mine(h, u) => g = h
  /\ \A g \in Games : Mine(g, u) /\ Owes(g) => Owed(g)
  /\ \A key \in Keys : key[1] = u =>
       Exact(key) \/ \E g \in Games : Mine(g, u) /\ Owes(g) /\ KeyOf(g) = key

RowsPlayed == \A r \in RowIds : RowPlayed(r)
JobsPlayed == \A g \in Games : JobPlayed(g)
UsersExact == \A u \in Users \ lost : ExactUser(u)

PlayedInv == RowsPlayed /\ JobsPlayed /\ UsersExact

LEMMA KeyType ==
  ASSUME TypeInv, NEW g \in Games, Owes(g)
  PROVE  /\ KeyOf(g) \in Keys /\ KeyOf(g)[1] = job[g].user /\ KeyOf(g)[2] = Current(g)
         /\ KeyOf(g)[2] \in Quests /\ Current(g) \in job[g].todo /\ AtWork(g)
  <1>1. AtWork(g) /\ JobOK(g) /\ job[g] \in Jobs
    BY DEF Owes, AtWork, TypeInv, TypeOK
  <1>2. job[g].user \in Users /\ job[g].todo # {} /\ job[g].day \in Days
    BY <1>1 DEF JobOK, Owes, Jobs
  <1>3. Current(g) \in job[g].todo /\ Current(g) \in Quests
    BY <1>2, CurrentType DEF TypeInv
  <1> QED
    BY <1>1, <1>2, <1>3 DEF KeyOf, Keys

LEMMA TargetType ==
  ASSUME NEW key \in Keys
  PROVE  Target[key[2]] \in Nat /\ Target[key[2]] >= 1
  <1>1. key[2] \in Quests
    BY DEF Keys
  <1>2. Target[key[2]] \in Nat \ {0}
    BY <1>1, QuestsAssumption
  <1> QED
    BY <1>2

\* No step takes a game back, and an id is given to one row.
Grows ==
  /\ \A key \in Keys : played'[key] >= played[key]
  /\ rows' >= rows
  /\ \A r \in RowIds : r <= rows /\ row'[r] # NoRow => row[r] # NoRow /\ row'[r].key = row[r].key

LEMMA JobPlayedStays ==
  ASSUME TypeInv, TypeInv', Grows, NEW h \in Games, JobPlayed(h), job'[h] = job[h]
  PROVE  JobPlayed(h)'
  <1>1. KeyOf(h)' = KeyOf(h)
    BY DEF KeyOf, Current
  <1>2. \A q \in job'[h].todo : job'[h].result \in Counts[q]
    BY DEF JobPlayed
  <1>3. CASE ~Owes(h)
    BY <1>2, <1>3 DEF JobPlayed, Owes
  <1>4. CASE Owes(h)
    <2>1. KeyOf(h) \in Keys
      BY <1>4, KeyType
    <2>2. /\ played[KeyOf(h)] \in Nat /\ played'[KeyOf(h)] \in Nat
          /\ played'[KeyOf(h)] >= played[KeyOf(h)]
      BY <2>1 DEF Grows, TypeInv, TypeOK
    <2>3. job[h].count \in Nat /\ rows \in Nat /\ rows' \in Nat /\ rows' >= rows
      BY QuestsAssumption DEF Grows, TypeInv, TypeOK, Jobs
    <2>4. CASE job[h].at = "insert"
      BY <1>1, <1>2, <2>2, <2>4 DEF JobPlayed
    <2>5. CASE job[h].at = "write"
      <3>1. job[h].id \in RowIds /\ job[h].id \in Nat /\ job[h].id <= rows
        BY <2>5, QuestsAssumption DEF JobPlayed, TypeInv, JobOK, RowIds
      <3>2. row'[job[h].id] # NoRow => row'[job[h].id].key = KeyOf(h)
        BY <2>5, <3>1 DEF Grows, JobPlayed
      <3>3. job[h].id <= rows'
        BY <2>3, <3>1
      <3>4. played'[KeyOf(h)] >= job[h].count + 1
        BY <2>2, <2>3, <2>5 DEF JobPlayed
      <3> QED
        BY <1>1, <1>2, <2>5, <3>2, <3>3, <3>4 DEF JobPlayed
    <2> QED
      BY <1>4, <2>4, <2>5 DEF Owes
  <1> QED
    BY <1>3, <1>4

\* A row that is only claimed, or not touched.
LEMMA RowPlayedStays ==
  ASSUME TypeInv, TypeInv', Grows, NEW r \in RowIds, RowPlayed(r),
         row'[r] # NoRow => /\ row[r] # NoRow /\ row'[r].key = row[r].key
                            /\ row'[r].count = row[r].count /\ row'[r].done = row[r].done
                            /\ (row'[r].claimed => row[r].claimed \/ row[r].done)
  PROVE  RowPlayed(r)'
  <1> SUFFICES ASSUME row'[r] # NoRow
               PROVE  /\ row[r].count <= played'[row[r].key]
                      /\ (row[r].done <=> row[r].count >= Target[row[r].key[2]])
                      /\ (row'[r].claimed => played'[row[r].key] >= Target[row[r].key[2]])
    BY DEF RowPlayed
  <1>1. row[r] \in Rows /\ row[r].key \in Keys /\ row[r].count \in Nat
    BY RowType DEF TypeInv, Rows
  <1>2. /\ played[row[r].key] \in Nat /\ played'[row[r].key] \in Nat
        /\ played'[row[r].key] >= played[row[r].key] /\ Target[row[r].key[2]] \in Nat
    BY <1>1, TargetType DEF Grows, TypeInv, TypeOK
  <1>3. /\ row[r].count <= played[row[r].key]
        /\ (row[r].done <=> row[r].count >= Target[row[r].key[2]])
        /\ (row[r].claimed => played[row[r].key] >= Target[row[r].key[2]])
    BY DEF RowPlayed
  <1> HIDE DEF RowPlayed
  <1> QED
    BY <1>1, <1>2, <1>3

\* Nothing of u moves.
Still(u) ==
  /\ \A key \in Keys : key[1] = u => played'[key] = played[key]
  /\ \A r \in RowIds :
       (row[r] # NoRow /\ row[r].key[1] = u) \/ (row'[r] # NoRow /\ row'[r].key[1] = u) =>
         /\ row[r] # NoRow /\ row'[r] # NoRow /\ row'[r].key = row[r].key
         /\ row'[r].count = row[r].count /\ row'[r].done = row[r].done
  /\ \A g \in Games : job'[g] = job[g] \/ (~Mine(g, u) /\ ~Mine(g, u)')

LEMMA StillRows ==
  ASSUME NEW u \in Users, Still(u), NEW key \in Keys, key[1] = u
  PROVE  RowsOf(key)' = RowsOf(key) /\ \A r \in RowsOf(key) : row'[r].count = row[r].count
  BY DEF Still, RowsOf

LEMMA StillExact ==
  ASSUME TypeInv, TypeInv', JobsPlayed, NEW u \in Users, ExactUser(u), Still(u)
  PROVE  ExactUser(u)'
  <1>1. \A g \in Games : Mine(g, u)' => Mine(g, u) /\ job'[g] = job[g] /\ KeyOf(g)' = KeyOf(g)
    BY DEF Still, Mine, AtWork, KeyOf, Current
  <1>2. \A g \in Games : Mine(g, u) => job'[g] = job[g] /\ Mine(g, u)' /\ KeyOf(g)' = KeyOf(g)
    BY DEF Still, Mine, AtWork, KeyOf, Current
  <1>3. \A g \in Games : job'[g] = job[g] => (Owes(g)' <=> Owes(g))
    BY DEF Owes
  <1>4. \A g, h \in Games : Mine(g, u)' /\ Mine(h, u)' => g = h
    BY <1>1 DEF ExactUser
  <1>5. ASSUME NEW g \in Games, Mine(g, u)', Owes(g)'
        PROVE  Owed(g)'
    <2>1. Mine(g, u) /\ Owes(g) /\ job'[g] = job[g] /\ KeyOf(g)' = KeyOf(g)
      BY <1>1, <1>3, <1>5
    <2>2. Owed(g)
      BY <2>1 DEF ExactUser
    <2>3. KeyOf(g) \in Keys /\ KeyOf(g)[1] = u
      BY <2>1, KeyType DEF Mine
    <2>4. RowsOf(KeyOf(g))' = RowsOf(KeyOf(g)) /\ played'[KeyOf(g)] = played[KeyOf(g)]
      <3>1. PICK key \in Keys : key = KeyOf(g)
        BY <2>3
      <3>2. RowsOf(key)' = RowsOf(key) /\ played'[key] = played[key]
        BY <2>3, <3>1, StillRows DEF Still
      <3> QED
        BY <2>1, <3>1, <3>2 DEF RowsOf
    <2>5. CASE job[g].at = "insert"
      BY <2>1, <2>2, <2>4, <2>5 DEF Owed
    <2>6. CASE job[g].at = "write"
      <3>1. job[g].id \in RowIds /\ row[job[g].id] # NoRow /\ row[job[g].id].key[1] = u
        BY <2>1, <2>2, <2>3, <2>6 DEF Owed, TypeInv, JobOK, JobsPlayed, JobPlayed
      <3> QED
        BY <2>1, <2>2, <2>4, <2>6, <3>1 DEF Owed, Still
    <2> QED
      BY <2>1, <2>5, <2>6 DEF Owes
  <1>6. ASSUME NEW key \in Keys, key[1] = u
        PROVE  Exact(key)' \/ \E g \in Games : Mine(g, u)' /\ Owes(g)' /\ KeyOf(g)' = key
    <2>1. RowsOf(key)' = RowsOf(key) /\ \A r \in RowsOf(key) : row'[r].count = row[r].count
      BY <1>6, StillRows
    <2>2. played'[key] = played[key]
      BY <1>6 DEF Still
    <2>3. Exact(key) => Exact(key)'
      BY <2>1, <2>2 DEF Exact
    <2> QED
      BY <1>2, <1>3, <1>6, <2>3 DEF ExactUser
  <1> QED
    BY <1>4, <1>5, <1>6 DEF ExactUser

\* Steps that move nobody who has lost nothing.
LEMMA QuietStep ==
  ASSUME TypeInv, TypeInv', PlayedInv, Grows, lost \subseteq lost',
         \A r \in RowIds : row'[r] # NoRow =>
           /\ row[r] # NoRow /\ row'[r].key = row[r].key
           /\ row'[r].count = row[r].count /\ row'[r].done = row[r].done
           /\ (row'[r].claimed => row[r].claimed \/ row[r].done),
         \A g \in Games : job'[g] = job[g] \/ JobPlayed(g)',
         \A u \in Users \ lost' : Still(u)
  PROVE  PlayedInv'
  <1>1. RowsPlayed'
    BY RowPlayedStays DEF PlayedInv, RowsPlayed
  <1>2. JobsPlayed'
    BY JobPlayedStays DEF PlayedInv, JobsPlayed
  <1>3. UsersExact'
    BY StillExact DEF PlayedInv, UsersExact
  <1> QED
    BY <1>1, <1>2, <1>3 DEF PlayedInv

\* The table and the games that were played stay as they are.
LEMMA TableStays ==
  ASSUME TypeInv, UNCHANGED <<row, rows, played>>
  PROVE  /\ Grows
         /\ \A u \in Users : (\A g \in Games : job'[g] = job[g] \/ (~Mine(g, u) /\ ~Mine(g, u)')) => Still(u)
         /\ \A key \in Keys : Exact(key) => Exact(key)'
  <1>1. Grows
    BY QuestsAssumption DEF Grows, TypeInv, TypeOK
  <1>2. \A u \in Users : (\A g \in Games : job'[g] = job[g] \/ (~Mine(g, u) /\ ~Mine(g, u)')) => Still(u)
    BY DEF Still
  <1>3. \A key \in Keys : Exact(key) => Exact(key)'
    BY DEF Exact, RowsOf
  <1> QED
    BY <1>1, <1>2, <1>3

\* The only recording of u that is at work moves, and owes nothing afterwards.
LEMMA OwnMove ==
  ASSUME NEW g \in Games, NEW u \in Users,
         \A h \in Games : h # g => job'[h] = job[h] /\ ~Mine(h, u),
         ~Owes(g)', \A key \in Keys : key[1] = u => Exact(key)'
  PROVE  ExactUser(u)'
  BY DEF ExactUser, Mine, AtWork

\* Before it moves, nothing is owed for any other key.
LEMMA OwnKeys ==
  ASSUME NEW g \in Games, NEW u \in Users, ExactUser(u), Mine(g, u)
  PROVE  /\ \A h \in Games : h # g => ~Mine(h, u)
         /\ \A key \in Keys : key[1] = u /\ (~Owes(g) \/ KeyOf(g) # key) => Exact(key)
  BY DEF ExactUser

LEMMA LeaveEffect ==
  ASSUME TypeInv, NEW g \in Games, job' = Leave(g, "next")
  PROVE  /\ job'[g].at = "next" /\ job'[g].user = job[g].user /\ job'[g].result = job[g].result
         /\ job'[g].todo \subseteq job[g].todo
         /\ \A h \in Games : h # g => job'[h] = job[h]
         /\ ~Owes(g)'
  <1>1. job[g] \in Jobs
    BY DEF TypeInv, TypeOK
  <1>2. /\ job'[g].at = "next" /\ job'[g].user = job[g].user /\ job'[g].result = job[g].result
        /\ job'[g].todo = job[g].todo \ {Current(g)}
        /\ \A h \in Games : h # g => job'[h] = job[h]
    BY <1>1 DEF Leave, TypeInv, TypeOK, Jobs
  <1> QED
    BY <1>2 DEF Owes

LEMMA RecordGamePlayed ==
  ASSUME TypeInv, TypeInv', PlayedInv, NEW g \in Games, NEW u \in Users, NEW result \in Results,
         RecordGame(g, u, result)
  PROVE  PlayedInv'
  <1>1. /\ UNCHANGED <<row, rows, played>> /\ lost \subseteq lost'
        /\ u \notin lost' => ~Working(u)
        /\ job[g] = NewJob
    BY DEF RecordGame, rowVars
  <1>2. /\ job'[g].at = "next" /\ job'[g].user = u /\ job'[g].result = result
        /\ \A q \in job'[g].todo : result \in Counts[q]
        /\ \A h \in Games : h # g => job'[h] = job[h]
    BY DEF RecordGame, TypeInv, TypeOK, Jobs, Matching
  <1>3. ~AtWork(g) /\ ~Owes(g)'
    BY <1>1, <1>2, NewJobType DEF AtWork, Owes
  <1>4. JobPlayed(g)'
    BY <1>2 DEF JobPlayed
  <1>5. RowsPlayed' /\ JobsPlayed'
    BY <1>1, <1>2, <1>4, TableStays, RowPlayedStays, JobPlayedStays DEF PlayedInv, RowsPlayed, JobsPlayed
  <1>6. ASSUME NEW v \in Users \ lost'
        PROVE  ExactUser(v)'
    <2>1. ExactUser(v)
      BY <1>1 DEF PlayedInv, UsersExact
    <2>2. CASE v = u
      <3>1. \A h \in Games : ~Mine(h, u)
        BY <1>1, <2>2 DEF Working, Mine
      <3>2. \A key \in Keys : key[1] = u => Exact(key)
        BY <2>1, <2>2, <3>1 DEF ExactUser
      <3> QED
        BY <1>1, <1>2, <1>3, <2>2, <3>1, <3>2, TableStays, OwnMove
    <2>3. CASE v # u
      <3>1. Still(v)
        BY <1>1, <1>2, <1>3, <2>3, TableStays DEF Mine
      <3> QED
        BY <2>1, <3>1, StillExact DEF PlayedInv
    <2> QED
      BY <2>2, <2>3
  <1> QED
    BY <1>5, <1>6 DEF PlayedInv, UsersExact

\* A recording leaves a quest, or ends, without a word to the table.
LEMMA LeavesPlayed ==
  ASSUME TypeInv, TypeInv', PlayedInv, NEW g \in Games, UNCHANGED <<row, rows, played>>,
         AtWork(g), lost \subseteq lost', ~Owes(g)', AtWork(g)' => job'[g].user = job[g].user,
         job'[g].todo = {} \/ (job'[g].todo \subseteq job[g].todo /\ job'[g].result = job[g].result),
         \A h \in Games : h # g => job'[h] = job[h],
         Owes(g) => job[g].user \in lost'
  PROVE  PlayedInv'
  <1>1. JobPlayed(g)'
    BY DEF PlayedInv, JobsPlayed, JobPlayed, Owes
  <1>2. RowsPlayed' /\ JobsPlayed'
    BY <1>1, TableStays, RowPlayedStays, JobPlayedStays DEF PlayedInv, RowsPlayed, JobsPlayed
  <1>3. ASSUME NEW v \in Users \ lost'
        PROVE  ExactUser(v)'
    <2>1. ExactUser(v)
      BY DEF PlayedInv, UsersExact
    <2>2. CASE v = job[g].user
      <3>1. /\ \A h \in Games : h # g => ~Mine(h, v)
            /\ \A key \in Keys : key[1] = v => Exact(key)
        BY <2>1, <2>2, OwnKeys DEF Mine
      <3> QED
        BY <3>1, TableStays, OwnMove
    <2>3. CASE v # job[g].user
      <3>1. Still(v)
        BY <2>3, TableStays DEF Mine
      <3> QED
        BY <2>1, <3>1, StillExact DEF PlayedInv
    <2> QED
      BY <2>2, <2>3
  <1> QED
    BY <1>2, <1>3 DEF PlayedInv, UsersExact

LEMMA RecordedPlayed ==
  ASSUME TypeInv, TypeInv', PlayedInv, NEW g \in Games, Recorded(g)
  PROVE  PlayedInv'
  <1>1. /\ UNCHANGED <<row, rows, played, lost>> /\ AtWork(g) /\ ~Owes(g)
    BY DEF Recorded, rowVars, AtWork, Owes
  <1>2. /\ job'[g].at = "over" /\ job'[g].todo = {}
        /\ \A h \in Games : h # g => job'[h] = job[h]
    BY NewJobType DEF Recorded, TypeInv, TypeOK
  <1> QED
    BY <1>1, <1>2, LeavesPlayed DEF AtWork, Owes

LEMMA RecordingFailsPlayed ==
  ASSUME TypeInv, TypeInv', PlayedInv, NEW g \in Games, RecordingFails(g)
  PROVE  PlayedInv'
  <1>1. /\ UNCHANGED <<row, rows, played>> /\ AtWork(g)
        /\ lost \subseteq lost' /\ job[g].user \in lost'
        /\ job' = Leave(g, "next")
    BY DEF RecordingFails, rowVars
  <1> QED
    BY <1>1, LeaveEffect, LeavesPlayed

\* The only recording of u that is at work owes its own game afterwards.
LEMMA OwnOwes ==
  ASSUME NEW g \in Games, NEW u \in Users, NEW k,
         \A h \in Games : h # g => job'[h] = job[h] /\ ~Mine(h, u),
         Mine(g, u)', Owes(g)', KeyOf(g)' = k, Owed(g)',
         \A key \in Keys : key[1] = u /\ key # k => Exact(key)'
  PROVE  ExactUser(u)'
  BY DEF ExactUser, Mine, AtWork

\* FindProgress counts the game and moves the recording to one of three places.
LEMMA FindEffect ==
  ASSUME TypeInv, JobsPlayed, NEW g \in Games, FindProgress(g)
  PROVE  \E k \in Keys :
           /\ k[1] = job[g].user
           /\ played' = [played EXCEPT ![k] = @ + 1]
           /\ \A h \in Games : h # g => job'[h] = job[h]
           /\ job'[g].user = job[g].user /\ job'[g].result = job[g].result
           /\ job'[g].todo \subseteq job[g].todo
           /\ \/ job'[g].at = "next" /\ \E r \in RowsOf(k) : row[r].done
              \/ /\ job'[g].at = "write" /\ KeyOf(g)' = k
                 /\ \E r \in RowsOf(k) : ~row[r].done /\ job'[g].id = r /\ job'[g].count = row[r].count
              \/ job'[g].at = "insert" /\ KeyOf(g)' = k /\ RowsOf(k) = {}
  <1> DEFINE q == Current(g)
             key == <<job[g].user, q, PeriodStart(q)>>
  <1>1. job[g] \in Jobs /\ JobOK(g) /\ job[g].todo # {} /\ AtWork(g)
    BY DEF TypeInv, TypeOK, FindProgress, AtWork
  <1>2. q \in Quests /\ q \in job[g].todo /\ job[g].user \in Users /\ PeriodStart(q) \in Days
    BY <1>1, CurrentType, DaysType DEF TypeInv, TypeOK, JobOK, PeriodStart
  <1>3. key \in Keys /\ key[1] = job[g].user /\ key[3] = PeriodStart(q)
    BY <1>2 DEF Keys
  <1>4. played' = [played EXCEPT ![key] = @ + 1]
    BY <1>2 DEF FindProgress, JobsPlayed, JobPlayed
  <1>5. CASE job' = Leave(g, "next") /\ \E r \in RowsOf(key) : row[r].done
    <2> HIDE DEF key
    <2> QED
      BY <1>3, <1>4, <1>5, LeaveEffect
  <1>6. ASSUME NEW r \in RowsOf(key), ~row[r].done,
               job' = [job EXCEPT ![g].at = "write", ![g].id = r,
                                  ![g].count = row[r].count, ![g].day = key[3]]
        PROVE  /\ \A h \in Games : h # g => job'[h] = job[h]
               /\ job'[g].user = job[g].user /\ job'[g].result = job[g].result
               /\ job'[g].todo = job[g].todo
               /\ job'[g].at = "write" /\ KeyOf(g)' = key
               /\ job'[g].id = r /\ job'[g].count = row[r].count
    <2>1. /\ \A h \in Games : h # g => job'[h] = job[h]
          /\ job'[g].user = job[g].user /\ job'[g].result = job[g].result
          /\ job'[g].todo = job[g].todo /\ job'[g].at = "write" /\ job'[g].day = key[3]
          /\ job'[g].id = r /\ job'[g].count = row[r].count
      BY <1>1, <1>6 DEF TypeInv, TypeOK, Jobs
    <2> QED
      BY <1>3, <2>1 DEF KeyOf, Current
  <1>7. ASSUME job' = [job EXCEPT ![g].at = "insert", ![g].day = key[3]]
        PROVE  /\ \A h \in Games : h # g => job'[h] = job[h]
               /\ job'[g].user = job[g].user /\ job'[g].result = job[g].result
               /\ job'[g].todo = job[g].todo
               /\ job'[g].at = "insert" /\ KeyOf(g)' = key
    <2>1. /\ \A h \in Games : h # g => job'[h] = job[h]
          /\ job'[g].user = job[g].user /\ job'[g].result = job[g].result
          /\ job'[g].todo = job[g].todo /\ job'[g].at = "insert" /\ job'[g].day = key[3]
      BY <1>1, <1>7 DEF TypeInv, TypeOK, Jobs
    <2> QED
      BY <1>3, <2>1 DEF KeyOf, Current
  <1>8. \/ job' = Leave(g, "next") /\ \E r \in RowsOf(key) : row[r].done
        \/ \E r \in RowsOf(key) : ~row[r].done /\ job' = [job EXCEPT ![g].at = "write", ![g].id = r,
                                                        ![g].count = row[r].count, ![g].day = key[3]]
        \/ RowsOf(key) = {} /\ job' = [job EXCEPT ![g].at = "insert", ![g].day = key[3]]
    BY DEF FindProgress
  <1>9. PICK k \in Keys : k = key
    BY <1>3
  <1>10. CASE \E r \in RowsOf(key) : ~row[r].done /\ job' = [job EXCEPT ![g].at = "write", ![g].id = r,
                                                        ![g].count = row[r].count, ![g].day = key[3]]
    <2>1. PICK r \in RowsOf(key) : /\ ~row[r].done
                                   /\ job' = [job EXCEPT ![g].at = "write", ![g].id = r,
                                                        ![g].count = row[r].count, ![g].day = key[3]]
      BY <1>10
    <2>2. /\ \A h \in Games : h # g => job'[h] = job[h]
          /\ job'[g].user = job[g].user /\ job'[g].result = job[g].result
          /\ job'[g].todo = job[g].todo
          /\ job'[g].at = "write" /\ KeyOf(g)' = key
          /\ job'[g].id = r /\ job'[g].count = row[r].count
      BY <1>6, <2>1
    <2> HIDE DEF key
    <2> QED
      BY <1>3, <1>4, <1>9, <2>1, <2>2
  <1>11. CASE RowsOf(key) = {} /\ job' = [job EXCEPT ![g].at = "insert", ![g].day = key[3]]
    <2>1. /\ \A h \in Games : h # g => job'[h] = job[h]
          /\ job'[g].user = job[g].user /\ job'[g].result = job[g].result
          /\ job'[g].todo = job[g].todo
          /\ job'[g].at = "insert" /\ KeyOf(g)' = key
      BY <1>7, <1>11
    <2> HIDE DEF key
    <2> QED
      BY <1>3, <1>4, <1>9, <1>11, <2>1
  <1> QED
    BY <1>5, <1>8, <1>10, <1>11

LEMMA FindProgressPlayed ==
  ASSUME TypeInv, TypeInv', PlayedInv, NEW g \in Games, FindProgress(g)
  PROVE  PlayedInv'
  <1> DEFINE u == job[g].user
  <1>1. UNCHANGED <<row, rows, lost>> /\ AtWork(g) /\ ~Owes(g) /\ u \in Users /\ JobPlayed(g)
    BY DEF FindProgress, rowVars, AtWork, Owes, TypeInv, JobOK, PlayedInv, JobsPlayed
  <1>2. PICK k \in Keys :
           /\ k[1] = u
           /\ played' = [played EXCEPT ![k] = @ + 1]
           /\ \A h \in Games : h # g => job'[h] = job[h]
           /\ job'[g].user = u /\ job'[g].result = job[g].result
           /\ job'[g].todo \subseteq job[g].todo
           /\ \/ job'[g].at = "next" /\ \E r \in RowsOf(k) : row[r].done
              \/ /\ job'[g].at = "write" /\ KeyOf(g)' = k
                 /\ \E r \in RowsOf(k) : ~row[r].done /\ job'[g].id = r /\ job'[g].count = row[r].count
              \/ job'[g].at = "insert" /\ KeyOf(g)' = k /\ RowsOf(k) = {}
    BY FindEffect DEF PlayedInv
  <1>3. /\ played[k] \in Nat /\ played'[k] = played[k] + 1
        /\ \A key \in Keys : key # k => played'[key] = played[key]
    BY <1>2 DEF TypeInv, TypeOK
  <1>4. Grows
    BY <1>1, <1>2, <1>3, QuestsAssumption DEF Grows, TypeInv, TypeOK
  <1>5. \A r \in RowsOf(k) : /\ r \in RowIds /\ row[r] # NoRow /\ row[r].key = k /\ r <= rows
                             /\ row[r].count \in Nat /\ row[r].count <= played[k]
                             /\ (row[r].done <=> row[r].count >= Target[k[2]])
    <2> SUFFICES ASSUME NEW r \in RowsOf(k)
                 PROVE  /\ r \in RowIds /\ row[r] # NoRow /\ row[r].key = k /\ r <= rows
                        /\ row[r].count \in Nat /\ row[r].count <= played[k]
                        /\ (row[r].done <=> row[r].count >= Target[k[2]])
      OBVIOUS
    <2>1. r \in RowIds /\ row[r] # NoRow /\ row[r].key = k
      BY DEF RowsOf
    <2>2. r <= rows /\ row[r].count \in Nat
      BY <2>1, RowType DEF TypeInv, TypeOK, Rows
    <2>3. row[r].count <= played[k] /\ (row[r].done <=> row[r].count >= Target[k[2]])
      BY <2>1 DEF PlayedInv, RowsPlayed, RowPlayed
    <2> QED
      BY <2>1, <2>2, <2>3
  <1>6. JobPlayed(g)'
    <2>1. \A q \in job'[g].todo : job'[g].result \in Counts[q]
      BY <1>1, <1>2 DEF JobPlayed
    <2>2. CASE job'[g].at = "next"
      BY <2>1, <2>2 DEF JobPlayed
    <2>3. CASE job'[g].at = "write" /\ KeyOf(g)' = k
      BY <1>1, <1>2, <1>3, <1>5, <2>1, <2>3 DEF JobPlayed
    <2>4. CASE job'[g].at = "insert" /\ KeyOf(g)' = k
      BY <1>3, <2>1, <2>4 DEF JobPlayed
    <2> QED
      BY <1>2, <2>2, <2>3, <2>4
  <1>7. RowsPlayed' /\ JobsPlayed'
    <2>1. RowsPlayed'
      BY <1>1, <1>4, RowPlayedStays DEF PlayedInv, RowsPlayed
    <2>2. JobsPlayed'
      BY <1>2, <1>4, <1>6, JobPlayedStays DEF PlayedInv, JobsPlayed
    <2> QED
      BY <2>1, <2>2
  <1>8. ASSUME NEW v \in Users \ lost', v # u
        PROVE  ExactUser(v)'
    <2>1. ExactUser(v)
      BY <1>1 DEF PlayedInv, UsersExact
    <2>2. Still(v)
      BY <1>1, <1>2, <1>3, <1>8 DEF Still, Mine
    <2> QED
      BY <2>1, <2>2, StillExact DEF PlayedInv
  <1>9. ASSUME NEW v \in Users \ lost', v = u
        PROVE  ExactUser(v)'
    <2>1. v = u /\ v \in Users /\ v \notin lost
      BY <1>1, <1>9
    <2>2. ExactUser(v) /\ Mine(g, v)
      BY <1>1, <1>9, <2>1 DEF PlayedInv, UsersExact, Mine
    <2>3. /\ \A h \in Games : h # g => job'[h] = job[h] /\ ~Mine(h, v)
          /\ \A key \in Keys : key[1] = v => Exact(key)
      BY <1>1, <1>2, <2>2, OwnKeys
    <2>4. \A key \in Keys : key[1] = v /\ key # k => Exact(key)'
      BY <1>1, <1>3, <2>3 DEF Exact, RowsOf
    <2>5. CASE job'[g].at = "next" /\ \E r \in RowsOf(k) : row[r].done
      <3>1. Exact(k)
        BY <1>2, <2>1, <2>3
      <3>2. Target[k[2]] \in Nat
        BY TargetType
      <3>3. played[k] >= Target[k[2]]
        BY <1>3, <1>5, <2>5, <3>2
      <3>4. played'[k] >= Target[k[2]]
        BY <1>3, <3>2, <3>3
      <3>5. Exact(k)'
        BY <1>1, <1>3, <2>5, <3>1, <3>2, <3>3, <3>4 DEF Exact, RowsOf
      <3>6. ~Owes(g)'
        BY <2>5 DEF Owes
      <3>7. \A key \in Keys : key[1] = v => Exact(key)'
        BY <2>4, <3>5
      <3> QED
        BY <2>3, <3>6, <3>7, OwnMove
    <2>6. CASE job'[g].at \in {"write", "insert"} /\ KeyOf(g)' = k
      <3>1. Owes(g)' /\ Mine(g, v)'
        BY <1>2, <2>1, <2>6 DEF Owes, Mine, AtWork
      <3>2. Exact(k)
        BY <1>2, <2>1, <2>3
      <3>3. Target[k[2]] \in Nat /\ Target[k[2]] >= 1
        BY TargetType
      <3>4. Owed(g)'
        <4>1. CASE job'[g].at = "write"
          <5>1. PICK r \in RowsOf(k) : ~row[r].done /\ job'[g].id = r /\ job'[g].count = row[r].count
            BY <1>2, <4>1
          <5>2. row[r].count = played[k]
            BY <1>3, <1>5, <3>2, <3>3, <5>1 DEF Exact
          <5> QED
            BY <1>1, <1>3, <1>5, <2>6, <4>1, <5>1, <5>2 DEF Owed
        <4>2. CASE job'[g].at = "insert"
          <5>1. RowsOf(k) = {} /\ played[k] = 0
            BY <1>2, <3>2, <4>2 DEF Exact
          <5>2. RowsOf(k)' = {}
            BY <1>1, <5>1 DEF RowsOf
          <5>3. RowsOf(KeyOf(g))' = {}
            BY <2>6, <5>2 DEF RowsOf
          <5> QED
            BY <1>3, <2>6, <4>2, <5>1, <5>3 DEF Owed
        <4> QED
          BY <2>6, <4>1, <4>2
      <3> QED
        BY <2>3, <2>4, <2>6, <3>1, <3>4, OwnOwes
    <2> QED
      BY <1>2, <2>5, <2>6
  <1> QED
    BY <1>1, <1>7, <1>8, <1>9 DEF PlayedInv, UsersExact

LEMMA InsertProgressPlayed ==
  ASSUME TypeInv, TypeInv', PlayedInv, NEW g \in Games, InsertProgress(g)
  PROVE  PlayedInv'
  <1> DEFINE u == job[g].user
  <1>1. /\ AtWork(g) /\ Owes(g) /\ job[g].at = "insert" /\ played' = played /\ JobPlayed(g)
        /\ job[g] \in Jobs /\ u \in Users
    BY DEF InsertProgress, AtWork, Owes, PlayedInv, JobsPlayed, TypeInv, TypeOK, JobOK
  <1>2. PICK k \in Keys : k = KeyOf(g) /\ k[1] = u /\ k[2] = Current(g)
    BY <1>1, KeyType
  <1>3. CASE job' = Leave(g, "next") /\ lost' = lost \cup {u} /\ UNCHANGED rowVars
    BY <1>1, <1>3, LeaveEffect, LeavesPlayed DEF rowVars
  <1>4. CASE /\ RowsOf(KeyOf(g)) = {}
             /\ rows < MaxRows
             /\ rows' = rows + 1
             /\ row' = [row EXCEPT ![rows + 1] = NewRowOf(g)]
             /\ job' = [job EXCEPT ![g].at = "write", ![g].id = rows + 1, ![g].count = 0]
             /\ UNCHANGED lost
    <2> DEFINE n == rows + 1
    <2>1. /\ n \in RowIds /\ n \in Nat /\ rows' = n /\ rows \in Nat /\ ~(n <= rows) /\ row[n] = NoRow
      BY <1>4, QuestsAssumption DEF RowIds, TypeInv, TypeOK
    <2>2. /\ row'[n] = NewRowOf(g) /\ \A r \in RowIds : r # n => row'[r] = row[r]
      BY <1>4, <2>1 DEF TypeInv, TypeOK
    <2>3. /\ job'[g].at = "write" /\ job'[g].id = n /\ job'[g].count = 0
          /\ job'[g].user = u /\ job'[g].result = job[g].result /\ job'[g].todo = job[g].todo
          /\ job'[g].day = job[g].day
          /\ \A h \in Games : h # g => job'[h] = job[h]
      BY <1>1, <1>4 DEF TypeInv, TypeOK, Jobs
    <2>4. KeyOf(g)' = k
      BY <1>2, <2>3 DEF KeyOf, Current
    <2>5. NewRowOf(g).key = k /\ NewRowOf(g).count = 0 /\ NewRowOf(g).done = FALSE /\ NewRowOf(g).claimed = FALSE
      BY <1>2 DEF NewRowOf
    <2> HIDE DEF n, u
    <2>6. row'[n] # NoRow
      <3>1. NewRowOf(g) \in Rows
        BY <1>2 DEF NewRowOf, Rows
      <3>2. n \in RowIds /\ row'[n] = NewRowOf(g) /\ \A r \in Rows : r # NoRow
        BY <2>1, <2>2 DEF Rows, NoRow
      <3> QED
        BY <3>1, <3>2
    <2>7. Grows
      <3>1. \A key \in Keys : played'[key] >= played[key]
        BY <1>1 DEF TypeInv, TypeOK
      <3>2. rows' >= rows
        BY <2>1 DEF n
      <3>3. \A r \in RowIds : r <= rows /\ row'[r] # NoRow => row[r] # NoRow /\ row'[r].key = row[r].key
        BY <2>1, <2>2
      <3> QED
        BY <3>1, <3>2, <3>3 DEF Grows
    <2>8. RowsPlayed'
      <3> SUFFICES ASSUME NEW r \in RowIds
                   PROVE  RowPlayed(r)'
        BY DEF RowsPlayed
      <3>1. CASE r = n
        <4>1. Target[k[2]] \in Nat /\ Target[k[2]] >= 1 /\ played'[k] \in Nat
          BY TargetType DEF TypeInv, TypeOK
        <4>2. 0 <= played'[k] /\ ~(0 >= Target[k[2]])
          BY <4>1
        <4> QED
          BY <2>2, <2>5, <3>1, <4>2 DEF RowPlayed
      <3>2. CASE r # n
        BY <2>2, <2>7, <3>2, RowPlayedStays DEF PlayedInv, RowsPlayed
      <3> QED
        BY <3>1, <3>2
    <2>9. JobPlayed(g)'
      <3>1. played'[k] \in Nat /\ played'[k] >= 1
        BY <1>1, <1>2 DEF JobPlayed, TypeInv, TypeOK
      <3>2. n <= rows'
        BY <2>1
      <3>3. \A q \in job'[g].todo : job'[g].result \in Counts[q]
        BY <1>1, <2>3 DEF JobPlayed
      <3> QED
        BY <2>2, <2>3, <2>4, <2>5, <3>1, <3>2, <3>3 DEF JobPlayed
    <2>10. JobsPlayed'
      BY <2>3, <2>7, <2>9, JobPlayedStays DEF PlayedInv, JobsPlayed
    <2>11. ASSUME NEW v \in Users \ lost'
           PROVE  ExactUser(v)'
      <3>1. ExactUser(v)
        BY <1>4, <2>11 DEF PlayedInv, UsersExact
      <3>2. CASE v # u
        <4>1. ~Mine(g, v) /\ ~Mine(g, v)'
          BY <2>3, <3>2 DEF Mine, u
        <4>2. Still(v)
          BY <1>1, <1>2, <2>1, <2>2, <2>3, <2>5, <2>6, <3>2, <4>1 DEF Still
        <4> QED
          BY <3>1, <4>2, StillExact DEF PlayedInv
      <3>3. CASE v = u
        <4>1. Mine(g, v) /\ Owed(g)
          BY <1>1, <3>1, <3>3 DEF ExactUser, Mine, u
        <4>2. /\ \A h \in Games : h # g => job'[h] = job[h] /\ ~Mine(h, v)
              /\ \A key \in Keys : key[1] = v /\ key # k => Exact(key)
          BY <1>2, <2>3, <3>1, <4>1, OwnKeys
        <4>3. \A key \in Keys : key # k => RowsOf(key)' = RowsOf(key) /\ \A r \in RowsOf(key) : row'[r] = row[r]
          BY <2>1, <2>2, <2>5 DEF RowsOf
        <4>4. \A key \in Keys : key[1] = v /\ key # k => Exact(key)'
          BY <1>1, <4>2, <4>3 DEF Exact
        <4>5. played[k] = 1
          BY <1>1, <1>2, <4>1 DEF Owed
        <4>6. Owed(g)'
          BY <1>1, <2>2, <2>3, <2>4, <2>5, <2>6, <4>5 DEF Owed
        <4>7. Mine(g, v)' /\ Owes(g)'
          BY <2>3, <3>3 DEF Mine, AtWork, Owes
        <4> QED
          BY <2>4, <4>2, <4>4, <4>6, <4>7, OwnOwes
      <3> QED
        BY <3>2, <3>3
    <2> QED
      BY <2>8, <2>10, <2>11 DEF PlayedInv, UsersExact
  <1> QED
    BY <1>3, <1>4 DEF InsertProgress, NewRowOf

LEMMA UpdateProgressPlayed ==
  ASSUME TypeInv, TypeInv', PlayedInv, NEW g \in Games, UpdateProgress(g)
  PROVE  PlayedInv'
  <1> DEFINE u == job[g].user
             i == job[g].id
             n == job[g].count + 1
  <1>1. /\ AtWork(g) /\ Owes(g) /\ job[g].at = "write" /\ JobPlayed(g) /\ i \in RowIds
        /\ UNCHANGED <<rows, played, lost>>
        /\ job' = Leave(g, "next")
        /\ job[g] \in Jobs /\ n \in Nat
    <2>1. job[g].at = "write" /\ UNCHANGED <<rows, played, lost>> /\ job' = Leave(g, "next")
      BY DEF UpdateProgress
    <2>2. job[g] \in Jobs /\ job[g].count \in Nat
      BY DEF TypeInv, TypeOK, Jobs
    <2>3. JobPlayed(g) /\ JobOK(g)
      BY DEF PlayedInv, JobsPlayed, TypeInv
    <2>4. AtWork(g) /\ Owes(g)
      BY <2>1 DEF AtWork, Owes
    <2>5. i \in RowIds
      BY <2>1, <2>3 DEF JobOK
    <2> QED
      BY <2>1, <2>2, <2>3, <2>4, <2>5
  <1>2. PICK k \in Keys : k = KeyOf(g) /\ k[1] = u /\ k[2] = Current(g)
    BY <1>1, KeyType
  <1>3. /\ job'[g].at = "next" /\ job'[g].user = u /\ job'[g].result = job[g].result
        /\ job'[g].todo \subseteq job[g].todo
        /\ \A h \in Games : h # g => job'[h] = job[h]
        /\ ~Owes(g)'
    BY <1>1, LeaveEffect
  <1>4. \A r \in RowIds : r # i => row'[r] = row[r]
    BY DEF UpdateProgress, TypeInv, TypeOK
  <1>5. CASE row[i] = NoRow
    <2>1. row' = row /\ ~Owed(g)
      BY <1>1, <1>5 DEF UpdateProgress, Owed
    <2>2. u \in lost
      BY <1>1, <2>1 DEF PlayedInv, UsersExact, ExactUser, Mine, TypeInv, JobOK
    <2> QED
      BY <1>1, <1>3, <2>1, <2>2, LeavesPlayed
  <1>6. CASE row[i] # NoRow
    <2>1. row[i] \in Rows /\ row[i].key = k /\ Target[k[2]] \in Nat
      BY <1>1, <1>2, <1>6, RowType, TargetType DEF JobPlayed, TypeInv
    <2>2. /\ row'[i].key = k /\ row'[i].count = n /\ row'[i].done = (n >= Target[k[2]])
          /\ row'[i].claimed = row[i].claimed /\ row'[i] # NoRow
      <3> DEFINE b == n >= Target[k[2]]
                 new == [row[i] EXCEPT !.count = n, !.done = b]
      <3>1. row' = [row EXCEPT ![i] = new]
        BY <1>1, <1>6, <2>1 DEF UpdateProgress, TypeInv, TypeOK
      <3>0. b \in BOOLEAN
        OBVIOUS
      <3> HIDE DEF n, i, b
      <3>2. /\ new \in Rows /\ new.key = row[i].key /\ new.count = n /\ new.done = b
            /\ new.claimed = row[i].claimed
        BY <1>1, <2>1, <3>0 DEF Rows
      <3>3. \A r \in Rows : r # NoRow
        BY DEF Rows, NoRow
      <3> HIDE DEF new
      <3>4. row'[i] = new
        BY <1>1, <3>1 DEF TypeInv, TypeOK
      <3> QED
        BY <2>1, <3>2, <3>3, <3>4 DEF b
    <2>3. n <= played[k] /\ played[k] \in Nat
      BY <1>1, <1>2 DEF JobPlayed, TypeInv, TypeOK
    <2>4. Grows
      BY <1>1, <1>4, <1>6, <2>1, <2>2, QuestsAssumption DEF Grows, TypeInv, TypeOK
    <2>5. RowsPlayed'
      <3> SUFFICES ASSUME NEW r \in RowIds
                   PROVE  RowPlayed(r)'
        BY DEF RowsPlayed
      <3>1. CASE r = i
        <4>1. row[i].claimed => played[k] >= Target[k[2]]
          BY <1>1, <1>6, <2>1 DEF PlayedInv, RowsPlayed, RowPlayed
        <4> HIDE DEF n, i
        <4> QED
          BY <1>1, <2>2, <2>3, <3>1, <4>1 DEF RowPlayed
      <3>2. CASE r # i
        BY <1>4, <2>4, <3>2, RowPlayedStays DEF PlayedInv, RowsPlayed
      <3> QED
        BY <3>1, <3>2
    <2>6. JobsPlayed'
      <3>1. JobPlayed(g)'
        BY <1>1, <1>3 DEF JobPlayed
      <3> QED
        BY <1>3, <2>4, <3>1, JobPlayedStays DEF PlayedInv, JobsPlayed
    <2>7. ASSUME NEW v \in Users \ lost'
          PROVE  ExactUser(v)'
      <3>1. ExactUser(v)
        BY <1>1, <2>7 DEF PlayedInv, UsersExact
      <3>2. CASE v # u
        <4>1. ~Mine(g, v) /\ ~Mine(g, v)'
          BY <1>3, <3>2 DEF Mine
        <4> HIDE DEF u, i, n
        <4>2. Still(v)
          BY <1>1, <1>2, <1>3, <1>4, <2>1, <2>2, <3>2, <4>1 DEF Still
        <4> QED
          BY <3>1, <4>2, StillExact DEF PlayedInv
      <3>3. CASE v = u
        <4>1. Mine(g, v) /\ Owed(g)
          BY <1>1, <3>1, <3>3 DEF ExactUser, Mine
        <4>2. /\ \A h \in Games : h # g => job'[h] = job[h] /\ ~Mine(h, v)
              /\ \A key \in Keys : key[1] = v /\ key # k => Exact(key)
          BY <1>2, <1>3, <3>1, <4>1, OwnKeys
        <4>3. /\ row[i].count = job[g].count /\ ~row[i].done /\ played[k] = n
          BY <1>1, <1>2, <4>1 DEF Owed
        <4>4. ~(row[i].count >= Target[k[2]])
          BY <1>1, <1>6, <2>1, <4>3 DEF PlayedInv, RowsPlayed, RowPlayed
        <4>5. n <= Target[k[2]]
          <5>1. job[g].count \in Nat
            BY <1>1 DEF Jobs
          <5> QED
            BY <2>1, <4>3, <4>4, <5>1
        <4> HIDE DEF u, i, n
        <4>6. \A key \in Keys : RowsOf(key)' = RowsOf(key)
          BY <1>1, <1>4, <1>6, <2>1, <2>2 DEF RowsOf
        <4>7. RowsOf(k) = {i}
          BY <1>1, <1>6, <2>1 DEF RowsOf, TypeInv, TypeOK
        <4>8. Exact(k)'
          <5>1. n = IF played[k] < Target[k[2]] THEN played[k] ELSE Target[k[2]]
            BY <1>1, <2>1, <4>3, <4>5
          <5> QED
            BY <1>1, <2>2, <4>6, <4>7, <5>1 DEF Exact
        <4>9. \A key \in Keys : key[1] = v /\ key # k => Exact(key)'
          <5>1. \A key \in Keys : key # k => \A r \in RowsOf(key) : row'[r] = row[r]
            BY <1>4, <2>1 DEF RowsOf
          <5> QED
            BY <1>1, <4>2, <4>6, <5>1 DEF Exact
        <4> QED
          BY <1>3, <4>2, <4>8, <4>9, OwnMove
      <3> QED
        BY <3>2, <3>3
    <2> QED
      BY <2>5, <2>6, <2>7 DEF PlayedInv, UsersExact
  <1> QED
    BY <1>5, <1>6

LEMMA ClaimRewardPlayed ==
  ASSUME TypeInv, TypeInv', PlayedInv, NEW c \in Claims, NEW u \in Users, NEW r \in RowIds,
         ClaimReward(c, u, r)
  PROVE  PlayedInv'
  <1> DEFINE new == [row[r] EXCEPT !.claimed = TRUE]
  <1>1. /\ row[r] # NoRow /\ row[r].done /\ row[r] \in Rows
        /\ row' = [row EXCEPT ![r].claimed = TRUE]
        /\ UNCHANGED <<rows, job, played, lost>>
    BY RowType DEF ClaimReward, TypeInv
  <1>2. row' = [row EXCEPT ![r] = new]
    BY <1>1 DEF TypeInv, TypeOK
  <1>3. /\ new \in Rows /\ new # NoRow /\ new.key = row[r].key /\ new.count = row[r].count
        /\ new.done = row[r].done
    BY <1>1 DEF Rows, NoRow
  <1> HIDE DEF new
  <1>4. row'[r] = new /\ \A s \in RowIds : s # r => row'[s] = row[s]
    BY <1>2 DEF TypeInv, TypeOK
  <1>5. Grows
    BY <1>1, <1>3, <1>4, QuestsAssumption DEF Grows, TypeInv, TypeOK
  <1>6. \A v \in Users : Still(v)
    BY <1>1, <1>3, <1>4 DEF Still
  <1> QED
    BY <1>1, <1>3, <1>4, <1>5, <1>6, QuietStep

LEMMA RowsGonePlayed ==
  ASSUME TypeInv, TypeInv', PlayedInv, NEW q \in Quests, RowsGone(q), UNCHANGED <<rows, job, played>>
  PROVE  PlayedInv'
  <1>1. \A r \in RowIds : row'[r] # NoRow => row'[r] = row[r]
    BY RowsGoneStay
  <1>2. \A r \in RowIds : row[r] # NoRow /\ row'[r] = NoRow => row[r].key[1] \in lost'
    BY RowType DEF RowsGone, TypeInv
  <1>3. lost \subseteq lost'
    BY DEF RowsGone
  <1>4. Grows
    BY <1>1, QuestsAssumption DEF Grows, TypeInv, TypeOK
  <1>5. \A v \in Users \ lost' : Still(v)
    BY <1>1, <1>2 DEF Still
  <1> QED
    BY <1>1, <1>3, <1>4, <1>5, QuietStep

LEMMA RestartPlayed ==
  ASSUME TypeInv, TypeInv', PlayedInv, Restart
  PROVE  PlayedInv'
  <1> DEFINE over == [NewJob EXCEPT !.at = "over"]
  <1>1. /\ UNCHANGED <<row, rows, played>> /\ lost \subseteq lost'
        /\ \A g \in Games : AtWork(g) => job[g].user \in lost'
        /\ \A g \in Games : job'[g] = IF AtWork(g) THEN over ELSE job[g]
    BY DEF Restart, rowVars
  <1>2. over.at = "over" /\ over.todo = {}
    BY NewJobType
  <1> HIDE DEF over
  <1>3. \A g \in Games : job'[g] = job[g] \/ JobPlayed(g)'
    BY <1>1, <1>2 DEF JobPlayed
  <1>4. \A v \in Users \ lost' : Still(v)
    BY <1>1, <1>2, TableStays DEF Mine, AtWork
  <1> QED
    BY <1>1, <1>3, <1>4, TableStays, QuietStep

\* Every step keeps the invariant.
LEMMA PlayedStep == IInv /\ PlayedInv /\ [Next]_vars => PlayedInv'
  <1> SUFFICES ASSUME IInv, PlayedInv, [Next]_vars
               PROVE  PlayedInv'
    OBVIOUS
  <1>1. TypeInv /\ TypeInv'
    BY NextHolds DEF IInv
  <1>2. ASSUME UNCHANGED <<row, rows, played, job, lost>>
        PROVE  PlayedInv'
    BY <1>1, <1>2, TableStays, QuietStep
  <1>3. ASSUME NEW g \in Games, Step(g) \/ RecordingFails(g)
        PROVE  PlayedInv'
    BY <1>1, <1>3, FindProgressPlayed, InsertProgressPlayed, UpdateProgressPlayed, RecordedPlayed,
       RecordingFailsPlayed DEF Step
  <1>4. ASSUME NEW g \in Games, NEW u \in Users, NEW result \in Results, RecordGame(g, u, result)
        PROVE  PlayedInv'
    BY <1>1, <1>4, RecordGamePlayed
  <1>5. ASSUME NEW c \in Claims, CreditReward(c)
        PROVE  PlayedInv'
    BY <1>2, <1>5 DEF CreditReward, rowVars
  <1>6. ASSUME NEW c \in Claims, NEW u \in Users, NEW r \in RowIds, ClaimReward(c, u, r)
        PROVE  PlayedInv'
    BY <1>1, <1>6, ClaimRewardPlayed
  <1>7. ASSUME NEW q \in Quests, CreateQuest(q) \/ ToggleQuestActive(q)
        PROVE  PlayedInv'
    BY <1>2, <1>7 DEF CreateQuest, ToggleQuestActive, rowVars
  <1>8. ASSUME NEW q \in Quests, DeleteProgress(q) \/ DeleteQuest(q)
        PROVE  PlayedInv'
    <2>1. RowsGone(q) /\ UNCHANGED <<rows, job, played>>
      BY <1>8 DEF DeleteProgress, DeleteQuest
    <2> QED
      BY <1>1, <2>1, RowsGonePlayed
  <1>9. CASE NextDay
    BY <1>2, <1>9 DEF NextDay, rowVars
  <1>10. CASE Restart
    BY <1>1, <1>10, RestartPlayed
  <1>11. CASE UNCHANGED vars
    BY <1>2, <1>11 DEF vars, rowVars
  <1> QED
    BY <1>3, <1>4, <1>5, <1>6, <1>7, <1>8, <1>9, <1>10, <1>11 DEF Next

LEMMA PlayedInit == Init => PlayedInv
  <1> SUFFICES ASSUME Init
               PROVE  PlayedInv
    OBVIOUS
  <1>1. RowsPlayed
    BY DEF Init, RowsPlayed, RowPlayed
  <1>2. JobsPlayed
    BY NewJobType DEF Init, JobsPlayed, JobPlayed
  <1>3. \A g \in Games : ~AtWork(g)
    BY NewJobType DEF Init, AtWork
  <1>4. \A key \in Keys : Exact(key)
    BY DEF Init, Exact, RowsOf
  <1> QED
    BY <1>1, <1>2, <1>3, <1>4 DEF PlayedInv, UsersExact, ExactUser, Mine

LEMMA PlayedIsProgress == IInv /\ PlayedInv => ProgressIsPlayed
  <1> SUFFICES ASSUME IInv, PlayedInv
               PROVE  ProgressIsPlayed
    OBVIOUS
  <1>1. ASSUME NEW r \in RowIds, row[r] # NoRow
        PROVE  /\ row[r].count <= played[row[r].key]
               /\ row[r].done \/ row[r].claimed => played[row[r].key] >= Target[row[r].key[2]]
    <2>1. row[r].key \in Keys /\ row[r].count \in Nat
      BY <1>1, RowType DEF IInv, TypeInv, Rows
    <2>2. played[row[r].key] \in Nat /\ Target[row[r].key[2]] \in Nat
      BY <2>1, TargetType DEF IInv, TypeInv, TypeOK
    <2>3. RowPlayed(r)
      BY DEF PlayedInv, RowsPlayed
    <2> QED
      BY <1>1, <2>1, <2>2, <2>3 DEF RowPlayed
  <1>2. ASSUME NEW key \in Keys, key[1] \notin lost, ~Working(key[1])
        PROVE  Progress(key) = IF played[key] < Target[key[2]] THEN played[key] ELSE Target[key[2]]
    <2>1. key[1] \in Users /\ Target[key[2]] \in Nat /\ Target[key[2]] >= 1
      BY TargetType DEF Keys
    <2>2. Exact(key)
      BY <1>2, <2>1 DEF PlayedInv, UsersExact, ExactUser, Working, Mine
    <2> QED
      BY <2>1, <2>2 DEF Exact, Progress
  <1> QED
    BY <1>1, <1>2 DEF ProgressIsPlayed

LEMMA PlayedHolds == Spec => []PlayedInv
  BY PlayedInit, PlayedStep, IInvHolds, PTL DEF Spec

-----------------------------------------------------------------------------
(* The theorems.                                                           *)

\* A row of progress is there once for a user, quest and day, and for a
\* quest that exists, whatever recordings, commands and faults overlap.
THEOREM QuestsTypeCorrect == Spec => []TypeOK
  <1>1. IInv => TypeOK
    BY DEF IInv, TypeInv
  <1> QED
    BY <1>1, IInvHolds, PTL

LEMMA PromiseStep == IInv /\ [Next]_vars => [Promise!Next]_<<taken, credits>>
  <1> SUFFICES ASSUME IInv, [Next]_vars
               PROVE  [Promise!Next]_<<taken, credits>>
    OBVIOUS
  <1>1. ASSUME NEW c \in Claims, NEW u \in Users, NEW r \in RowIds, ClaimReward(c, u, r)
        PROVE  Promise!Next
    <2>1. taken[r] = Nobody
      BY <1>1 DEF ClaimReward, IInv, ClaimInv
    <2>2. Promise!Take(r, u)
      BY <1>1, <2>1 DEF ClaimReward, Promise!Take
    <2> QED
      BY <2>2 DEF Promise!Next
  <1>2. ASSUME NEW c \in Claims, CreditReward(c)
        PROVE  Promise!Next
    <2> DEFINE r == claim[c].id
               u == claim[c].user
    <2>1. /\ r \in RowIds /\ u \in Users /\ taken[r] = u /\ credits[r] = Unpaid
          /\ credits' = [credits EXCEPT ![r][u] = @ + 1]
          /\ credits \in [RowIds -> [Users -> Nat]] /\ UNCHANGED taken
      BY <1>2 DEF CreditReward, IInv, ClaimInv, Held, TypeInv, TypeOK
    <2>2. credits' = [credits EXCEPT ![r][u] = 1]
      <3>1. credits[r][u] + 1 = 1
        BY <2>1 DEF Unpaid
      <3> HIDE DEF r, u
      <3>2. credits' = [credits EXCEPT ![r] = [credits[r] EXCEPT ![u] = credits[r][u] + 1]]
        BY <2>1
      <3>3. credits' = [credits EXCEPT ![r] = [credits[r] EXCEPT ![u] = 1]]
        BY <3>1, <3>2, Zenon
      <3> QED
        BY <3>3
    <2>3. u # Nobody /\ Promise!Unpaid = Unpaid
      BY <2>1, QuestsAssumption DEF Promise!Unpaid, Unpaid
    <2> HIDE DEF r, u
    <2>4. Promise!Pay(r)
      BY <2>1, <2>2, <2>3 DEF Promise!Pay
    <2> QED
      BY <2>1, <2>4 DEF Promise!Next
  <1>3. CASE UNCHANGED <<taken, credits>>
    BY <1>3
  <1>4. \/ UNCHANGED <<taken, credits>>
        \/ \E c \in Claims : CreditReward(c) \/ \E u \in Users, r \in RowIds : ClaimReward(c, u, r)
    BY DEF Next, Step, vars, claimVars, FindProgress, InsertProgress, UpdateProgress, Recorded,
           RecordingFails, RecordGame, CreateQuest, ToggleQuestActive, DeleteProgress,
           DeleteQuest, NextDay, Restart
  <1> QED
    BY <1>1, <1>2, <1>3, <1>4

\* Quests implement PayOnce: a completed row is claimed by one user for good,
\* and its reward is paid to him at most once, whatever recordings with an
\* old copy of the row write meanwhile.
THEOREM QuestsKeepPromise == Spec => PromiseKept
  <1>1. Init => Promise!Init
    BY DEF Init, Promise!Init, Promise!Unpaid
  <1> QED
    BY <1>1, IInvHolds, PromiseStep, PTL DEF Spec, PromiseKept, Promise!Spec

\* Progress comes from games that count, and a reward was played for; when the
\* games of a user do not overlap and nothing is lost on the way, it lacks none
\* of them once they are recorded.
THEOREM ProgressIsPlayedHolds == Spec => []ProgressIsPlayed
  BY IInvHolds, PlayedHolds, PlayedIsProgress, PTL
=============================================================================
