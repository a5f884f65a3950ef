------------------------------- MODULE Quests -------------------------------
(***************************************************************************)
(* Quests: repository/quest_repo.go, http/handlers/quest.go, the recording *)
(* of a game in handlers/api.go and game_record.go, and the quest commands *)
(* of service/admin_service.go.                                            *)
(*                                                                         *)
(* Every finished game starts a goroutine that moves the quests of its     *)
(* player.  No transaction is used: each SQL statement is a step, may fail *)
(* without an effect, and the process may stop between any two.  Only the  *)
(* columns that decide something are kept; weekly quests are daily ones    *)
(* with longer days.  ResetDailyQuests and ResetWeeklyQuests are not       *)
(* called by anything, and left out.                                       *)
(***************************************************************************)
EXTENDS Integers, FiniteSets

CONSTANTS Users, Nobody,
          Quests,     \* numbers, in the order of GetActiveQuests
          OneTime,    \* quests of type one_time
          Target, Counts,  \* target_count; the results that count
          Results,
          Games,      \* goroutines that record a game
          Claims,     \* goroutines of ClaimQuestReward
          MaxRows,    \* bound on the rows of user_quests
          LastDay,
          MaxFaults

ASSUME QuestsAssumption ==
  /\ Nobody \notin Users
  /\ Quests \subseteq Nat
  /\ OneTime \subseteq Quests
  /\ Target \in [Quests -> Nat \ {0}]
  /\ Counts \in [Quests -> SUBSET Results]
  /\ MaxRows \in Nat /\ LastDay \in Nat /\ MaxFaults \in Nat

RowIds == 1 .. MaxRows
NoId == 0
Days == 0 .. LastDay
Keys == Users \X Quests \X Days
Rows == [key : Keys, count : Nat, done : BOOLEAN, claimed : BOOLEAN]
NoRow == [count |-> 0]
GameStages == {"new", "next", "insert", "write", "over"}
Jobs == [at : GameStages, user : Users \cup {Nobody}, result : Results \cup {Nobody},
         todo : SUBSET Quests, day : Days, id : {NoId} \cup RowIds, count : Nat]
NewJob == [at |-> "new", user |-> Nobody, result |-> Nobody, todo |-> {}, day |-> 0,
           id |-> NoId, count |-> 0]
ClaimJobs == [id : {NoId} \cup RowIds, user : Users \cup {Nobody}]
NoClaim == [id |-> NoId, user |-> Nobody]

VARIABLES
  quest,     \* table quests: none yet, active, hidden or deleted
  deleting,  \* quests whose rows are deleted, and not yet the quest
  row,       \* table user_quests
  rows,      \* how many ids it has given
  day,
  job,       \* the recording of each game
  claim,     \* the row each claim has marked and not yet paid
  taken,     \* who has claimed a row
  credits,   \* how often the reward of a row was credited to whom
  played,    \* games that count, for each user, quest and day
  lost,      \* users with overlapping games, failed statements, deleted rows
  faults

adminVars == <<quest, deleting>>
rowVars == <<row, rows>>
claimVars == <<claim, taken, credits>>
vars == <<adminVars, rowVars, day, job, claimVars, played, lost, faults>>

TypeOK ==
  /\ quest \in [Quests -> {"none", "active", "hidden", "deleted"}]
  /\ deleting \subseteq Quests
  /\ row \in [RowIds -> Rows \cup {NoRow}]
  /\ rows \in 0 .. MaxRows
  /\ \A r \in RowIds : row[r] # NoRow => r <= rows /\ quest[row[r].key[2]] \in {"active", "hidden"}
  /\ \A r, s \in RowIds : row[r] # NoRow /\ row[s] # NoRow /\ row[r].key = row[s].key => r = s
  /\ day \in Days
  /\ job \in [Games -> Jobs]
  /\ claim \in [Claims -> ClaimJobs]
  /\ taken \in [RowIds -> Users \cup {Nobody}]
  /\ credits \in [RowIds -> [Users -> Nat]]
  /\ played \in [Keys -> Nat]
  /\ lost \subseteq Users
  /\ faults \in 0 .. MaxFaults

Init ==
  /\ quest = [q \in Quests |-> "none"]
  /\ deleting = {}
  /\ row = [r \in RowIds |-> NoRow]
  /\ rows = 0
  /\ day = 0
  /\ job = [g \in Games |-> NewJob]
  /\ claim = [c \in Claims |-> NoClaim]
  /\ taken = [r \in RowIds |-> Nobody]
  /\ credits = [r \in RowIds |-> [u \in Users |-> 0]]
  /\ played = [key \in Keys |-> 0]
  /\ lost = {}
  /\ faults = 0
-----------------------------------------------------------------------------
(* A finished game.                                                        *)

AtWork(g) == job[g].at \notin {"new", "over"}
Working(u) == \E g \in Games : AtWork(g) /\ job[g].user = u

\* Mutant of Matching: the result is not looked at.
AnyResult(q, result) == TRUE

\* game_type and action_type against the game.
Matching(q, result) == result \in Counts[q]

\* RecordGameResult: the quests that are active now and match.
RecordGame(g, u, result) ==
  /\ job[g] = NewJob
  /\ job' = [job EXCEPT ![g].at = "next", ![g].user = u, ![g].result = result,
       ![g].todo = {q \in Quests : quest[q] = "active" /\ Matching(q, result)}]
  /\ lost' = IF Working(u) THEN lost \cup {u} ELSE lost
  /\ UNCHANGED <<adminVars, rowVars, day, claimVars, played, faults>>

\* getPeriodStart.
PeriodStart(q) == IF q \in OneTime THEN 0 ELSE day
RowsOf(key) == {r \in RowIds : row[r] # NoRow /\ row[r].key = key}
Current(g) == CHOOSE q \in job[g].todo : \A p \in job[g].todo : q <= p
KeyOf(g) == <<job[g].user, Current(g), job[g].day>>
Leave(g, stage) == [job EXCEPT ![g].at = stage, ![g].todo = @ \ {Current(g)}, ![g].id = NoId,
                               ![g].count = 0, ![g].day = 0]

\* IncrementProgress begins: the SELECT of GetOrCreateUserQuest.  A quest
\* that is done is left.
FindProgress(g) ==
  /\ job[g].at = "next"
  /\ job[g].todo # {}
  /\ LET q == Current(g)
         key == <<job[g].user, q, PeriodStart(q)>> IN
       /\ \/ \E r \in RowsOf(key) :
               \/ row[r].done /\ job' = Leave(g, "next")
               \/ ~row[r].done /\ job' = [job EXCEPT ![g].at = "write", ![g].id = r,
                                            ![g].count = row[r].count, ![g].day = key[3]]
          \/ RowsOf(key) = {} /\ job' = [job EXCEPT ![g].at = "insert", ![g].day = key[3]]
       /\ played' = IF job[g].result \in Counts[q] THEN [played EXCEPT ![key] = @ + 1] ELSE played
  /\ UNCHANGED <<adminVars, rowVars, day, claimVars, lost, faults>>

\* Mutant of InsertProgress: the table has no unique key.
InsertAlways(g) ==
  /\ job[g].at = "insert"
  /\ rows < MaxRows
  /\ quest[Current(g)] \in {"active", "hidden"}
  /\ rows' = rows + 1
  /\ row' = [row EXCEPT ![rows + 1] = [key |-> KeyOf(g), count |-> 0, done |-> FALSE, claimed |-> FALSE]]
  /\ job' = [job EXCEPT ![g].at = "write", ![g].id = rows + 1, ![g].count = 0]
  /\ UNCHANGED <<adminVars, day, claimVars, played, lost, faults>>

\* Its INSERT: refused when the row is there by now, or the quest gone.
InsertProgress(g) ==
  /\ job[g].at = "insert"
  /\ \/ /\ RowsOf(KeyOf(g)) # {} \/ quest[Current(g)] = "deleted"
        /\ job' = Leave(g, "next")
        /\ lost' = lost \cup {job[g].user}
        /\ UNCHANGED rowVars
     \/ /\ RowsOf(KeyOf(g)) = {} /\ quest[Current(g)] # "deleted"
        /\ rows < MaxRows
        /\ rows' = rows + 1
        /\ row' = [row EXCEPT ![rows + 1] =
                     [key |-> KeyOf(g), count |-> 0, done |-> FALSE, claimed |-> FALSE]]
        /\ job' = [job EXCEPT ![g].at = "write", ![g].id = rows + 1, ![g].count = 0]
        /\ UNCHANGED lost
  /\ UNCHANGED <<adminVars, day, claimVars, played, faults>>

\* Mutant of UpdateProgress: the whole row that was read is written.
UpdateRow(g) ==
  /\ job[g].at = "write"
  /\ LET r == job[g].id IN
       row' = IF row[r] = NoRow THEN row ELSE
         [row EXCEPT ![r].count = job[g].count + 1, ![r].claimed = FALSE,
                     ![r].done = job[g].count + 1 >= Target[row[r].key[2]]]
  /\ job' = Leave(g, "next")
  /\ UNCHANGED <<adminVars, rows, day, claimVars, played, lost, faults>>

\* UpdateProgress writes what was read, and one more; the row may be gone.
UpdateProgress(g) ==
  /\ job[g].at = "write"
  /\ LET r == job[g].id IN
       row' = IF row[r] = NoRow THEN row ELSE
         [row EXCEPT ![r].count = job[g].count + 1,
                     ![r].done = job[g].count + 1 >= Target[row[r].key[2]]]
  /\ job' = Leave(g, "next")
  /\ UNCHANGED <<adminVars, rows, day, claimVars, played, lost, faults>>

\* All quests are seen to.
Recorded(g) ==
  /\ job[g].at = "next"
  /\ job[g].todo = {}
  /\ job' = [job EXCEPT ![g] = [NewJob EXCEPT !.at = "over"]]
  /\ UNCHANGED <<adminVars, rowVars, day, claimVars, played, lost, faults>>
-----------------------------------------------------------------------------
(* A claim.                                                                *)

\* ClaimReward: one UPDATE of a row that is completed and not claimed; whose
\* row it is is not asked.
ClaimReward(c, u, r) ==
  /\ claim[c] = NoClaim
  /\ row[r] # NoRow
  /\ row[r].done /\ ~row[r].claimed
  /\ row' = [row EXCEPT ![r].claimed = TRUE]
  /\ claim' = [claim EXCEPT ![c] = [id |-> r, user |-> u]]
  /\ taken' = [taken EXCEPT ![r] = u]
  /\ UNCHANGED <<adminVars, rows, day, job, credits, played, lost, faults>>

\* Gems and coins are credited by a statement of its own, the GK never.
CreditReward(c) ==
  /\ claim[c] # NoClaim
  /\ credits' = [credits EXCEPT ![claim[c].id][claim[c].user] = @ + 1]
  /\ claim' = [claim EXCEPT ![c] = NoClaim]
  /\ UNCHANGED <<adminVars, rowVars, day, job, taken, played, lost, faults>>
-----------------------------------------------------------------------------
(* The admin's commands.                                                   *)

CreateQuest(q) ==
  /\ quest[q] = "none"
  /\ quest' = [quest EXCEPT ![q] = "active"]
  /\ UNCHANGED <<deleting, rowVars, day, job, claimVars, played, lost, faults>>

ToggleQuestActive(q) ==
  /\ quest[q] \in {"active", "hidden"}
  /\ quest' = [quest EXCEPT ![q] = IF @ = "active" THEN "hidden" ELSE "active"]
  /\ UNCHANGED <<deleting, rowVars, day, job, claimVars, played, lost, faults>>

RowsGone(q) ==
  /\ row' = [r \in RowIds |-> IF row[r] # NoRow /\ row[r].key[2] = q THEN NoRow ELSE row[r]]
  /\ lost' = lost \cup {u \in Users : \E r \in RowIds :
                          row[r] # NoRow /\ row[r].key[1] = u /\ row[r].key[2] = q}

\* DeleteQuest: the rows, ...
DeleteProgress(q) ==
  /\ quest[q] \in {"active", "hidden"}
  /\ deleting' = deleting \cup {q}
  /\ RowsGone(q)
  /\ UNCHANGED <<quest, rows, day, job, claimVars, played, faults>>

\* ... and the quest, with the rows that were inserted in between (ON DELETE
\* CASCADE).
DeleteQuest(q) ==
  /\ q \in deleting
  /\ deleting' = deleting \ {q}
  /\ quest' = [quest EXCEPT ![q] = "deleted"]
  /\ RowsGone(q)
  /\ UNCHANGED <<rows, day, job, claimVars, played, faults>>
-----------------------------------------------------------------------------
(* Time and faults.                                                        *)

NextDay ==
  /\ day < LastDay
  /\ day' = day + 1
  /\ UNCHANGED <<adminVars, rowVars, job, claimVars, played, lost, faults>>

\* A statement of a recording fails: that quest is left, the error ignored.
RecordingFails(g) ==
  /\ AtWork(g)
  /\ job[g].todo # {}
  /\ faults < MaxFaults
  /\ faults' = faults + 1
  /\ job' = Leave(g, "next")
  /\ lost' = lost \cup {job[g].user}
  /\ UNCHANGED <<adminVars, rowVars, day, claimVars, played>>

\* The process stops and starts again, or the 5 s of every recording, and
\* every other statement that is under way, fail together.
Restart ==
  /\ faults < MaxFaults
  /\ faults' = faults + 1
  /\ deleting' = {}
  /\ lost' = lost \cup {job[g].user : g \in {g \in Games : AtWork(g)}}
  /\ job' = [g \in Games |-> IF AtWork(g) THEN [NewJob EXCEPT !.at = "over"] ELSE job[g]]
  /\ claim' = [c \in Claims |-> NoClaim]
  /\ UNCHANGED <<quest, rowVars, day, taken, credits, played>>
-----------------------------------------------------------------------------
Step(g) == FindProgress(g) \/ InsertProgress(g) \/ UpdateProgress(g) \/ Recorded(g)

Next ==
  \/ \E g \in Games : Step(g) \/ RecordingFails(g)
  \/ \E g \in Games, u \in Users, result \in Results : RecordGame(g, u, result)
  \/ \E c \in Claims : CreditReward(c) \/ \E u \in Users, r \in RowIds : ClaimReward(c, u, r)
  \/ \E q \in Quests : CreateQuest(q) \/ ToggleQuestActive(q) \/ DeleteProgress(q) \/ DeleteQuest(q)
  \/ NextDay \/ Restart

Spec == Init /\ [][Next]_vars
-----------------------------------------------------------------------------
(* A row of progress is claimed by one user for good, and its reward paid  *)
(* to him at most once (Promise!Spec), whatever recordings with an old     *)
(* copy of the row write meanwhile.                                        *)
Promise == INSTANCE PayOnce WITH
  Things <- RowIds, Payees <- Users, None <- Nobody, owner <- taken, paid <- credits

PromiseKept == Promise!Spec

\* Progress comes from games that count, and a reward was played for.  It
\* lacks none of them, once they are recorded, when the games of a user do
\* not overlap and nothing is lost on the way.
Progress(key) == IF RowsOf(key) = {} THEN 0 ELSE row[CHOOSE r \in RowsOf(key) : TRUE].count

ProgressIsPlayed ==
  /\ \A r \in RowIds : row[r] # NoRow =>
       /\ row[r].count <= played[row[r].key]
       /\ row[r].done \/ row[r].claimed => played[row[r].key] >= Target[row[r].key[2]]
  /\ \A key \in Keys : key[1] \notin lost /\ ~Working(key[1]) =>
       Progress(key) = IF played[key] < Target[key[2]] THEN played[key] ELSE Target[key[2]]

\* "if it is completed already, nothing": a completed quest stays so.
CompletedStays == [][\A r \in RowIds :
  row[r] # NoRow /\ row'[r] # NoRow /\ row[r].done => row'[r].done]_vars
=============================================================================
