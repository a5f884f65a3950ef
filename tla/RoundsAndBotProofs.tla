------------------------ MODULE RoundsAndBotProofs ------------------------
(***************************************************************************)
(* Theorems about two machines that have nothing to do with each other.    *)
(*                                                                         *)
(* RoomRounds, for any number of rounds, polls and timers and for both     *)
(* games: types, the two mutual exclusions of the room, how many timers it *)
(* starts, and, for RPS, that saveResult finds the result that was         *)
(* announced.                                                              *)
(*                                                                         *)
(* AdminBot, for any number of messages and restarts: types, and that what *)
(* an admin asks for one message at a time is not done more often than he  *)
(* asks.  The names of AdminBot are chosen apart from those of RoomRounds, *)
(* so that one module can extend both.                                     *)
(***************************************************************************)
EXTENDS RoomRounds, AdminBot, FiniteSetTheorems, TLAPS

-----------------------------------------------------------------------------
(* Lemmas about the steps of a goroutine.                                  *)

\* The goroutines differ from each other, and results from players.
LEMMA Distinct ==
  /\ Players \subseteq Threads /\ Timers \subseteq Threads
  /\ RunLoop \in Threads /\ Setup \in Threads
  /\ RunLoop \notin Players /\ RunLoop \notin Timers /\ RunLoop # Setup
  /\ Setup \notin Players /\ Setup \notin Timers
  /\ Players \cap Timers = {}
  /\ Draw \notin Players /\ Undecided \notin Players /\ Draw # Undecided
  /\ 0 \notin Timers /\ Timers \subseteq Nat
  <1>1. /\ Players \subseteq Threads /\ Timers \subseteq Threads
        /\ RunLoop \in Threads /\ Setup \in Threads
    BY DEF Threads
  <1>2. /\ RunLoop \notin Players /\ RunLoop \notin Timers /\ RunLoop # Setup
        /\ Setup \notin Players /\ Setup \notin Timers
        /\ Draw \notin Players /\ Undecided \notin Players
    BY RoundsAssumption
  <1>3. Players \cap Timers = {}
    BY RoundsAssumption DEF Players
  <1>4. Draw # Undecided
    BY DEF Draw, Undecided
  <1>5. 0 \notin Timers /\ Timers \subseteq Nat
    BY RoundsAssumption DEF Timers
  <1> QED
    BY <1>1, <1>2, <1>3, <1>4, <1>5

\* Goto moves one goroutine and leaves the others where they are.
LEMMA GotoEffect ==
  ASSUME TypeOK, NEW t \in Threads, NEW label \in Labels, Goto(t, label)
  PROVE  /\ pc' \in [Threads -> Labels]
         /\ busy' \subseteq Threads
         /\ pc'[t] = label
         /\ \A u \in Threads : u # t => pc'[u] = pc[u]
  BY DEF Goto, TypeOK, AtWork

\* Stopping a timer moves at most that timer.
LEMMA StoppedEffect ==
  ASSUME TypeOK
  PROVE  /\ Stopped \in [Threads -> Labels]
         /\ \A u \in Threads : Stopped[u] = pc[u] \/ (u \in Timers /\ Stopped[u] = "off")
         /\ timer # 0 => Stopped[timer] # "armed"
  BY Distinct DEF Stopped, TypeOK, Labels

\* startRound moves its goroutine on and may stop one timer and start another.
LEMMA StartRoundEffect ==
  ASSUME TypeOK, NEW t \in Threads, NEW next \in Labels \ {"armed"}, StartRound(t, next)
  PROVE  /\ pc' \in [Threads -> Labels]
         /\ busy' \subseteq Threads
         /\ timer' \in {0} \cup Timers /\ timerRound' \in {0} \cup Timers
         /\ \A u \in Threads :
              \/ u = t /\ pc'[u] = next
              \/ pc'[u] = pc[u]
              \/ u \in Timers /\ pc'[u] \in {"off", "armed"}
  <1>1. CASE roundStarted
    <2>1. Goto(t, next) /\ UNCHANGED timerVars
      BY <1>1 DEF StartRound
    <2>2. UNCHANGED <<timer, timerRound>>
      BY <2>1 DEF timerVars
    <2>3. /\ pc' \in [Threads -> Labels]
          /\ busy' \subseteq Threads
          /\ pc'[t] = next
          /\ \A u \in Threads : u # t => pc'[u] = pc[u]
      BY <2>1, GotoEffect
    <2> QED
      BY <2>2, <2>3 DEF TypeOK
  <1>2. CASE ~roundStarted
    <2>1. timerRound + 1 \in Timers
      BY <1>2, RoundsAssumption DEF StartRound, TypeOK, Timers
    <2>2. /\ timerRound' = timerRound + 1
          /\ timer' = timerRound + 1
          /\ pc' = [Stopped EXCEPT ![t] = next, ![timerRound + 1] = "armed"]
          /\ busy' = AtWork(pc')
      BY <1>2 DEF StartRound
    <2>3. pc' \in [Threads -> Labels]
      BY <2>1, <2>2, StoppedEffect, Distinct DEF Labels
    <2>4. \A u \in Threads : \/ u = t /\ pc'[u] = next
                             \/ u = timerRound + 1 /\ pc'[u] = "armed"
                             \/ pc'[u] = Stopped[u]
      BY <2>1, <2>2, StoppedEffect, Distinct
    <2>5. busy' \subseteq Threads
      BY <2>2 DEF AtWork
    <2>6. /\ timer' \in {0} \cup Timers
          /\ timerRound' \in {0} \cup Timers
      BY <2>1, <2>2
    <2>7. ASSUME NEW u \in Threads
          PROVE  \/ u = t /\ pc'[u] = next
                 \/ pc'[u] = pc[u]
                 \/ u \in Timers /\ pc'[u] \in {"off", "armed"}
      BY <2>1, <2>4, StoppedEffect
    <2> QED
      BY <2>3, <2>5, <2>6, <2>7
  <1> QED
    BY <1>1, <1>2

-----------------------------------------------------------------------------
(* Typing.                                                                 *)

\* CheckResult, HandleMove and the bots keep the types of the game.
LEMMA GameType ==
  ASSUME TypeOK
  PROVE  /\ Verdict \in Results
         /\ CheckResult => /\ boards' \in [Players -> Placements]
                           /\ moves' \in [Players -> Moves \cup {NoMove}]
                           /\ round' \in 0 .. MaxRounds
                           /\ result' \in Results
         /\ \A p \in Players : HandleMove(p) =>
                           /\ boards' \in [Players -> Placements]
                           /\ moves' \in [Players -> Moves \cup {NoMove}]
                           /\ round' = round /\ result' = result
         /\ CompleteSetup => /\ boards' \in [Players -> Placements]
                             /\ setupCompleted' \in BOOLEAN /\ setupDone' = setupDone
                             /\ moves' \in [Players -> Moves \cup {NoMove}]
                             /\ round' = round /\ result' = result
         /\ BotsMove => /\ boards' = boards /\ round' = round /\ result' = result
                        /\ moves' \in [Players -> Moves]
  <1>1. Verdict \in Results
    BY DEF Verdict, Winner, Results, Players
  <1>2. CheckResult => /\ boards' \in [Players -> Placements]
                      /\ moves' \in [Players -> Moves \cup {NoMove}]
                      /\ round' \in 0 .. MaxRounds
                      /\ result' \in Results
    BY <1>1, RoundsAssumption DEF CheckResult, TypeOK
  <1>3. \A p \in Players : HandleMove(p) =>
                      /\ boards' \in [Players -> Placements]
                      /\ moves' \in [Players -> Moves \cup {NoMove}]
                      /\ round' = round /\ result' = result
    BY DEF HandleMove, TypeOK, Placements
  <1>4. CompleteSetup => /\ boards' \in [Players -> Placements]
                        /\ setupCompleted' \in BOOLEAN /\ setupDone' = setupDone
                        /\ moves' \in [Players -> Moves \cup {NoMove}]
                        /\ round' = round /\ result' = result
    <2>1. \A m \in LateMoves : m \in [Players -> Moves \cup {NoMove}]
      BY DEF LateMoves, TypeOK
    <2> QED
      BY <2>1 DEF CompleteSetup, BotsPlace, gameVars, TypeOK, Placements
  <1>5. BotsMove => /\ boards' = boards /\ round' = round /\ result' = result
                   /\ moves' \in [Players -> Moves]
    BY DEF BotsMove
  <1> QED
    BY <1>1, <1>2, <1>3, <1>4, <1>5

\* Every step keeps every type.
LEMMA TypeStep == TypeOK /\ [Next]_vars => TypeOK'
  <1> SUFFICES ASSUME TypeOK, [Next]_vars PROVE TypeOK'
    OBVIOUS
  <1>1. ASSUME NEW p \in Players, Move(p) PROVE TypeOK'
    BY <1>1, GameType, GotoEffect, Distinct DEF Move, TypeOK, Labels, vars, gameVars, setupVars, timerVars, flagVars, outVars
  <1>2. ASSUME NEW p \in Players, AskSetup(p) PROVE TypeOK'
    BY <1>2, GotoEffect, Distinct DEF AskSetup, TypeOK, Labels, vars, gameVars, setupVars, timerVars, flagVars, outVars
  <1>3. ASSUME NEW p \in Players, AskRound(p) PROVE TypeOK'
    BY <1>3, GotoEffect, Distinct DEF AskRound, TypeOK, Labels, vars, gameVars, setupVars, timerVars, flagVars, outVars
  <1>4. ASSUME NEW p \in Players, FinishSetup(p) PROVE TypeOK'
    BY <1>4, GotoEffect, Distinct DEF FinishSetup, TypeOK, Labels, vars, gameVars, setupVars, timerVars, flagVars, outVars
  <1>5. ASSUME NEW p \in Players, CloseSetup(p) PROVE TypeOK'
    BY <1>5, GotoEffect, Distinct DEF CloseSetup, TypeOK, Labels, vars, gameVars, setupVars, timerVars, flagVars, outVars
  <1>6. ASSUME NEW p \in Players, ResetFirst(p) PROVE TypeOK'
    BY <1>6, GotoEffect, Distinct DEF ResetFirst, ResetRound, TypeOK, Labels, vars, gameVars, setupVars, timerVars, flagVars, outVars
  <1>7. ASSUME NEW p \in Players, StartFirst(p) PROVE TypeOK'
    BY <1>7, StartRoundEffect, Distinct DEF StartFirst, StartRound, TypeOK, Labels, vars, gameVars, setupVars, timerVars, flagVars, outVars
  <1>8. ASSUME NEW p \in Players, StopTimer(p) PROVE TypeOK'
    BY <1>8, StoppedEffect, Distinct DEF StopTimer, TypeOK, Labels, vars, gameVars, setupVars, timerVars, flagVars, outVars
  <1>9. ASSUME SetupWakes PROVE TypeOK'
    BY <1>9, GotoEffect, Distinct DEF SetupWakes, TypeOK, Labels, vars, gameVars, setupVars, timerVars, flagVars, outVars
  <1>10. ASSUME SetupCompletes PROVE TypeOK'
    BY <1>10, GameType, GotoEffect, Distinct DEF SetupCompletes, TypeOK, Labels, vars, gameVars, setupVars, timerVars, flagVars, outVars
  <1>11. ASSUME SetupResets PROVE TypeOK'
    BY <1>11, GotoEffect, Distinct DEF SetupResets, ResetRound, TypeOK, Labels, vars, gameVars, setupVars, timerVars, flagVars, outVars
  <1>12. ASSUME SetupStarts PROVE TypeOK'
    BY <1>12, StartRoundEffect, Distinct DEF SetupStarts, StartRound, TypeOK, Labels, vars, gameVars, setupVars, timerVars, flagVars, outVars
  <1>13. ASSUME SetupCloses PROVE TypeOK'
    BY <1>13, GotoEffect, Distinct DEF SetupCloses, TypeOK, Labels, vars, gameVars, setupVars, timerVars, flagVars, outVars
  <1>14. ASSUME NEW k \in Timers, Fire(k) PROVE TypeOK'
    BY <1>14, GotoEffect, Distinct DEF Fire, TypeOK, Labels, vars, gameVars, setupVars, timerVars, flagVars, outVars
  <1>15. ASSUME NEW k \in Timers, RoundTimeout(k) PROVE TypeOK'
    BY <1>15, GameType, GotoEffect, Distinct DEF RoundTimeout, TypeOK, Labels, vars, gameVars, setupVars, timerVars, flagVars, outVars, Results
  <1>16. ASSUME Poll PROVE TypeOK'
    BY <1>16, GotoEffect, Distinct, RoundsAssumption DEF Poll, TypeOK, Labels, vars, gameVars, setupVars, timerVars, flagVars, outVars
  <1>17. ASSUME BothPresent PROVE TypeOK'
    BY <1>17, GotoEffect, Distinct DEF BothPresent, TypeOK, Labels, vars, gameVars, setupVars, timerVars, flagVars, outVars
  <1>18. ASSUME RunStarts PROVE TypeOK'
    BY <1>18, StartRoundEffect, Distinct DEF RunStarts, StartRound, TypeOK, Labels, vars, gameVars, setupVars, timerVars, flagVars, outVars
  <1>19. ASSUME SaveResult PROVE TypeOK'
    BY <1>19, GameType, GotoEffect, Distinct DEF SaveResult, TypeOK, Labels, vars, gameVars, setupVars, timerVars, flagVars, outVars
  <1>20. ASSUME Cleanup PROVE TypeOK'
    BY <1>20, StoppedEffect, Distinct DEF Cleanup, TypeOK, Labels, vars, gameVars, setupVars, timerVars, flagVars, outVars, AtWork
  <1>21. ASSUME NEW t \in Threads, EnterCheck(t) PROVE TypeOK'
    BY <1>21, GotoEffect, Distinct DEF EnterCheck, TypeOK, Labels, vars, gameVars, setupVars, timerVars, flagVars, outVars, Return
  <1>22. ASSUME NEW t \in Threads, Judge(t) PROVE TypeOK'
    BY <1>22, GameType, GotoEffect, Distinct DEF Judge, TypeOK, Labels, vars, gameVars, setupVars, timerVars, flagVars, outVars
  <1>23. ASSUME NEW t \in Threads, NextRound(t) PROVE TypeOK'
    BY <1>23, GotoEffect, Distinct DEF NextRound, ResetRound, TypeOK, Labels, vars, gameVars, setupVars, timerVars, flagVars, outVars
  <1>24. ASSUME NEW t \in Threads, RestartRound(t) PROVE TypeOK'
    BY <1>24, StartRoundEffect, Distinct DEF RestartRound, StartRound, TypeOK, Labels, vars, gameVars, setupVars, timerVars, flagVars, outVars
  <1>25. ASSUME NEW t \in Threads, LeaveCheck(t) PROVE TypeOK'
    BY <1>25, GotoEffect, Distinct DEF LeaveCheck, TypeOK, Labels, vars, gameVars, setupVars, timerVars, flagVars, outVars, Return
  <1>26. ASSUME UNCHANGED vars PROVE TypeOK'
    BY <1>26 DEF TypeOK, vars, gameVars, setupVars, timerVars, flagVars, outVars
  <1> QED
    BY <1>1, <1>2, <1>3, <1>4, <1>5, <1>6, <1>7, <1>8, <1>9, <1>10, <1>11, <1>12, <1>13, <1>14, <1>15, <1>16, <1>17, <1>18, <1>19, <1>20, <1>21, <1>22, <1>23, <1>24, <1>25, <1>26
    DEF Next, PlayerStep, SetupStep, TimerStep, RunStep, CheckRound, Threads

\* Every variable keeps its type, whatever the goroutines of the room do.
THEOREM RoundsTypeCorrect == Spec => []TypeOK
<1>1. Init => TypeOK
  <2> SUFFICES ASSUME Init PROVE TypeOK
    OBVIOUS
  <2>1. pc \in [Threads -> Labels]
    BY DEF Init, Labels
  <2>2. round \in 0 .. MaxRounds /\ polled \in 0 .. Polls
    BY RoundsAssumption DEF Init
  <2> QED
    BY <2>1, <2>2 DEF Init, TypeOK, Results, Placements
<1> QED
  BY <1>1, TypeStep, PTL DEF Spec
-----------------------------------------------------------------------------
(* One goroutine judges.                                                   *)

\* The flag is set whenever somebody is inside checkRound.
CheckInv == (\A t \in Threads : Checking(t) => roundChecking) /\ OneChecker

\* Nobody enters checkRound, and the flag stays.
NoNewChecker ==
  /\ roundChecking' = roundChecking
  /\ \A u \in Threads : Checking(u)' => Checking(u)

\* Only EnterCheck lets a goroutine in, and LeaveCheck leaves nobody behind.
LEMMA CheckStep == TypeOK /\ CheckInv /\ [Next]_vars => CheckInv'
  <1> SUFFICES ASSUME TypeOK, CheckInv, [Next]_vars PROVE CheckInv'
    OBVIOUS
  <1>1. ASSUME NEW p \in Players, Move(p) PROVE NoNewChecker
    BY <1>1, GotoEffect, Distinct DEF Move, NoNewChecker, Checking, TypeOK, Labels, vars, gameVars, setupVars, timerVars, flagVars, outVars
  <1>2. ASSUME NEW p \in Players, AskSetup(p) PROVE NoNewChecker
    BY <1>2, GotoEffect, Distinct DEF AskSetup, NoNewChecker, Checking, TypeOK, Labels, vars, gameVars, setupVars, timerVars, flagVars, outVars
  <1>3. ASSUME NEW p \in Players, AskRound(p) PROVE NoNewChecker
    BY <1>3, GotoEffect, Distinct DEF AskRound, NoNewChecker, Checking, TypeOK, Labels, vars, gameVars, setupVars, timerVars, flagVars, outVars
  <1>4. ASSUME NEW p \in Players, FinishSetup(p) PROVE NoNewChecker
    BY <1>4, GotoEffect, Distinct DEF FinishSetup, NoNewChecker, Checking, TypeOK, Labels, vars, gameVars, setupVars, timerVars, flagVars, outVars
  <1>5. ASSUME NEW p \in Players, CloseSetup(p) PROVE NoNewChecker
    BY <1>5, GotoEffect, Distinct DEF CloseSetup, NoNewChecker, Checking, TypeOK, Labels, vars, gameVars, setupVars, timerVars, flagVars, outVars
  <1>6. ASSUME NEW p \in Players, ResetFirst(p) PROVE NoNewChecker
    BY <1>6, GotoEffect, Distinct DEF ResetFirst, ResetRound, NoNewChecker, Checking, TypeOK, Labels, vars, gameVars, setupVars, timerVars, flagVars, outVars
  <1>7. ASSUME NEW p \in Players, StartFirst(p) PROVE NoNewChecker
    BY <1>7, StartRoundEffect, Distinct DEF StartFirst, StartRound, NoNewChecker, Checking, TypeOK, Labels, vars, gameVars, setupVars, timerVars, flagVars, outVars
  <1>8. ASSUME NEW p \in Players, StopTimer(p) PROVE NoNewChecker
    BY <1>8, StoppedEffect, Distinct DEF StopTimer, NoNewChecker, Checking, TypeOK, Labels, vars, gameVars, setupVars, timerVars, flagVars, outVars
  <1>9. ASSUME SetupWakes PROVE NoNewChecker
    BY <1>9, GotoEffect, Distinct DEF SetupWakes, NoNewChecker, Checking, TypeOK, Labels, vars, gameVars, setupVars, timerVars, flagVars, outVars
  <1>10. ASSUME SetupCompletes PROVE NoNewChecker
    BY <1>10, GotoEffect, Distinct DEF SetupCompletes, NoNewChecker, Checking, TypeOK, Labels, vars, gameVars, setupVars, timerVars, flagVars, outVars
  <1>11. ASSUME SetupResets PROVE NoNewChecker
    BY <1>11, GotoEffect, Distinct DEF SetupResets, ResetRound, NoNewChecker, Checking, TypeOK, Labels, vars, gameVars, setupVars, timerVars, flagVars, outVars
  <1>12. ASSUME SetupStarts PROVE NoNewChecker
    BY <1>12, StartRoundEffect, Distinct DEF SetupStarts, StartRound, NoNewChecker, Checking, TypeOK, Labels, vars, gameVars, setupVars, timerVars, flagVars, outVars
  <1>13. ASSUME SetupCloses PROVE NoNewChecker
    BY <1>13, GotoEffect, Distinct DEF SetupCloses, NoNewChecker, Checking, TypeOK, Labels, vars, gameVars, setupVars, timerVars, flagVars, outVars
  <1>14. ASSUME NEW k \in Timers, Fire(k) PROVE NoNewChecker
    BY <1>14, GotoEffect, Distinct DEF Fire, NoNewChecker, Checking, TypeOK, Labels, vars, gameVars, setupVars, timerVars, flagVars, outVars
  <1>15. ASSUME NEW k \in Timers, RoundTimeout(k) PROVE NoNewChecker
    BY <1>15, GotoEffect, Distinct DEF RoundTimeout, NoNewChecker, Checking, TypeOK, Labels, vars, gameVars, setupVars, timerVars, flagVars, outVars
  <1>16. ASSUME Poll PROVE NoNewChecker
    BY <1>16, GotoEffect, Distinct DEF Poll, NoNewChecker, Checking, TypeOK, Labels, vars, gameVars, setupVars, timerVars, flagVars, outVars
  <1>17. ASSUME BothPresent PROVE NoNewChecker
    BY <1>17, GotoEffect, Distinct DEF BothPresent, NoNewChecker, Checking, TypeOK, Labels, vars, gameVars, setupVars, timerVars, flagVars, outVars
  <1>18. ASSUME RunStarts PROVE NoNewChecker
    BY <1>18, StartRoundEffect, Distinct DEF RunStarts, StartRound, NoNewChecker, Checking, TypeOK, Labels, vars, gameVars, setupVars, timerVars, flagVars, outVars
  <1>19. ASSUME SaveResult PROVE NoNewChecker
    BY <1>19, GotoEffect, Distinct DEF SaveResult, NoNewChecker, Checking, TypeOK, Labels, vars, gameVars, setupVars, timerVars, flagVars, outVars
  <1>20. ASSUME Cleanup PROVE NoNewChecker
    BY <1>20, StoppedEffect, Distinct DEF Cleanup, NoNewChecker, Checking, TypeOK, Labels, vars, gameVars, setupVars, timerVars, flagVars, outVars
  <1>21. ASSUME NEW t \in Threads, EnterCheck(t) PROVE CheckInv'
    BY <1>21, GotoEffect, Distinct DEF EnterCheck, Return, CheckInv, OneChecker, Checking, TypeOK, Labels
  <1>22. ASSUME NEW t \in Threads, Judge(t) PROVE NoNewChecker
    BY <1>22, GotoEffect, Distinct DEF Judge, NoNewChecker, Checking, TypeOK, Labels, vars, gameVars, setupVars, timerVars, flagVars, outVars
  <1>23. ASSUME NEW t \in Threads, NextRound(t) PROVE NoNewChecker
    BY <1>23, GotoEffect, Distinct DEF NextRound, ResetRound, NoNewChecker, Checking, TypeOK, Labels, vars, gameVars, setupVars, timerVars, flagVars, outVars
  <1>24. ASSUME NEW t \in Threads, RestartRound(t) PROVE NoNewChecker
    BY <1>24, StartRoundEffect, Distinct DEF RestartRound, StartRound, NoNewChecker, Checking, TypeOK, Labels, vars, gameVars, setupVars, timerVars, flagVars, outVars
  <1>25. ASSUME NEW t \in Threads, LeaveCheck(t) PROVE CheckInv'
    BY <1>25, GotoEffect, Distinct DEF LeaveCheck, Return, CheckInv, OneChecker, Checking, TypeOK, Labels
  <1>26. ASSUME UNCHANGED vars PROVE NoNewChecker
    BY <1>26 DEF NoNewChecker, Checking, vars, flagVars
  <1>27. ASSUME NoNewChecker PROVE CheckInv'
    BY <1>27 DEF NoNewChecker, CheckInv, OneChecker
  <1> QED
    BY <1>1, <1>2, <1>3, <1>4, <1>5, <1>6, <1>7, <1>8, <1>9, <1>10, <1>11, <1>12, <1>13, <1>14, <1>15, <1>16, <1>17, <1>18, <1>19, <1>20, <1>21, <1>22, <1>23, <1>24, <1>25, <1>26, <1>27
    DEF Next, PlayerStep, SetupStep, TimerStep, RunStep, CheckRound, Threads

\* No two goroutines judge a round or start the next at the same time.
THEOREM OneCheckerHolds == Spec => []OneChecker
<1>1. Init => CheckInv
  BY Distinct DEF Init, CheckInv, OneChecker, Checking
<1>2. CheckInv => OneChecker
  BY DEF CheckInv
<1> QED
  BY <1>1, <1>2, CheckStep, RoundsTypeCorrect, PTL DEF Spec
-----------------------------------------------------------------------------
(* One timer runs.                                                         *)

\* No timer is started, and Room.timer stays.
NoNewTimer ==
  /\ timer' = timer
  /\ \A k \in Timers : pc'[k] = "armed" => pc[k] = "armed"

\* After a Stop no timer is armed.
LEMMA StopEffect ==
  ASSUME TypeOK, OneTimer, NEW t \in Threads \ Timers, NEW label \in Labels,
         pc' = [Stopped EXCEPT ![t] = label]
  PROVE  \A k \in Timers : pc'[k] # "armed"
  <1> SUFFICES ASSUME NEW k \in Timers, pc'[k] = "armed" PROVE FALSE
    OBVIOUS
  <1>1. Stopped[k] = "armed"
    BY StoppedEffect, Distinct
  <1>2. pc[k] = "armed"
    BY <1>1, StoppedEffect, Distinct
  <1>3. k = timer /\ timer # 0
    BY <1>2, Distinct DEF OneTimer
  <1> QED
    BY <1>1, <1>3, StoppedEffect

\* startRound stops the old timer before it starts the next.
LEMMA StartRoundTimer ==
  ASSUME TypeOK, OneTimer, NEW t \in Threads, NEW next \in Labels \ {"armed"}, StartRound(t, next)
  PROVE  OneTimer'
  <1>1. CASE roundStarted
    <2>1. Goto(t, next) /\ timer' = timer
      BY <1>1 DEF StartRound, timerVars
    <2>2. pc'[t] = next /\ \A u \in Threads : u # t => pc'[u] = pc[u]
      BY <2>1, GotoEffect
    <2> QED
      BY <2>1, <2>2, Distinct DEF OneTimer
  <1>2. CASE ~roundStarted
    <2>1. timerRound + 1 \in Timers
      BY <1>2, RoundsAssumption DEF StartRound, TypeOK, Timers
    <2>2. timer' = timerRound + 1 /\ pc' = [Stopped EXCEPT ![t] = next, ![timerRound + 1] = "armed"]
      BY <1>2 DEF StartRound
    <2>3. ASSUME NEW k \in Timers, pc'[k] = "armed", k # timerRound + 1 PROVE FALSE
      <3>1. Stopped[k] = "armed"
        BY <2>1, <2>2, <2>3, StoppedEffect, Distinct
      <3>2. pc[k] = "armed"
        BY <3>1, StoppedEffect, Distinct
      <3>3. k = timer /\ timer # 0
        BY <3>2, Distinct DEF OneTimer
      <3> QED
        BY <3>1, <3>3, StoppedEffect
    <2> QED
      BY <2>2, <2>3 DEF OneTimer
  <1> QED
    BY <1>1, <1>2

\* Every other step leaves the timers that run as they are, or stops them.
LEMMA TimerKept == TypeOK /\ OneTimer /\ [Next]_vars => OneTimer'
  <1> SUFFICES ASSUME TypeOK, OneTimer, [Next]_vars PROVE OneTimer'
    OBVIOUS
  <1>1. ASSUME NEW p \in Players, Move(p) PROVE NoNewTimer
    BY <1>1, GotoEffect, Distinct DEF Move, NoNewTimer, TypeOK, Labels, vars, gameVars, setupVars, timerVars, flagVars, outVars
  <1>2. ASSUME NEW p \in Players, AskSetup(p) PROVE NoNewTimer
    BY <1>2, GotoEffect, Distinct DEF AskSetup, NoNewTimer, TypeOK, Labels, vars, gameVars, setupVars, timerVars, flagVars, outVars
  <1>3. ASSUME NEW p \in Players, AskRound(p) PROVE NoNewTimer
    BY <1>3, GotoEffect, Distinct DEF AskRound, NoNewTimer, TypeOK, Labels, vars, gameVars, setupVars, timerVars, flagVars, outVars
  <1>4. ASSUME NEW p \in Players, FinishSetup(p) PROVE NoNewTimer
    BY <1>4, GotoEffect, Distinct DEF FinishSetup, NoNewTimer, TypeOK, Labels, vars, gameVars, setupVars, timerVars, flagVars, outVars
  <1>5. ASSUME NEW p \in Players, CloseSetup(p) PROVE NoNewTimer
    BY <1>5, GotoEffect, Distinct DEF CloseSetup, NoNewTimer, TypeOK, Labels, vars, gameVars, setupVars, timerVars, flagVars, outVars
  <1>6. ASSUME NEW p \in Players, ResetFirst(p) PROVE NoNewTimer
    BY <1>6, GotoEffect, Distinct DEF ResetFirst, ResetRound, NoNewTimer, TypeOK, Labels, vars, gameVars, setupVars, timerVars, flagVars, outVars
  <1>7. ASSUME NEW p \in Players, StartFirst(p) PROVE OneTimer'
    BY <1>7, StartRoundTimer, Distinct DEF StartFirst, Labels
  <1>8. ASSUME NEW p \in Players, StopTimer(p) PROVE OneTimer'
    BY <1>8, StopEffect, Distinct DEF StopTimer, Labels, OneTimer
  <1>9. ASSUME SetupWakes PROVE NoNewTimer
    BY <1>9, GotoEffect, Distinct DEF SetupWakes, NoNewTimer, TypeOK, Labels, vars, gameVars, setupVars, timerVars, flagVars, outVars
  <1>10. ASSUME SetupCompletes PROVE NoNewTimer
    BY <1>10, GotoEffect, Distinct DEF SetupCompletes, NoNewTimer, TypeOK, Labels, vars, gameVars, setupVars, timerVars, flagVars, outVars
  <1>11. ASSUME SetupResets PROVE NoNewTimer
    BY <1>11, GotoEffect, Distinct DEF SetupResets, ResetRound, NoNewTimer, TypeOK, Labels, vars, gameVars, setupVars, timerVars, flagVars, outVars
  <1>12. ASSUME SetupStarts PROVE OneTimer'
    BY <1>12, StartRoundTimer, Distinct DEF SetupStarts, Labels
  <1>13. ASSUME SetupCloses PROVE NoNewTimer
    BY <1>13, GotoEffect, Distinct DEF SetupCloses, NoNewTimer, TypeOK, Labels, vars, gameVars, setupVars, timerVars, flagVars, outVars
  <1>14. ASSUME NEW k \in Timers, Fire(k) PROVE NoNewTimer
    BY <1>14, GotoEffect, Distinct DEF Fire, NoNewTimer, TypeOK, Labels, vars, gameVars, setupVars, timerVars, flagVars, outVars
  <1>15. ASSUME NEW k \in Timers, RoundTimeout(k) PROVE NoNewTimer
    BY <1>15, GotoEffect, Distinct DEF RoundTimeout, NoNewTimer, TypeOK, Labels, vars, gameVars, setupVars, timerVars, flagVars, outVars
  <1>16. ASSUME Poll PROVE NoNewTimer
    BY <1>16, GotoEffect, Distinct DEF Poll, NoNewTimer, TypeOK, Labels, vars, gameVars, setupVars, timerVars, flagVars, outVars
  <1>17. ASSUME BothPresent PROVE NoNewTimer
    BY <1>17, GotoEffect, Distinct DEF BothPresent, NoNewTimer, TypeOK, Labels, vars, gameVars, setupVars, timerVars, flagVars, outVars
  <1>18. ASSUME RunStarts PROVE OneTimer'
    BY <1>18, StartRoundTimer, Distinct DEF RunStarts, Labels
  <1>19. ASSUME SaveResult PROVE NoNewTimer
    BY <1>19, GotoEffect, Distinct DEF SaveResult, NoNewTimer, TypeOK, Labels, vars, gameVars, setupVars, timerVars, flagVars, outVars
  <1>20. ASSUME Cleanup PROVE OneTimer'
    BY <1>20, StopEffect, Distinct DEF Cleanup, Labels, OneTimer
  <1>21. ASSUME NEW t \in Threads, EnterCheck(t) PROVE NoNewTimer
    BY <1>21, GotoEffect, Distinct DEF EnterCheck, NoNewTimer, Return, TypeOK, Labels, vars, gameVars, setupVars, timerVars, flagVars, outVars
  <1>22. ASSUME NEW t \in Threads, Judge(t) PROVE NoNewTimer
    BY <1>22, GotoEffect, Distinct DEF Judge, NoNewTimer, TypeOK, Labels, vars, gameVars, setupVars, timerVars, flagVars, outVars
  <1>23. ASSUME NEW t \in Threads, NextRound(t) PROVE NoNewTimer
    BY <1>23, GotoEffect, Distinct DEF NextRound, ResetRound, NoNewTimer, TypeOK, Labels, vars, gameVars, setupVars, timerVars, flagVars, outVars
  <1>24. ASSUME NEW t \in Threads, RestartRound(t) PROVE OneTimer'
    BY <1>24, StartRoundTimer, Distinct DEF RestartRound, Labels
  <1>25. ASSUME NEW t \in Threads, LeaveCheck(t) PROVE NoNewTimer
    BY <1>25, GotoEffect, Distinct DEF LeaveCheck, NoNewTimer, Return, TypeOK, Labels, vars, gameVars, setupVars, timerVars, flagVars, outVars
  <1>26. ASSUME UNCHANGED vars PROVE NoNewTimer
    BY <1>26 DEF NoNewTimer, vars, timerVars
  <1>27. ASSUME NoNewTimer PROVE OneTimer'
    BY <1>27 DEF NoNewTimer, OneTimer
  <1> QED
    BY <1>1, <1>2, <1>3, <1>4, <1>5, <1>6, <1>7, <1>8, <1>9, <1>10, <1>11, <1>12, <1>13, <1>14, <1>15, <1>16, <1>17, <1>18, <1>19, <1>20, <1>21, <1>22, <1>23, <1>24, <1>25, <1>26, <1>27
    DEF Next, PlayerStep, SetupStep, TimerStep, RunStep, CheckRound, Threads

\* At most one round timer runs, and it is the one the room can stop.
THEOREM OneTimerHolds == Spec => []OneTimer
<1>1. Init => OneTimer
  BY Distinct DEF Init, OneTimer
<1> QED
  BY <1>1, TimerKept, RoundsTypeCorrect, PTL DEF Spec
-----------------------------------------------------------------------------
(* How many timers a room starts.                                          *)

\* What may still clear roundStarted: the first completeSetup of each player,
\* the setup goroutine, a draw that was judged, and each draw to come.
PlayerMayReset(p) == pc[p] \in {"completing", "closing", "reset"} \/ ~setupCompleted
SetupMayReset == pc[Setup] \in {"armed", "completing", "reset"}
DrawMayReset == \E t \in Threads : pc[t] = "again"
DrawsLeft == IF round < MaxRounds THEN MaxRounds - 1 - round ELSE 0

One(b) == IF b THEN 1 ELSE 0
Used == timerRound + One(~roundStarted)

\* Every timer but the first follows a reset that cannot come again.
TimerInv ==
  /\ Used + One(PlayerMayReset(First)) + One(PlayerMayReset(Second))
          + One(SetupMayReset) + One(DrawMayReset) + DrawsLeft <= MaxRounds + 3
  /\ \A p \in Players : pc[p] \in {"closing", "reset"} => setupCompleted

\* A step that makes no reset possible.
NoNewReset ==
  /\ \A p \in Players : PlayerMayReset(p)' => PlayerMayReset(p)
  /\ SetupMayReset' => SetupMayReset
  /\ DrawMayReset' => DrawMayReset
  /\ DrawsLeft' <= DrawsLeft
  /\ \A p \in Players : pc'[p] \in {"closing", "reset"} => setupCompleted'

\* Timers and rounds are numbers, before a step and after it.
LEMMA RoundNumbers ==
  ASSUME TypeOK, TypeOK'
  PROVE  /\ timerRound \in Nat /\ timerRound' \in Nat
         /\ round \in Nat /\ round' \in Nat /\ MaxRounds \in Nat
         /\ roundStarted \in BOOLEAN /\ roundStarted' \in BOOLEAN
  <1>1. MaxRounds \in Nat
    BY RoundsAssumption
  <1>2. timerRound \in Nat /\ timerRound' \in Nat
    BY Distinct DEF TypeOK
  <1> QED
    BY <1>1, <1>2 DEF TypeOK

\* So is what they add up to.
LEMMA UsedNumbers ==
  ASSUME TypeOK, TypeOK'
  PROVE  Used \in Nat /\ Used' \in Nat /\ DrawsLeft \in Nat /\ DrawsLeft' \in Nat /\ MaxRounds \in Nat
  <1>1. Used \in Nat /\ Used' \in Nat
    BY RoundNumbers DEF Used, One
  <1>2. DrawsLeft \in Nat /\ DrawsLeft' \in Nat
    BY RoundNumbers DEF DrawsLeft
  <1> QED
    BY <1>1, <1>2, RoundNumbers

\* While no timer is started and no reset happens, nothing is used up.
LEMMA ResetsKept ==
  ASSUME TypeOK, TypeOK', TimerInv, NoNewReset, Used' <= Used
  PROVE  TimerInv'
  <1>1. /\ One(PlayerMayReset(First))' <= One(PlayerMayReset(First))
        /\ One(PlayerMayReset(Second))' <= One(PlayerMayReset(Second))
        /\ One(SetupMayReset)' <= One(SetupMayReset)
        /\ One(DrawMayReset)' <= One(DrawMayReset)
    BY DEF NoNewReset, One, Players
  <1>2. DrawsLeft' <= DrawsLeft
    BY DEF NoNewReset
  <1>3. /\ One(PlayerMayReset(First)) \in Nat /\ One(PlayerMayReset(First))' \in Nat
        /\ One(PlayerMayReset(Second)) \in Nat /\ One(PlayerMayReset(Second))' \in Nat
        /\ One(SetupMayReset) \in Nat /\ One(SetupMayReset)' \in Nat
        /\ One(DrawMayReset) \in Nat /\ One(DrawMayReset)' \in Nat
    BY DEF One
  <1>4. Used \in Nat /\ Used' \in Nat /\ DrawsLeft \in Nat /\ DrawsLeft' \in Nat /\ MaxRounds \in Nat
    BY UsedNumbers
  <1> QED
    BY <1>1, <1>2, <1>3, <1>4 DEF TimerInv, NoNewReset

\* A reset uses up the right to it.
LEMMA ResetUsed ==
  ASSUME TypeOK, TypeOK', TimerInv, NoNewReset, Used' <= Used + 1,
         \/ PlayerMayReset(First) /\ ~PlayerMayReset(First)'
         \/ PlayerMayReset(Second) /\ ~PlayerMayReset(Second)'
         \/ SetupMayReset /\ ~SetupMayReset'
         \/ DrawMayReset /\ ~DrawMayReset'
  PROVE  TimerInv'
  <1>1. /\ One(PlayerMayReset(First))' <= One(PlayerMayReset(First))
        /\ One(PlayerMayReset(Second))' <= One(PlayerMayReset(Second))
        /\ One(SetupMayReset)' <= One(SetupMayReset)
        /\ One(DrawMayReset)' <= One(DrawMayReset)
    BY DEF NoNewReset, One, Players
  <1>2. \/ One(PlayerMayReset(First))' + 1 = One(PlayerMayReset(First))
        \/ One(PlayerMayReset(Second))' + 1 = One(PlayerMayReset(Second))
        \/ One(SetupMayReset)' + 1 = One(SetupMayReset)
        \/ One(DrawMayReset)' + 1 = One(DrawMayReset)
    BY DEF One
  <1>3. DrawsLeft' <= DrawsLeft
    BY DEF NoNewReset
  <1>4. /\ One(PlayerMayReset(First)) \in Nat /\ One(PlayerMayReset(First))' \in Nat
        /\ One(PlayerMayReset(Second)) \in Nat /\ One(PlayerMayReset(Second))' \in Nat
        /\ One(SetupMayReset) \in Nat /\ One(SetupMayReset)' \in Nat
        /\ One(DrawMayReset) \in Nat /\ One(DrawMayReset)' \in Nat
    BY DEF One
  <1>5. Used \in Nat /\ Used' \in Nat /\ DrawsLeft \in Nat /\ DrawsLeft' \in Nat /\ MaxRounds \in Nat
    BY UsedNumbers
  <1> QED
    BY <1>1, <1>2, <1>3, <1>4, <1>5 DEF TimerInv, NoNewReset

\* A draw that was judged is one draw less to come.
LEMMA DrawUsed ==
  ASSUME TypeOK, TypeOK', TimerInv, Used' <= Used, DrawsLeft' + 1 <= DrawsLeft,
         \A p \in Players : PlayerMayReset(p)' => PlayerMayReset(p),
         SetupMayReset' => SetupMayReset,
         \A p \in Players : pc'[p] \in {"closing", "reset"} => setupCompleted'
  PROVE  TimerInv'
  <1>1. /\ One(PlayerMayReset(First))' <= One(PlayerMayReset(First))
        /\ One(PlayerMayReset(Second))' <= One(PlayerMayReset(Second))
        /\ One(SetupMayReset)' <= One(SetupMayReset)
        /\ One(DrawMayReset)' <= One(DrawMayReset) + 1
    BY DEF One, Players
  <1>2. /\ One(PlayerMayReset(First)) \in Nat /\ One(PlayerMayReset(First))' \in Nat
        /\ One(PlayerMayReset(Second)) \in Nat /\ One(PlayerMayReset(Second))' \in Nat
        /\ One(SetupMayReset) \in Nat /\ One(SetupMayReset)' \in Nat
        /\ One(DrawMayReset) \in Nat /\ One(DrawMayReset)' \in Nat
    BY DEF One
  <1>3. Used \in Nat /\ Used' \in Nat /\ DrawsLeft \in Nat /\ DrawsLeft' \in Nat /\ MaxRounds \in Nat
    BY UsedNumbers
  <1>4. Used + One(PlayerMayReset(First)) + One(PlayerMayReset(Second))
             + One(SetupMayReset) + One(DrawMayReset) + DrawsLeft <= MaxRounds + 3
    BY DEF TimerInv
  <1>5. \A a, b, c, d, u, l, a1, b1, c1, d1, u1, l1 \in Nat :
           a1 <= a /\ b1 <= b /\ c1 <= c /\ d1 <= d + 1 /\ u1 <= u /\ l1 + 1 <= l
             => u1 + a1 + b1 + c1 + d1 + l1 <= u + a + b + c + d + l
    OBVIOUS
  <1>6. Used' + One(PlayerMayReset(First))' + One(PlayerMayReset(Second))'
              + One(SetupMayReset)' + One(DrawMayReset)' + DrawsLeft'
          <= Used + One(PlayerMayReset(First)) + One(PlayerMayReset(Second))
              + One(SetupMayReset) + One(DrawMayReset) + DrawsLeft
    <2>1. Used' <= Used /\ DrawsLeft' + 1 <= DrawsLeft
      OBVIOUS
    <2> QED
      BY ONLY <1>1, <1>2, <1>3, <1>5, <2>1
  <1>7. Used' + One(PlayerMayReset(First))' + One(PlayerMayReset(Second))'
              + One(SetupMayReset)' + One(DrawMayReset)' + DrawsLeft' <= MaxRounds + 3
    BY <1>2, <1>3, <1>4, <1>6
  <1> QED
    BY <1>7 DEF TimerInv

\* A goroutine that goes on to a place that leads to no reset makes none possible.
LEMMA ResetFrame ==
  ASSUME TypeOK, TypeOK', TimerInv,
         setupCompleted => setupCompleted', round <= round',
         \A u \in Threads : \/ pc'[u] = pc[u]
                            \/ pc'[u] \in Labels \ {"armed", "completing", "closing", "reset", "again"}
                            \/ u \notin Players \cup {Setup} /\ pc'[u] # "again"
                            \/ u = Setup /\ pc'[u] = "closing"
                            \/ u = Setup /\ SetupMayReset /\ pc'[u] # "again"
                            \/ u \in Players /\ PlayerMayReset(u) /\ pc'[u] # "again"
                                             /\ (pc'[u] \in {"closing", "reset"} => setupCompleted')
  PROVE  NoNewReset
  <1>1. ASSUME NEW p \in Players PROVE PlayerMayReset(p)' => PlayerMayReset(p)
    BY Distinct DEF PlayerMayReset
  <1>2. SetupMayReset' => SetupMayReset
    BY Distinct DEF SetupMayReset
  <1>3. DrawMayReset' => DrawMayReset
    BY DEF DrawMayReset
  <1>4. DrawsLeft' <= DrawsLeft
    BY RoundNumbers DEF DrawsLeft
  <1>5. ASSUME NEW p \in Players, pc'[p] \in {"closing", "reset"} PROVE setupCompleted'
    BY <1>5, Distinct DEF TimerInv
  <1> QED
    BY <1>1, <1>2, <1>3, <1>4, <1>5 DEF NoNewReset

\* startRound takes the timer that was set aside for the round.
LEMMA StartUsed ==
  ASSUME TypeOK, TypeOK', TimerInv, NEW t \in Threads,
         NEW next \in {"idle", "loop", "leave", "closing"}, StartRound(t, next),
         next = "closing" => t = Setup
  PROVE  TimerInv'
  <1>1. Used' <= Used
    BY RoundNumbers DEF StartRound, Used, One, timerVars
  <1>2. UNCHANGED <<round, setupCompleted>>
    BY DEF StartRound, gameVars, setupVars
  <1>3. \A u \in Threads : \/ u = t /\ pc'[u] = next
                           \/ pc'[u] = pc[u]
                           \/ u \in Timers /\ pc'[u] \in {"off", "armed"}
    BY StartRoundEffect DEF Labels
  <1>4. NoNewReset
    BY <1>2, <1>3, ResetFrame, Distinct DEF TypeOK, Labels
  <1> QED
    BY <1>1, <1>4, ResetsKept

\* completeSetup is called by the setup goroutine and twice by players, and each
\* of them clears roundStarted once.
LEMMA ResetByPlayer ==
  ASSUME TypeOK, TypeOK', TimerInv, NEW p \in Players, ResetFirst(p)
  PROVE  TimerInv'
  <1>1. /\ Used' <= Used + 1
        /\ UNCHANGED <<round, setupCompleted>>
    BY DEF ResetFirst, ResetRound, Used, One, TypeOK, Timers, gameVars, setupVars, timerVars
  <1>2. pc[p] = "reset" /\ pc'[p] = "start" /\ \A u \in Threads : u # p => pc'[u] = pc[u]
    BY GotoEffect, Distinct DEF ResetFirst, ResetRound, Labels
  <1>3. NoNewReset
    BY <1>1, <1>2, ResetFrame, Distinct DEF TypeOK, Labels
  <1>4. PlayerMayReset(p) /\ ~PlayerMayReset(p)'
    BY <1>1, <1>2 DEF PlayerMayReset, TimerInv
  <1>5. CASE p = First
    BY <1>1, <1>3, <1>4, <1>5, ResetUsed
  <1>6. CASE p = Second
    BY <1>1, <1>3, <1>4, <1>6, ResetUsed
  <1> QED
    BY <1>5, <1>6 DEF Players

LEMMA ResetBySetup ==
  ASSUME TypeOK, TypeOK', TimerInv, SetupResets
  PROVE  TimerInv'
  <1>1. /\ Used' <= Used + 1
        /\ UNCHANGED <<round, setupCompleted>>
    BY DEF SetupResets, ResetRound, Used, One, TypeOK, Timers, gameVars, setupVars, timerVars
  <1>2. pc[Setup] = "reset" /\ pc'[Setup] = "start" /\ \A u \in Threads : u # Setup => pc'[u] = pc[u]
    BY GotoEffect, Distinct DEF SetupResets, ResetRound, Labels
  <1>3. NoNewReset
    BY <1>1, <1>2, ResetFrame, Distinct DEF TypeOK, Labels
  <1>4. SetupMayReset /\ ~SetupMayReset'
    BY <1>2 DEF SetupMayReset
  <1> QED
    BY <1>1, <1>3, <1>4, ResetUsed

\* A draw clears roundStarted once, because one goroutine judges.
LEMMA ResetByDraw ==
  ASSUME TypeOK, TypeOK', CheckInv, TimerInv, NEW t \in Threads, NextRound(t)
  PROVE  TimerInv'
  <1>1. /\ Used' <= Used + 1
        /\ UNCHANGED <<round, setupCompleted>>
    BY DEF NextRound, ResetRound, Used, One, TypeOK, Timers, gameVars, setupVars, timerVars
  <1>2. pc[t] = "again" /\ pc'[t] = "restart" /\ \A u \in Threads : u # t => pc'[u] = pc[u]
    BY GotoEffect, Distinct DEF NextRound, ResetRound, Labels
  <1>3. NoNewReset
    BY <1>1, <1>2, ResetFrame, Distinct DEF TypeOK, Labels
  <1>4. DrawMayReset /\ ~DrawMayReset'
    BY <1>2 DEF DrawMayReset, CheckInv, OneChecker, Checking
  <1> QED
    BY <1>1, <1>3, <1>4, ResetUsed

\* A draw that leads to another round is one of the MaxRounds - 1.
LEMMA JudgeUsed ==
  ASSUME TypeOK, TypeOK', TimerInv, NEW t \in Threads, Judge(t)
  PROVE  TimerInv'
  <1>1. Used' <= Used /\ UNCHANGED setupCompleted
    BY DEF Judge, Used, One, TypeOK, Timers, setupVars, timerVars, flagVars
  <1>2. \A u \in Threads : u # t => pc'[u] = pc[u]
    BY GotoEffect DEF Judge, Labels
  <1>3. CASE pc'[t] = "again"
    <2>1. CheckResult /\ IsRoundComplete /\ Verdict = Undecided
      BY <1>3, GotoEffect DEF Judge, Labels
    <2>2. round + 1 < MaxRounds
      BY <2>1, RoundsAssumption, Distinct DEF Verdict, Winner, Players
    <2>3. DrawsLeft' + 1 <= DrawsLeft
      BY <2>1, <2>2, RoundsAssumption DEF CheckResult, DrawsLeft, TypeOK
    <2>4. \A p \in Players : PlayerMayReset(p)' => PlayerMayReset(p)
      BY <1>1, <1>2, <1>3, Distinct DEF PlayerMayReset
    <2>5. SetupMayReset' => SetupMayReset
      BY <1>2, <1>3, Distinct DEF SetupMayReset
    <2>6. \A p \in Players : pc'[p] \in {"closing", "reset"} => setupCompleted'
      BY <1>1, <1>2, <1>3, Distinct DEF TimerInv
    <2> QED
      BY <1>1, <2>3, <2>4, <2>5, <2>6, DrawUsed
  <1>4. CASE pc'[t] # "again"
    <2>1. pc'[t] = "leave" /\ round <= round'
      BY <1>4, GotoEffect, RoundsAssumption DEF Judge, CheckResult, gameVars, TypeOK, Labels
    <2>2. NoNewReset
      BY <1>1, <1>2, <2>1, ResetFrame, Distinct DEF TypeOK, Labels
    <2> QED
      BY <1>1, <2>2, ResetsKept
  <1> QED
    BY <1>3, <1>4

LEMMA TimersCounted == TypeOK /\ TypeOK' /\ CheckInv /\ TimerInv /\ [Next]_vars => TimerInv'
  <1> SUFFICES ASSUME TypeOK, TypeOK', CheckInv, TimerInv, [Next]_vars PROVE TimerInv'
    OBVIOUS
  <1>1. ASSUME NEW p \in Players, Move(p) PROVE NoNewReset /\ Used' <= Used
    <2>1. Used' <= Used
      BY <1>1 DEF Move, Used, One, TypeOK, Timers, gameVars, setupVars, timerVars, flagVars
    <2>2. (setupCompleted => setupCompleted') /\ round <= round'
      BY <1>1, RoundsAssumption DEF Move, HandleMove, TypeOK, gameVars, setupVars
    <2>3. \A u \in Threads : u # p => pc'[u] = pc[u]
      BY <1>1, GotoEffect, Distinct DEF Move, HandleMove, Labels
    <2>4. pc'[p] \in {"moved"}
      BY <1>1, GotoEffect, Distinct DEF Move, HandleMove, Labels
    <2> QED
      BY <2>1, <2>2, <2>3, <2>4, ResetFrame, Distinct DEF TypeOK, Labels
  <1>2. ASSUME NEW p \in Players, AskSetup(p) PROVE NoNewReset /\ Used' <= Used
    <2>1. Used' <= Used
      BY <1>2 DEF AskSetup, Used, One, TypeOK, Timers, gameVars, setupVars, timerVars, flagVars
    <2>2. (setupCompleted => setupCompleted') /\ round <= round'
      BY <1>2, RoundsAssumption DEF AskSetup, TypeOK, gameVars, setupVars
    <2>3. \A u \in Threads : u # p => pc'[u] = pc[u]
      BY <1>2, GotoEffect, Distinct DEF AskSetup, Labels
    <2>4. \/ pc'[p] = "asking"
          \/ pc'[p] = "completing" /\ PlayerMayReset(p)
      BY <1>2, GotoEffect, Distinct DEF AskSetup, PlayerMayReset, Labels
    <2> QED
      BY <2>1, <2>2, <2>3, <2>4, ResetFrame, Distinct DEF TypeOK, Labels
  <1>3. ASSUME NEW p \in Players, AskRound(p) PROVE NoNewReset /\ Used' <= Used
    <2>1. Used' <= Used
      BY <1>3 DEF AskRound, Used, One, TypeOK, Timers, gameVars, setupVars, timerVars, flagVars
    <2>2. (setupCompleted => setupCompleted') /\ round <= round'
      BY <1>3, RoundsAssumption DEF AskRound, TypeOK, gameVars, setupVars
    <2>3. \A u \in Threads : u # p => pc'[u] = pc[u]
      BY <1>3, GotoEffect, Distinct DEF AskRound, Labels
    <2>4. pc'[p] \in {"stopping", "idle"}
      BY <1>3, GotoEffect, Distinct DEF AskRound, Labels
    <2> QED
      BY <2>1, <2>2, <2>3, <2>4, ResetFrame, Distinct DEF TypeOK, Labels
  <1>4. ASSUME NEW p \in Players, FinishSetup(p) PROVE NoNewReset /\ Used' <= Used
    <2>1. Used' <= Used
      BY <1>4 DEF FinishSetup, Used, One, TypeOK, Timers, gameVars, setupVars, timerVars, flagVars
    <2>2. (setupCompleted => setupCompleted') /\ round <= round'
      BY <1>4, RoundsAssumption DEF FinishSetup, TypeOK, gameVars, setupVars
    <2>3. \A u \in Threads : u # p => pc'[u] = pc[u]
      BY <1>4, GotoEffect, Distinct DEF FinishSetup, Labels
    <2>4. pc'[p] = "closing" /\ setupCompleted' /\ PlayerMayReset(p)
      BY <1>4, GotoEffect, Distinct DEF FinishSetup, PlayerMayReset, Labels
    <2> QED
      BY <2>1, <2>2, <2>3, <2>4, ResetFrame, Distinct DEF TypeOK, Labels
  <1>5. ASSUME NEW p \in Players, CloseSetup(p) PROVE NoNewReset /\ Used' <= Used
    <2>1. Used' <= Used
      BY <1>5 DEF CloseSetup, Used, One, TypeOK, Timers, gameVars, setupVars, timerVars, flagVars
    <2>2. (setupCompleted => setupCompleted') /\ round <= round'
      BY <1>5, RoundsAssumption DEF CloseSetup, TypeOK, gameVars, setupVars
    <2>3. \A u \in Threads : u # p => pc'[u] = pc[u]
      BY <1>5, GotoEffect, Distinct DEF CloseSetup, Labels
    <2>4. pc'[p] = "reset" /\ setupCompleted' /\ PlayerMayReset(p)
      BY <1>5, GotoEffect, Distinct DEF CloseSetup, PlayerMayReset, TimerInv, Labels
    <2> QED
      BY <2>1, <2>2, <2>3, <2>4, ResetFrame, Distinct DEF TypeOK, Labels
  <1>6. ASSUME NEW p \in Players, ResetFirst(p) PROVE TimerInv'
    BY <1>6, ResetByPlayer
  <1>7. ASSUME NEW p \in Players, StartFirst(p) PROVE TimerInv'
    BY <1>7, StartUsed, Distinct DEF StartFirst
  <1>8. ASSUME NEW p \in Players, StopTimer(p) PROVE NoNewReset /\ Used' <= Used
    <2>1. Used' <= Used
      BY <1>8 DEF StopTimer, Used, One, TypeOK, Timers, gameVars, setupVars, timerVars, flagVars
    <2>2. (setupCompleted => setupCompleted') /\ round <= round'
      BY <1>8, RoundsAssumption DEF StopTimer, TypeOK, gameVars, setupVars
    <2>3. \A u \in Threads : pc'[u] = pc[u] \/ pc'[u] \in {"check", "off"}
      BY <1>8, StoppedEffect, Distinct DEF StopTimer, Labels
    <2> QED
      BY <2>1, <2>2, <2>3, ResetFrame DEF TypeOK, Labels
  <1>9. ASSUME SetupWakes PROVE NoNewReset /\ Used' <= Used
    <2>1. Used' <= Used
      BY <1>9 DEF SetupWakes, Used, One, TypeOK, Timers, gameVars, setupVars, timerVars, flagVars
    <2>2. (setupCompleted => setupCompleted') /\ round <= round'
      BY <1>9, RoundsAssumption DEF SetupWakes, TypeOK, gameVars, setupVars
    <2>3. \A u \in Threads : u # Setup => pc'[u] = pc[u]
      BY <1>9, GotoEffect, Distinct DEF SetupWakes, Labels
    <2>4. SetupMayReset /\ pc'[Setup] \in {"done", "closing", "completing"}
      BY <1>9, GotoEffect, Distinct DEF SetupWakes, SetupMayReset, Labels
    <2> QED
      BY <2>1, <2>2, <2>3, <2>4, ResetFrame, Distinct DEF TypeOK, Labels
  <1>10. ASSUME SetupCompletes PROVE NoNewReset /\ Used' <= Used
    <2>1. Used' <= Used
      BY <1>10 DEF SetupCompletes, Used, One, TypeOK, Timers, gameVars, setupVars, timerVars, flagVars
    <2>2. (setupCompleted => setupCompleted') /\ round <= round'
      BY <1>10, RoundsAssumption DEF SetupCompletes, CompleteSetup, BotsPlace, TypeOK, gameVars, setupVars
    <2>3. \A u \in Threads : u # Setup => pc'[u] = pc[u]
      BY <1>10, GotoEffect, Distinct DEF SetupCompletes, CompleteSetup, BotsPlace, Labels
    <2>4. SetupMayReset /\ pc'[Setup] = "reset"
      BY <1>10, GotoEffect, Distinct DEF SetupCompletes, CompleteSetup, BotsPlace, SetupMayReset, Labels
    <2> QED
      BY <2>1, <2>2, <2>3, <2>4, ResetFrame, Distinct DEF TypeOK, Labels
  <1>11. ASSUME SetupResets PROVE TimerInv'
    BY <1>11, ResetBySetup
  <1>12. ASSUME SetupStarts PROVE TimerInv'
    BY <1>12, StartUsed, Distinct DEF SetupStarts
  <1>13. ASSUME SetupCloses PROVE NoNewReset /\ Used' <= Used
    <2>1. Used' <= Used
      BY <1>13 DEF SetupCloses, Used, One, TypeOK, Timers, gameVars, setupVars, timerVars, flagVars
    <2>2. (setupCompleted => setupCompleted') /\ round <= round'
      BY <1>13, RoundsAssumption DEF SetupCloses, TypeOK, gameVars, setupVars
    <2>3. \A u \in Threads : u # Setup => pc'[u] = pc[u]
      BY <1>13, GotoEffect, Distinct DEF SetupCloses, Labels
    <2>4. pc'[Setup] \in {"done"}
      BY <1>13, GotoEffect, Distinct DEF SetupCloses, Labels
    <2> QED
      BY <2>1, <2>2, <2>3, <2>4, ResetFrame, Distinct DEF TypeOK, Labels
  <1>14. ASSUME NEW k \in Timers, Fire(k) PROVE NoNewReset /\ Used' <= Used
    <2>1. Used' <= Used
      BY <1>14 DEF Fire, Used, One, TypeOK, Timers, gameVars, setupVars, timerVars, flagVars
    <2>2. (setupCompleted => setupCompleted') /\ round <= round'
      BY <1>14, RoundsAssumption DEF Fire, TypeOK, gameVars, setupVars
    <2>3. \A u \in Threads : u # k => pc'[u] = pc[u]
      BY <1>14, GotoEffect, Distinct DEF Fire, Labels
    <2>4. pc'[k] \in {"fired"}
      BY <1>14, GotoEffect, Distinct DEF Fire, Labels
    <2> QED
      BY <2>1, <2>2, <2>3, <2>4, ResetFrame, Distinct DEF TypeOK, Labels
  <1>15. ASSUME NEW k \in Timers, RoundTimeout(k) PROVE NoNewReset /\ Used' <= Used
    <2>1. Used' <= Used
      BY <1>15 DEF RoundTimeout, Used, One, TypeOK, Timers, gameVars, setupVars, timerVars, flagVars
    <2>2. (setupCompleted => setupCompleted') /\ round <= round'
      BY <1>15, RoundsAssumption DEF RoundTimeout, BotsMove, TypeOK, gameVars, setupVars
    <2>3. \A u \in Threads : u # k => pc'[u] = pc[u]
      BY <1>15, GotoEffect, Distinct DEF RoundTimeout, BotsMove, Labels
    <2>4. pc'[k] \in {"check", "off"}
      BY <1>15, GotoEffect, Distinct DEF RoundTimeout, BotsMove, Labels
    <2> QED
      BY <2>1, <2>2, <2>3, <2>4, ResetFrame, Distinct DEF TypeOK, Labels
  <1>16. ASSUME Poll PROVE NoNewReset /\ Used' <= Used
    <2>1. Used' <= Used
      BY <1>16 DEF Poll, Used, One, TypeOK, Timers, gameVars, setupVars, timerVars, flagVars
    <2>2. (setupCompleted => setupCompleted') /\ round <= round'
      BY <1>16, RoundsAssumption DEF Poll, TypeOK, gameVars, setupVars
    <2>3. \A u \in Threads : u # RunLoop => pc'[u] = pc[u]
      BY <1>16, GotoEffect, Distinct DEF Poll, Labels
    <2>4. pc'[RunLoop] \in {"check", "both"}
      BY <1>16, GotoEffect, Distinct DEF Poll, Labels
    <2> QED
      BY <2>1, <2>2, <2>3, <2>4, ResetFrame, Distinct DEF TypeOK, Labels
  <1>17. ASSUME BothPresent PROVE NoNewReset /\ Used' <= Used
    <2>1. Used' <= Used
      BY <1>17 DEF BothPresent, Used, One, TypeOK, Timers, gameVars, setupVars, timerVars, flagVars
    <2>2. (setupCompleted => setupCompleted') /\ round <= round'
      BY <1>17, RoundsAssumption DEF BothPresent, TypeOK, gameVars, setupVars
    <2>3. \A u \in Threads : u # RunLoop => pc'[u] = pc[u]
      BY <1>17, GotoEffect, Distinct DEF BothPresent, Labels
    <2>4. pc'[RunLoop] \in {"start", "loop"}
      BY <1>17, GotoEffect, Distinct DEF BothPresent, Labels
    <2> QED
      BY <2>1, <2>2, <2>3, <2>4, ResetFrame, Distinct DEF TypeOK, Labels
  <1>18. ASSUME RunStarts PROVE TimerInv'
    BY <1>18, StartUsed, Distinct DEF RunStarts
  <1>19. ASSUME SaveResult PROVE NoNewReset /\ Used' <= Used
    <2>1. Used' <= Used
      BY <1>19 DEF SaveResult, Used, One, TypeOK, Timers, gameVars, setupVars, timerVars, flagVars
    <2>2. (setupCompleted => setupCompleted') /\ round <= round'
      BY <1>19, RoundsAssumption DEF SaveResult, CheckResult, TypeOK, gameVars, setupVars
    <2>3. \A u \in Threads : u # RunLoop => pc'[u] = pc[u]
      BY <1>19, GotoEffect, Distinct DEF SaveResult, CheckResult, Labels
    <2>4. pc'[RunLoop] \in {"cleaning"}
      BY <1>19, GotoEffect, Distinct DEF SaveResult, CheckResult, Labels
    <2> QED
      BY <2>1, <2>2, <2>3, <2>4, ResetFrame, Distinct DEF TypeOK, Labels
  <1>20. ASSUME Cleanup PROVE NoNewReset /\ Used' <= Used
    <2>1. Used' <= Used
      BY <1>20 DEF Cleanup, Used, One, TypeOK, Timers, gameVars, setupVars, timerVars, flagVars
    <2>2. (setupCompleted => setupCompleted') /\ round <= round'
      BY <1>20, RoundsAssumption DEF Cleanup, TypeOK, gameVars, setupVars
    <2>3. \A u \in Threads : pc'[u] = pc[u] \/ pc'[u] \in {"done", "off"}
      BY <1>20, StoppedEffect, Distinct DEF Cleanup, Labels
    <2> QED
      BY <2>1, <2>2, <2>3, ResetFrame DEF TypeOK, Labels
  <1>21. ASSUME NEW t \in Threads, EnterCheck(t) PROVE NoNewReset /\ Used' <= Used
    <2>1. Used' <= Used
      BY <1>21 DEF EnterCheck, Used, One, TypeOK, Timers, gameVars, setupVars, timerVars, flagVars
    <2>2. (setupCompleted => setupCompleted') /\ round <= round'
      BY <1>21, RoundsAssumption DEF EnterCheck, Return, TypeOK, gameVars, setupVars
    <2>3. \A u \in Threads : u # t => pc'[u] = pc[u]
      BY <1>21, GotoEffect, Distinct DEF EnterCheck, Return, Labels
    <2>4. pc'[t] \in {"judge", "idle", "polling", "off"}
      BY <1>21, GotoEffect, Distinct DEF EnterCheck, Return, Labels
    <2> QED
      BY <2>1, <2>2, <2>3, <2>4, ResetFrame, Distinct DEF TypeOK, Labels
  <1>22. ASSUME NEW t \in Threads, Judge(t) PROVE TimerInv'
    BY <1>22, JudgeUsed
  <1>23. ASSUME NEW t \in Threads, NextRound(t) PROVE TimerInv'
    BY <1>23, ResetByDraw
  <1>24. ASSUME NEW t \in Threads, RestartRound(t) PROVE TimerInv'
    BY <1>24, StartUsed, Distinct DEF RestartRound
  <1>25. ASSUME NEW t \in Threads, LeaveCheck(t) PROVE NoNewReset /\ Used' <= Used
    <2>1. Used' <= Used
      BY <1>25 DEF LeaveCheck, Used, One, TypeOK, Timers, gameVars, setupVars, timerVars, flagVars
    <2>2. (setupCompleted => setupCompleted') /\ round <= round'
      BY <1>25, RoundsAssumption DEF LeaveCheck, Return, TypeOK, gameVars, setupVars
    <2>3. \A u \in Threads : u # t => pc'[u] = pc[u]
      BY <1>25, GotoEffect, Distinct DEF LeaveCheck, Return, Labels
    <2>4. pc'[t] \in {"idle", "polling", "off"}
      BY <1>25, GotoEffect, Distinct DEF LeaveCheck, Return, Labels
    <2> QED
      BY <2>1, <2>2, <2>3, <2>4, ResetFrame, Distinct DEF TypeOK, Labels
  <1>26. ASSUME UNCHANGED vars PROVE NoNewReset /\ Used' <= Used
    <2>1. UNCHANGED <<pc, round, setupCompleted, timerRound, roundStarted>>
      BY <1>26 DEF vars, gameVars, setupVars, timerVars, flagVars
    <2>2. Used' <= Used
      BY <2>1 DEF Used, One, TypeOK, Timers
    <2> QED
      BY <2>1, <2>2, ResetFrame DEF TypeOK
  <1>27. ASSUME NoNewReset, Used' <= Used PROVE TimerInv'
    BY <1>27, ResetsKept
  <1> QED
    BY <1>1, <1>2, <1>3, <1>4, <1>5, <1>6, <1>7, <1>8, <1>9, <1>10, <1>11, <1>12, <1>13, <1>14, <1>15, <1>16, <1>17, <1>18, <1>19, <1>20, <1>21, <1>22, <1>23, <1>24, <1>25, <1>26, <1>27
    DEF Next, PlayerStep, SetupStep, TimerStep, RunStep, CheckRound, Threads

\* However the goroutines race to start rounds, a room starts three timers more
\* than it has rounds at most; so the bound of the model keeps no round from
\* starting.
THEOREM FewTimersHolds == Spec => []FewTimers
<1>1. Init => TimerInv
  <2> SUFFICES ASSUME Init PROVE TimerInv
    OBVIOUS
  <2>1. \A t \in Threads : pc[t] # "again"
    BY Distinct DEF Init
  <2>2. One(DrawMayReset) = 0
    BY <2>1 DEF One, DrawMayReset
  <2>3. /\ One(PlayerMayReset(First)) <= 1 /\ One(PlayerMayReset(First)) \in Nat
        /\ One(PlayerMayReset(Second)) <= 1 /\ One(PlayerMayReset(Second)) \in Nat
        /\ One(SetupMayReset) <= 1 /\ One(SetupMayReset) \in Nat
    BY DEF One
  <2>4. Used = 1 /\ DrawsLeft = MaxRounds - 1 /\ MaxRounds \in Nat
    BY RoundsAssumption DEF Init, Used, One, DrawsLeft
  <2>5. \A p \in Players : pc[p] = "idle"
    BY Distinct DEF Init
  <2> QED
    BY <2>2, <2>3, <2>4, <2>5 DEF TimerInv
<1>2. Init => CheckInv
  BY Distinct DEF Init, CheckInv, OneChecker, Checking
<1>3. TypeOK /\ TimerInv => FewTimers
  <2> SUFFICES ASSUME TypeOK, TimerInv PROVE FewTimers
    OBVIOUS
  <2>1. /\ One(PlayerMayReset(First)) \in Nat /\ One(PlayerMayReset(Second)) \in Nat
        /\ One(SetupMayReset) \in Nat /\ One(DrawMayReset) \in Nat
    BY DEF One
  <2>2. Used \in Nat /\ DrawsLeft \in Nat /\ MaxRounds \in Nat
    BY RoundsAssumption DEF TypeOK, Used, DrawsLeft, One, Timers
  <2>3. Used <= MaxRounds + 3
    BY <2>1, <2>2 DEF TimerInv
  <2> QED
    BY <2>3 DEF Used, One, FewTimers
<1> QED
  BY <1>1, <1>2, <1>3, CheckStep, TimersCounted, RoundsTypeCorrect, PTL DEF Spec
-----------------------------------------------------------------------------
(* RPS: one result.                                                        *)

\* Once there is a result the table stays as it was judged: another CheckResult
\* would come out the same, which is what saveResult relies on.
ResultInv ==
  /\ result # Undecided => /\ IsRoundComplete
                           /\ Winner(moves[First], moves[Second]) = result
                           /\ result = Draw => round = MaxRounds
                           /\ announced = {result}
  /\ result = Undecided => announced = {}
  /\ pc[RunLoop] \in {"cleaning", "done"} => result # Undecided /\ saved = result

\* The game and what was made known of it stay, and Run does not save.
SameResult ==
  /\ UNCHANGED <<moves, round, result, announced, saved>>
  /\ pc'[RunLoop] \in {"cleaning", "done"} => pc[RunLoop] \in {"cleaning", "done"}

\* The verdict on the table of a finished game is its result.
LEMMA SameVerdict ==
  ASSUME TypeOK, ResultInv, result # Undecided
  PROVE  Verdict = result
  BY RoundsAssumption DEF Verdict, ResultInv, TypeOK

\* A verdict reached by CheckResult describes the table it leaves behind.
LEMMA CheckResultRps ==
  ASSUME TypeOK, IsRoundComplete, CheckResult, Verdict # Undecided
  PROVE  /\ UNCHANGED moves
         /\ result' = Verdict
         /\ Winner(moves[First], moves[Second]) = Verdict
         /\ Verdict = Draw => round' = MaxRounds
  <1>1. UNCHANGED moves /\ result' = Verdict
    BY DEF CheckResult
  <1>2. Winner(moves[First], moves[Second]) = Verdict
    BY DEF Verdict
  <1>3. Verdict = Draw => round' = MaxRounds
    BY <1>2, RoundsAssumption DEF Verdict, CheckResult, TypeOK
  <1> QED
    BY <1>1, <1>2, <1>3

\* Judge: the first verdict is announced, a later one is the same.
LEMMA JudgeRps ==
  ASSUME TypeOK, ResultInv, NEW t \in Threads, Judge(t)
  PROVE  ResultInv'
  <1>0. /\ pc'[RunLoop] \in {"cleaning", "done"} => pc[RunLoop] \in {"cleaning", "done"}
        /\ saved' = saved
    BY GotoEffect, Distinct DEF Judge, Labels
  <1>1. CASE ~IsRoundComplete
    BY <1>0, <1>1 DEF Judge, ResultInv, gameVars, IsRoundComplete
  <1>2. CASE IsRoundComplete /\ Verdict = Undecided
    <2>1. result = Undecided
      BY <1>2, SameVerdict
    <2>2. result' = result /\ announced' = announced
      BY <1>2 DEF Judge, CheckResult
    <2> QED
      BY <1>0, <2>1, <2>2 DEF ResultInv
  <1>3. CASE IsRoundComplete /\ Verdict # Undecided
    <2>1. CheckResult /\ announced' = announced \cup {Verdict}
      BY <1>3 DEF Judge
    <2>2. /\ UNCHANGED moves /\ result' = Verdict
          /\ Winner(moves[First], moves[Second]) = Verdict
          /\ Verdict = Draw => round' = MaxRounds
      BY <1>3, <2>1, CheckResultRps
    <2>3. announced' = {Verdict}
      <3>1. CASE result = Undecided
        BY <2>1, <3>1 DEF ResultInv
      <3>2. CASE result # Undecided
        BY <2>1, <3>2, SameVerdict DEF ResultInv
      <3> QED
        BY <3>1, <3>2
    <2>4. pc[RunLoop] \in {"cleaning", "done"} => saved = Verdict
      BY SameVerdict DEF ResultInv
    <2>5. IsRoundComplete'
      BY <1>3, <2>2 DEF IsRoundComplete
    <2> QED
      BY <1>0, <1>3, <2>2, <2>3, <2>4, <2>5 DEF ResultInv
  <1> QED
    BY <1>1, <1>2, <1>3

\* saveResult: the verdict asked for once more is the result.
LEMMA SaveRps ==
  ASSUME TypeOK, ResultInv, SaveResult
  PROVE  ResultInv'
  <1>1. IsRoundComplete /\ result # Undecided /\ Verdict = result
    BY SameVerdict DEF SaveResult, IsFinished, ResultInv
  <1>2. CheckResult /\ saved' = Verdict /\ announced' = announced
    BY <1>1 DEF SaveResult
  <1>3. /\ UNCHANGED moves /\ result' = Verdict
        /\ Winner(moves[First], moves[Second]) = Verdict
        /\ Verdict = Draw => round' = MaxRounds
    BY <1>1, <1>2, CheckResultRps
  <1>4. IsRoundComplete'
    BY <1>1, <1>3 DEF IsRoundComplete
  <1> QED
    BY <1>1, <1>2, <1>3, <1>4 DEF ResultInv

\* RPS: no move is taken at a full table, nor by the bots.
LEMMA MoveRps ==
  ASSUME TypeOK, Game = "rps", NEW p \in Players, HandleMove(p)
  PROVE  /\ UNCHANGED <<round, result>>
         /\ UNCHANGED moves \/ ~IsRoundComplete
  BY DEF HandleMove, IsSetupComplete, IsRoundComplete

\* RPS: the bots have nothing to place.
LEMMA SetupRps ==
  ASSUME Game = "rps", CompleteSetup
  PROVE  UNCHANGED gameVars
  BY DEF CompleteSetup, BotsPlace, LateMoves, IsSetupComplete, gameVars

\* The bots leave a full table alone.
LEMMA BotsRps ==
  ASSUME TypeOK, BotsMove
  PROVE  /\ UNCHANGED <<round, result>>
         /\ IsRoundComplete => UNCHANGED moves
  <1>1. UNCHANGED <<round, result>> /\ moves' \in [Players -> Moves]
    BY DEF BotsMove
  <1>2. ASSUME IsRoundComplete PROVE \A p \in Players : moves'[p] = moves[p]
    BY <1>2 DEF BotsMove, IsRoundComplete
  <1>3. IsRoundComplete => moves' = moves
    BY <1>1, <1>2 DEF TypeOK
  <1> QED
    BY <1>1, <1>3

\* For RPS every other step leaves the result, and what is known of it, alone.
LEMMA ResultStep ==
  ASSUME Game = "rps"
  PROVE  TypeOK /\ ResultInv /\ [Next]_vars => ResultInv'
  <1> SUFFICES ASSUME TypeOK, ResultInv, [Next]_vars PROVE ResultInv'
    OBVIOUS
  <1>1. ASSUME NEW p \in Players, Move(p) PROVE ResultInv'
    BY <1>1, MoveRps, GotoEffect, Distinct DEF Move, ResultInv, IsRoundComplete, outVars, Labels
  <1>2. ASSUME NEW p \in Players, AskSetup(p) PROVE SameResult
    BY <1>2, GotoEffect, Distinct DEF AskSetup, SameResult, TypeOK, Labels, vars, gameVars, setupVars, timerVars, flagVars, outVars
  <1>3. ASSUME NEW p \in Players, AskRound(p) PROVE SameResult
    BY <1>3, GotoEffect, Distinct DEF AskRound, SameResult, TypeOK, Labels, vars, gameVars, setupVars, timerVars, flagVars, outVars
  <1>4. ASSUME NEW p \in Players, FinishSetup(p) PROVE SameResult
    BY <1>4, GotoEffect, Distinct DEF FinishSetup, SameResult, TypeOK, Labels, vars, gameVars, setupVars, timerVars, flagVars, outVars
  <1>5. ASSUME NEW p \in Players, CloseSetup(p) PROVE SameResult
    BY <1>5, GotoEffect, Distinct DEF CloseSetup, SameResult, TypeOK, Labels, vars, gameVars, setupVars, timerVars, flagVars, outVars
  <1>6. ASSUME NEW p \in Players, ResetFirst(p) PROVE SameResult
    BY <1>6, GotoEffect, Distinct DEF ResetFirst, ResetRound, SameResult, TypeOK, Labels, vars, gameVars, setupVars, timerVars, flagVars, outVars
  <1>7. ASSUME NEW p \in Players, StartFirst(p) PROVE SameResult
    BY <1>7, StartRoundEffect, Distinct DEF StartFirst, StartRound, SameResult, TypeOK, Labels, vars, gameVars, setupVars, timerVars, flagVars, outVars
  <1>8. ASSUME NEW p \in Players, StopTimer(p) PROVE SameResult
    BY <1>8, StoppedEffect, Distinct DEF StopTimer, SameResult, TypeOK, Labels, vars, gameVars, setupVars, timerVars, flagVars, outVars
  <1>9. ASSUME SetupWakes PROVE SameResult
    BY <1>9, GotoEffect, Distinct DEF SetupWakes, SameResult, TypeOK, Labels, vars, gameVars, setupVars, timerVars, flagVars, outVars
  <1>10. ASSUME SetupCompletes PROVE SameResult
    BY <1>10, SetupRps, GotoEffect, Distinct DEF SetupCompletes, SameResult, TypeOK, Labels, vars, gameVars, setupVars, timerVars, flagVars, outVars
  <1>11. ASSUME SetupResets PROVE SameResult
    BY <1>11, GotoEffect, Distinct DEF SetupResets, ResetRound, SameResult, TypeOK, Labels, vars, gameVars, setupVars, timerVars, flagVars, outVars
  <1>12. ASSUME SetupStarts PROVE SameResult
    BY <1>12, StartRoundEffect, Distinct DEF SetupStarts, StartRound, SameResult, TypeOK, Labels, vars, gameVars, setupVars, timerVars, flagVars, outVars
  <1>13. ASSUME SetupCloses PROVE SameResult
    BY <1>13, GotoEffect, Distinct DEF SetupCloses, SameResult, TypeOK, Labels, vars, gameVars, setupVars, timerVars, flagVars, outVars
  <1>14. ASSUME NEW k \in Timers, Fire(k) PROVE SameResult
    BY <1>14, GotoEffect, Distinct DEF Fire, SameResult, TypeOK, Labels, vars, gameVars, setupVars, timerVars, flagVars, outVars
  <1>15. ASSUME NEW k \in Timers, RoundTimeout(k) PROVE ResultInv'
    BY <1>15, BotsRps, GotoEffect, Distinct DEF RoundTimeout, ResultInv, gameVars, outVars, IsRoundComplete, Labels
  <1>16. ASSUME Poll PROVE SameResult
    BY <1>16, GotoEffect, Distinct DEF Poll, SameResult, TypeOK, Labels, vars, gameVars, setupVars, timerVars, flagVars, outVars
  <1>17. ASSUME BothPresent PROVE SameResult
    BY <1>17, GotoEffect, Distinct DEF BothPresent, SameResult, TypeOK, Labels, vars, gameVars, setupVars, timerVars, flagVars, outVars
  <1>18. ASSUME RunStarts PROVE SameResult
    BY <1>18, StartRoundEffect, Distinct DEF RunStarts, StartRound, SameResult, TypeOK, Labels, vars, gameVars, setupVars, timerVars, flagVars, outVars
  <1>19. ASSUME SaveResult PROVE ResultInv'
    BY <1>19, SaveRps DEF SaveResult
  <1>20. ASSUME Cleanup PROVE SameResult
    BY <1>20, StoppedEffect, Distinct DEF Cleanup, SameResult, gameVars, outVars, TypeOK, Labels
  <1>21. ASSUME NEW t \in Threads, EnterCheck(t) PROVE SameResult
    BY <1>21, GotoEffect, Distinct DEF EnterCheck, SameResult, Return, TypeOK, Labels, vars, gameVars, setupVars, timerVars, flagVars, outVars
  <1>22. ASSUME NEW t \in Threads, Judge(t) PROVE ResultInv'
    BY <1>22, JudgeRps DEF Judge
  <1>23. ASSUME NEW t \in Threads, NextRound(t) PROVE SameResult
    BY <1>23, GotoEffect, Distinct DEF NextRound, ResetRound, SameResult, TypeOK, Labels, vars, gameVars, setupVars, timerVars, flagVars, outVars
  <1>24. ASSUME NEW t \in Threads, RestartRound(t) PROVE SameResult
    BY <1>24, StartRoundEffect, Distinct DEF RestartRound, StartRound, SameResult, TypeOK, Labels, vars, gameVars, setupVars, timerVars, flagVars, outVars
  <1>25. ASSUME NEW t \in Threads, LeaveCheck(t) PROVE SameResult
    BY <1>25, GotoEffect, Distinct DEF LeaveCheck, SameResult, Return, TypeOK, Labels, vars, gameVars, setupVars, timerVars, flagVars, outVars
  <1>26. ASSUME UNCHANGED vars PROVE SameResult
    BY <1>26 DEF SameResult, vars, gameVars, outVars
  <1>27. ASSUME SameResult PROVE ResultInv'
    BY <1>27 DEF SameResult, ResultInv, IsRoundComplete
  <1> QED
    BY <1>1, <1>2, <1>3, <1>4, <1>5, <1>6, <1>7, <1>8, <1>9, <1>10, <1>11, <1>12, <1>13, <1>14, <1>15, <1>16, <1>17, <1>18, <1>19, <1>20, <1>21, <1>22, <1>23, <1>24, <1>25, <1>26, <1>27
    DEF Next, PlayerStep, SetupStep, TimerStep, RunStep, CheckRound, Threads

\* In an RPS game whoever announces the result, and saveResult, name the same one.
THEOREM ResultIsSettled ==
  ASSUME Game = "rps"
  PROVE  Spec => []SavedAsAnnounced
<1>1. Init => ResultInv
  BY Distinct DEF Init, ResultInv
<1>2. ResultInv => SavedAsAnnounced
  BY DEF ResultInv, SavedAsAnnounced
<1>3. TypeOK /\ ResultInv /\ [Next]_vars => ResultInv'
  BY ResultStep
<1> QED
  BY <1>1, <1>2, <1>3, RoundsTypeCorrect, PTL DEF Spec
-----------------------------------------------------------------------------
(* The admin bot: typing.                                                  *)

\* A message has a sender who may be handled.
LEMMA MessageType ==
  ASSUME BotTypeOK, NEW i \in 1 .. Len(log)
  PROVE  /\ i \in Ids /\ log[i] \in Messages /\ log[i].from \in People
         /\ log[i].kind \in Kinds
  <1>1. log \in Seq(Messages) /\ Len(log) \in Nat /\ Len(log) <= MaxMessages /\ MaxMessages \in Nat
    BY AdminBotAssumption DEF BotTypeOK
  <1>2. i \in Ids /\ log[i] \in Messages
    BY <1>1 DEF Ids
  <1> QED
    BY <1>2 DEF Messages

LEMMA JobType ==
  ASSUME BotTypeOK, NEW i \in Ids
  PROVE  /\ job[i] \in Jobs /\ job[i].at \in Stages
         /\ job[i].dialogue \in {NoDialogue} \cup Ids
         /\ job[i].todo \subseteq Receivers /\ job[i].ids \subseteq People
  BY DEF BotTypeOK, Jobs

LEMMA IdleIsJob == Idle \in Jobs
  BY AdminBotAssumption DEF Idle, Jobs, Stages, NoDialogue

\* A handler that returns is idle, and its message is handled.
LEMMA FinishEffect ==
  ASSUME BotTypeOK, NEW i \in Ids, Finish(i)
  PROVE  /\ job' \in [Ids -> Jobs]
         /\ job'[i] = Idle /\ \A k \in Ids : k # i => job'[k] = job[k]
         /\ done' = done \cup {i} /\ done' \subseteq Ids
  BY IdleIsJob DEF Finish, BotTypeOK

\* A handler that goes on changes some fields of its own job.
LEMMA AtEffect ==
  ASSUME NEW f \in [Ids -> Jobs], NEW i \in Ids, NEW stage \in Stages
  PROVE  /\ [f EXCEPT ![i].at = stage] \in [Ids -> Jobs]
         /\ [f EXCEPT ![i].at = stage][i].at = stage
         /\ [f EXCEPT ![i].at = stage][i].dialogue = f[i].dialogue
         /\ \A k \in Ids : k # i => [f EXCEPT ![i].at = stage][k] = f[k]
  BY DEF Jobs

IdsSet(f, g, i, stage, S) == g = [f EXCEPT ![i].at = stage, ![i].ids = S]

LEMMA IdsEffect ==
  ASSUME NEW f \in [Ids -> Jobs], NEW i \in Ids, NEW stage \in Stages,
         NEW S \in SUBSET People, NEW g, IdsSet(f, g, i, stage, S)
  PROVE  /\ g \in [Ids -> Jobs]
         /\ g[i].at = stage /\ g[i].ids = S
         /\ \A k \in Ids : k # i => g[k] = f[k]
  <1>1. ASSUME NEW h \in [Ids -> Jobs]
        PROVE  /\ [h EXCEPT ![i].ids = S] \in [Ids -> Jobs]
               /\ [h EXCEPT ![i].ids = S][i].at = h[i].at
               /\ [h EXCEPT ![i].ids = S][i].ids = S
               /\ \A k \in Ids : k # i => [h EXCEPT ![i].ids = S][k] = h[k]
    BY ONLY h \in [Ids -> Jobs], i \in Ids, S \in SUBSET People DEF Jobs
  <1>2. PICK h : h = [f EXCEPT ![i].at = stage]
    OBVIOUS
  <1>3. g = [h EXCEPT ![i].ids = S]
    BY <1>2 DEF IdsSet
  <1>4. /\ h \in [Ids -> Jobs] /\ h[i].at = stage
        /\ \A k \in Ids : k # i => h[k] = f[k]
    <2>1. f \in [Ids -> Jobs] /\ i \in Ids /\ stage \in Stages
      OBVIOUS
    <2> QED
      BY ONLY <2>1, <1>2, AtEffect
  <1>5. /\ [h EXCEPT ![i].ids = S] \in [Ids -> Jobs]
        /\ [h EXCEPT ![i].ids = S][i].at = h[i].at
        /\ [h EXCEPT ![i].ids = S][i].ids = S
        /\ \A k \in Ids : k # i => [h EXCEPT ![i].ids = S][k] = h[k]
    BY ONLY <1>1, <1>4
  <1> QED
    BY ONLY <1>3, <1>4, <1>5

TodoSet(f, g, i, stage, S) == g = [f EXCEPT ![i].at = stage, ![i].todo = S]

LEMMA TodoEffect ==
  ASSUME NEW f \in [Ids -> Jobs], NEW i \in Ids, NEW stage \in Stages,
         NEW S \in SUBSET Receivers, NEW g, TodoSet(f, g, i, stage, S)
  PROVE  /\ g \in [Ids -> Jobs]
         /\ g[i].at = stage /\ g[i].todo = S
         /\ \A k \in Ids : k # i => g[k] = f[k]
  <1>1. ASSUME NEW h \in [Ids -> Jobs]
        PROVE  /\ [h EXCEPT ![i].todo = S] \in [Ids -> Jobs]
               /\ [h EXCEPT ![i].todo = S][i].at = h[i].at
               /\ [h EXCEPT ![i].todo = S][i].todo = S
               /\ \A k \in Ids : k # i => [h EXCEPT ![i].todo = S][k] = h[k]
    BY ONLY h \in [Ids -> Jobs], i \in Ids, S \in SUBSET Receivers DEF Jobs
  <1>2. PICK h : h = [f EXCEPT ![i].at = stage]
    OBVIOUS
  <1>3. g = [h EXCEPT ![i].todo = S]
    BY <1>2 DEF TodoSet
  <1>4. /\ h \in [Ids -> Jobs] /\ h[i].at = stage
        /\ \A k \in Ids : k # i => h[k] = f[k]
    <2>1. f \in [Ids -> Jobs] /\ i \in Ids /\ stage \in Stages
      OBVIOUS
    <2> QED
      BY ONLY <2>1, <1>2, AtEffect
  <1>5. /\ [h EXCEPT ![i].todo = S] \in [Ids -> Jobs]
        /\ [h EXCEPT ![i].todo = S][i].at = h[i].at
        /\ [h EXCEPT ![i].todo = S][i].todo = S
        /\ \A k \in Ids : k # i => [h EXCEPT ![i].todo = S][k] = h[k]
    BY ONLY <1>1, <1>4
  <1> QED
    BY ONLY <1>3, <1>4, <1>5

LEMMA SentEffect ==
  ASSUME NEW f \in [Ids -> Jobs], NEW i \in Ids, NEW u
  PROVE  /\ [f EXCEPT ![i].todo = @ \ {u}] \in [Ids -> Jobs]
         /\ [f EXCEPT ![i].todo = @ \ {u}][i].at = f[i].at
         /\ [f EXCEPT ![i].todo = @ \ {u}][i].todo = f[i].todo \ {u}
         /\ \A k \in Ids : k # i => [f EXCEPT ![i].todo = @ \ {u}][k] = f[k]
  BY DEF Jobs

LEMMA AnsweringIsJob ==
  ASSUME BotTypeOK, NEW d \in Ids
  PROVE  Answering(d) \in Jobs /\ Answering(d).at = "answer" /\ Answering(d).dialogue = d
  <1>1. step[d] \in 1 .. LastStep
    BY DEF BotTypeOK
  <1>2. Idle \in Jobs
    BY IdleIsJob
  <1> QED
    BY <1>1, <1>2 DEF Answering, Idle, Jobs, Stages

\* The job that is at work belongs to a message the loop has taken.
LEMMA AtWorkIsTaken ==
  ASSUME BotTypeOK, NEW i \in Ids, job[i].at # "idle"
  PROVE  /\ i \in 1 .. taken /\ i \in 1 .. Len(log) /\ i <= fetched
         /\ log[i] \in Messages /\ From(i) \in People
  <1>1. i \in 1 .. taken /\ taken \in Nat /\ fetched \in Nat /\ taken <= fetched /\ fetched <= Len(log)
    BY DEF BotTypeOK, Ids
  <1>2. i \in 1 .. Len(log)
    BY <1>1 DEF BotTypeOK
  <1> QED
    BY <1>1, <1>2, MessageType DEF From

LEMMA HandlerStage == \A m : Handler(m) \in {"idle", "command", "broadcast", "quest"}
  BY DEF Handler

\* What a handler's step leaves alone.
HandlerKeeps == UNCHANGED <<log, confirmed, fetched, taken, loop, hasty, restarts>>

\* The variables a handler's step may change keep their types.
HandlerTypes ==
  /\ adminIDs' \subseteq People
  /\ broadcastPending' \subseteq People
  /\ questCreation' \in [People -> {NoDialogue} \cup Ids]
  /\ step' \in [Ids -> 1 .. LastStep]
  /\ job' \in [Ids -> Jobs]
  /\ \A k \in Ids : job'[k].at # "idle" => k <= taken
  /\ done' \subseteq Ids
  /\ got' \in [Ids -> [Receivers -> Nat]]
  /\ sent' \subseteq Ids
  /\ made' \in [Ids -> Nat]

LEMMA HandleTypes ==
  ASSUME BotTypeOK, NEW i \in Ids, Handle(i)
  PROVE  HandlerKeeps /\ HandlerTypes
  <1>1. job[i].at # "idle"
    BY DEF Handle, handleCommand, AppendAdmin, executeBroadcast, SendNext,
           handleQuestCreationStep, AnswerQuestion, CreateQuest, ForgetDialogue
  <1>2. /\ i <= taken /\ log[i] \in Messages /\ From(i) \in People
    BY <1>1, AtWorkIsTaken
  <1>3. HandlerKeeps
    BY DEF HandlerKeeps, updateVars, Handle, handleCommand, AppendAdmin, executeBroadcast, SendNext,
           handleQuestCreationStep, AnswerQuestion, CreateQuest, ForgetDialogue
  <1> SUFFICES HandlerTypes
    BY <1>3
  <1>4. ASSUME Finish(i)
        PROVE  /\ job' \in [Ids -> Jobs] /\ done' \subseteq Ids
               /\ \A k \in Ids : job'[k].at # "idle" => k <= taken
    <2>1. \A k \in Ids : k # i => job'[k] = job[k]
      BY <1>4, FinishEffect
    <2> QED
      BY <1>2, <1>4, <2>1, FinishEffect DEF BotTypeOK
  <1>5. ASSUME NEW stage \in Stages, job' = [job EXCEPT ![i].at = stage], UNCHANGED done
        PROVE  /\ job' \in [Ids -> Jobs] /\ done' \subseteq Ids
               /\ \A k \in Ids : job'[k].at # "idle" => k <= taken
    <2>1. job' \in [Ids -> Jobs] /\ \A k \in Ids : k # i => job'[k] = job[k]
      BY <1>5, AtEffect DEF BotTypeOK
    <2> QED
      BY <1>2, <1>5, <2>1 DEF BotTypeOK
  <1>6. CASE handleCommand(i)
    <2>1. UNCHANGED resultVars
      BY <1>6 DEF handleCommand
    <2>2. CASE handleBroadcastStart(i)
      BY <1>2, <1>4, <2>1, <2>2 DEF handleBroadcastStart, HandlerTypes, BotTypeOK, resultVars
    <2>3. CASE handleNewQuest(i)
      BY <1>2, <1>4, <2>1, <2>3, AdminBotAssumption DEF handleNewQuest, HandlerTypes, BotTypeOK, resultVars
    <2>4. CASE handleAddAdmin(i)
      <3>1. job' = [job EXCEPT ![i].at = "append", ![i].ids = adminIDs] /\ UNCHANGED <<botVars, done>>
        BY <2>4 DEF handleAddAdmin
      <3>2. job' \in [Ids -> Jobs] /\ \A k \in Ids : k # i => job'[k] = job[k]
        <4>1. job \in [Ids -> Jobs] /\ "append" \in Stages /\ adminIDs \in SUBSET People
          BY DEF BotTypeOK, Stages
        <4>2. IdsSet(job, job', i, "append", adminIDs)
          BY <3>1 DEF IdsSet
        <4> QED
          BY ONLY <4>1, <4>2, i \in Ids, IdsEffect
      <3> QED
        BY <1>2, <2>1, <3>1, <3>2 DEF HandlerTypes, BotTypeOK, resultVars, botVars
    <2>5. CASE handleOther(i)
      BY <1>4, <2>1, <2>5 DEF handleOther, HandlerTypes, BotTypeOK, resultVars, botVars
    <2> QED
      BY <1>6, <2>2, <2>3, <2>4, <2>5 DEF handleCommand
  <1>7. CASE AppendAdmin(i)
    <2>1. job[i].ids \subseteq People
      BY JobType
    <2> QED
      BY <1>4, <1>7, <2>1 DEF AppendAdmin, HandlerTypes, BotTypeOK, resultVars
  <1>8. CASE executeBroadcast(i)
    <2>1. CASE Finish(i) /\ UNCHANGED sent
      BY <1>4, <1>8, <2>1 DEF executeBroadcast, HandlerTypes, BotTypeOK
    <2>2. CASE /\ sent' = sent \cup {i} /\ UNCHANGED done
               /\ job' = [job EXCEPT ![i].at = "send", ![i].todo = Receivers]
      <3>1. job' \in [Ids -> Jobs] /\ \A k \in Ids : k # i => job'[k] = job[k]
        <4>1. job \in [Ids -> Jobs] /\ "send" \in Stages /\ Receivers \in SUBSET Receivers
          BY DEF BotTypeOK, Stages
        <4>2. TodoSet(job, job', i, "send", Receivers)
          BY <2>2 DEF TodoSet
        <4> QED
          BY ONLY <4>1, <4>2, i \in Ids, TodoEffect
      <3> QED
        BY <1>2, <1>8, <2>2, <3>1 DEF executeBroadcast, HandlerTypes, BotTypeOK
    <2> QED
      BY <1>8, <2>1, <2>2 DEF executeBroadcast
  <1>9. CASE SendNext(i)
    <2>1. CASE job[i].todo = {} /\ Finish(i) /\ UNCHANGED got
      BY <1>4, <1>9, <2>1 DEF SendNext, HandlerTypes, BotTypeOK, botVars
    <2>2. ASSUME NEW u \in job[i].todo, job' = [job EXCEPT ![i].todo = @ \ {u}],
                 got' \in {got, [got EXCEPT ![i][u] = @ + 1]}, UNCHANGED done
          PROVE  HandlerTypes
      <3>1. job' \in [Ids -> Jobs] /\ \A k \in Ids : k # i => job'[k] = job[k]
        BY <2>2, SentEffect DEF BotTypeOK
      <3>2. u \in Receivers
        BY JobType
      <3>3. got' \in [Ids -> [Receivers -> Nat]]
        <4>1. \A f \in [Ids -> [Receivers -> Nat]] :
                [f EXCEPT ![i][u] = @ + 1] \in [Ids -> [Receivers -> Nat]]
          BY <3>2
        <4>2. got \in [Ids -> [Receivers -> Nat]]
          BY DEF BotTypeOK
        <4>3. got' = got \/ got' = [got EXCEPT ![i][u] = @ + 1]
          BY <2>2
        <4> QED
          BY <4>1, <4>2, <4>3
      <3> QED
        BY <1>2, <1>9, <2>2, <3>1, <3>3 DEF SendNext, HandlerTypes, BotTypeOK, botVars
    <2> QED
      BY <1>9, <2>1, <2>2 DEF SendNext
  <1>10. CASE handleQuestCreationStep(i)
    <2>1. UNCHANGED <<botVars, resultVars>>
      BY <1>10 DEF handleQuestCreationStep
    <2>2. CASE Finish(i)
      BY <1>2, <1>4, <2>1, <2>2 DEF HandlerTypes, BotTypeOK, botVars, resultVars
    <2>3. ASSUME NEW d, d = questCreation[From(i)], d # NoDialogue,
                 job' = [job EXCEPT ![i] = Answering(d)], UNCHANGED done
          PROVE  HandlerTypes
      <3>1. d \in Ids
        BY <1>2, <2>3 DEF BotTypeOK
      <3>2. Answering(d) \in Jobs
        BY <3>1, AnsweringIsJob
      <3>3. job' \in [Ids -> Jobs] /\ \A k \in Ids : k # i => job'[k] = job[k]
        BY <2>3, <3>2 DEF BotTypeOK
      <3> QED
        BY <1>2, <2>1, <2>3, <3>3 DEF HandlerTypes, BotTypeOK, botVars, resultVars
    <2> QED
      BY <1>10, <2>2, <2>3 DEF handleQuestCreationStep
  <1>11. CASE CreateQuest(i)
    <2>1. made' \in [Ids -> Nat]
      BY <1>11 DEF CreateQuest, BotTypeOK
    <2> QED
      BY <1>5, <1>11, <2>1 DEF CreateQuest, StageTo, Stages, HandlerTypes, BotTypeOK, botVars
  <1>12. CASE ForgetDialogue(i)
    BY <1>2, <1>4, <1>12 DEF ForgetDialogue, HandlerTypes, BotTypeOK, resultVars
  <1>13. CASE AnswerQuestion(i)
    <2>1. UNCHANGED <<adminIDs, broadcastPending, questCreation, resultVars>>
      BY <1>13 DEF AnswerQuestion
    <2>2. CASE Finish(i) /\ UNCHANGED step
      BY <1>2, <1>4, <2>1, <2>2 DEF HandlerTypes, BotTypeOK, resultVars
    <2>3. CASE job[i].seen < LastStep /\ step' = [step EXCEPT ![job[i].dialogue] = job[i].seen + 1] /\ Finish(i)
      <3>1. job[i].seen + 1 \in 1 .. LastStep
        <4>1. job[i].seen \in 1 .. LastStep
          BY DEF BotTypeOK, Jobs
        <4> QED
          BY <2>3, <4>1, AdminBotAssumption
      <3>2. step' \in [Ids -> 1 .. LastStep]
        BY <2>3, <3>1 DEF BotTypeOK
      <3> QED
        BY <1>2, <1>4, <2>1, <2>3, <3>2 DEF HandlerTypes, BotTypeOK, resultVars
    <2>4. CASE StageTo(i, "create") /\ UNCHANGED step
      BY <1>5, <2>1, <2>4 DEF StageTo, Stages, HandlerTypes, BotTypeOK, resultVars
    <2> QED
      BY <1>13, <2>2, <2>3, <2>4 DEF AnswerQuestion
  <1> QED
    BY <1>6, <1>7, <1>8, <1>9, <1>10, <1>11, <1>12, <1>13 DEF Handle

LEMMA BotTypeStep ==
  ASSUME BotTypeOK, [BotNext]_allVars
  PROVE  BotTypeOK'
  <1>1. ASSUME NEW m \in Writes, Write(m) PROVE BotTypeOK'
    <2>1. m \in Messages /\ Len(log) \in Nat /\ Len(log) < MaxMessages /\ log' = Append(log, m)
      BY <1>1, AdminBotAssumption DEF Write, BotTypeOK
    <2>2. log' \in Seq(Messages) /\ Len(log') = Len(log) + 1
      BY <2>1 DEF BotTypeOK
    <2>3. hasty' \subseteq People
      BY <1>1 DEF Write, Overlapping, BotTypeOK
    <2>4. fetched' \in 0 .. Len(log') /\ Len(log') <= MaxMessages
      BY <1>1, <2>1, <2>2, AdminBotAssumption DEF Write, BotTypeOK
    <2> QED
      BY <1>1, <2>2, <2>3, <2>4 DEF Write, BotTypeOK, botVars, resultVars
  <1>2. CASE Fetch
    <2>1. Len(log) \in Nat /\ fetched \in 0 .. Len(log) /\ taken \in 0 .. fetched
      BY DEF BotTypeOK
    <2>2. confirmed' \in 0 .. fetched' /\ fetched' \in 0 .. Len(log) /\ taken' \in 0 .. fetched'
      BY <1>2, <2>1 DEF Fetch
    <2> QED
      BY <1>2, <2>2 DEF Fetch, BotTypeOK, botVars, resultVars
  <1>3. CASE Dispatch
    <2> DEFINE n == taken + 1
    <2>1. n \in Ids /\ n \in 1 .. fetched /\ taken' = n
      BY <1>3, AdminBotAssumption DEF Dispatch, BotTypeOK, Ids
    <2>2. Handler(log[n]) \in Stages
      BY HandlerStage DEF Stages
    <2>3. job' = [job EXCEPT ![n].at = Handler(log[n])] /\ (done' = done \cup {n} \/ done' = done)
      BY <1>3 DEF Dispatch
    <2>4. job' \in [Ids -> Jobs] /\ \A k \in Ids : k # n => job'[k] = job[k]
      BY <2>1, <2>2, <2>3, AtEffect DEF BotTypeOK
    <2> HIDE DEF n
    <2>5. \A k \in Ids : job'[k].at # "idle" => k <= n
      BY <2>1, <2>4, <1>3 DEF BotTypeOK, Ids, n
    <2> QED
      BY <1>3, <2>1, <2>3, <2>4, <2>5 DEF Dispatch, BotTypeOK, botVars, resultVars
  <1>4. CASE Stop
    BY <1>4 DEF Stop, BotTypeOK, botVars, resultVars
  <1>5. CASE LoopReturns
    BY <1>5 DEF LoopReturns, BotTypeOK, botVars, resultVars
  <1>6. CASE Restart
    <2>1. confirmed \in Nat /\ confirmed <= fetched /\ fetched <= Len(log) /\ Len(log) <= MaxMessages
      BY DEF BotTypeOK
    <2>2. done' \subseteq Ids
      BY <1>6, <2>1, AdminBotAssumption DEF Restart, BotTypeOK, Ids
    <2>3. job' \in [Ids -> Jobs] /\ \A k \in Ids : job'[k].at = "idle"
      BY <1>6, IdleIsJob DEF Restart, Idle
    <2>4. questCreation' \in [People -> {NoDialogue} \cup Ids] /\ broadcastPending' \subseteq People
          /\ adminIDs' \subseteq People
      BY <1>6, AdminBotAssumption DEF Restart
    <2>5. hasty' \subseteq People /\ restarts' \in 0 .. MaxRestarts
      BY <1>6, AdminBotAssumption DEF Restart, Overlapping, BotTypeOK
    <2>6. /\ confirmed' \in 0 .. fetched' /\ fetched' \in 0 .. Len(log') /\ taken' \in 0 .. fetched'
          /\ log' = log /\ loop' = "running"
      BY <1>6, <2>1 DEF Restart, BotTypeOK
    <2> QED
      BY <1>6, <2>2, <2>3, <2>4, <2>5, <2>6 DEF Restart, BotTypeOK, resultVars
  <1>7. ASSUME NEW i \in Ids, Handle(i) PROVE BotTypeOK'
    BY <1>7, HandleTypes DEF HandlerKeeps, HandlerTypes, BotTypeOK
  <1>8. CASE UNCHANGED allVars
    BY <1>8 DEF allVars, updateVars, botVars, resultVars, BotTypeOK
  <1> QED
    BY <1>1, <1>2, <1>3, <1>4, <1>5, <1>6, <1>7, <1>8 DEF BotNext

\* Every map, queue and counter of the bot keeps its type, however handlers
\* interleave and whatever restarts deliver again.
THEOREM BotTypeCorrect == BotSpec => []BotTypeOK
  <1>1. BotInit => BotTypeOK
    <2> SUFFICES ASSUME BotInit
                 PROVE  BotTypeOK
      OBVIOUS
    <2>1. job \in [Ids -> Jobs] /\ \A i \in Ids : job[i].at = "idle"
      BY IdleIsJob DEF BotInit, Idle
    <2>2. /\ log = <<>> /\ Len(log) = 0 /\ log \in Seq(Messages) /\ 0 <= MaxMessages
      BY AdminBotAssumption DEF BotInit
    <2> QED
      BY <2>1, <2>2, AdminBotAssumption DEF BotInit, BotTypeOK
  <1>2. BotTypeOK /\ [BotNext]_allVars => BotTypeOK'
    BY BotTypeStep
  <1> QED
    BY <1>1, <1>2, PTL DEF BotSpec
-----------------------------------------------------------------------------
(* The admin bot: one message at a time.                                   *)

At(i) == job[i].at

\* Only messages the loop has taken are handled, by the handler of their kind;
\* whoever is in a dialogue has opened it; what nobody has written is not made,
\* and what was not sent has reached nobody.
JobFits(i) ==
  /\ At(i) # "idle" => i \notin done
  /\ At(i) \in {"broadcast", "send", "quest", "answer", "create", "forget"} => log[i].kind = "text"
  /\ At(i) \in {"command", "append"} => log[i].kind # "text"
  /\ At(i) \in {"answer", "create"} => job[i].dialogue \in Of(From(i), "newquest")

Opened == \A p \in People :
  questCreation[p] # NoDialogue => questCreation[p] \in Of(p, "newquest")

Unsent(i) == i \notin sent => At(i) # "send" /\ \A u \in Receivers : got[i][u] = 0

BotInv ==
  /\ done \subseteq 1 .. taken
  /\ sent \subseteq 1 .. Len(log)
  /\ \A i \in Ids : JobFits(i) /\ Unsent(i)
  /\ Opened
  /\ \A i \in Ids : i > Len(log) => made[i] = 0

\* A message comes after the one before was handled, and Telegram will not
\* deliver that one again once the later is in the channel.
Mine(p) == {i \in 1 .. Len(log) : log[i].from = p}

Waits(p) == \A i, j \in Mine(p) : i < j =>
  /\ i \in done
  /\ j <= fetched => i <= confirmed

\* A dialogue makes one quest, and is left before another answer comes.
MadeOnce(d, p) ==
  /\ made[d] <= 1
  /\ made[d] = 1 => d \in done /\ d <= confirmed
  /\ questCreation[p] = d /\ made[d] = 1 => \E i \in Mine(p) : At(i) = "forget"

OneQuest(p) ==
  /\ \A d \in Of(p, "newquest") : MadeOnce(d, p)
  /\ \A i \in Mine(p) : At(i) \in {"answer", "create"} =>
       questCreation[p] = job[i].dialogue /\ made[job[i].dialogue] = 0

\* A text goes out when the mark is set, and takes it; one that went out is not
\* handled again with the mark set.
TextOnce(i, p) ==
  /\ At(i) = "broadcast" => p \in broadcastPending /\ i \notin sent
  /\ i \in sent /\ i \notin done => p \notin broadcastPending
  /\ \A u \in Receivers : got[i][u] <= 1
  /\ At(i) = "send" => \A u \in job[i].todo : got[i][u] = 0

OneBroadcast(p) == \A i \in Of(p, "text") : TextOnce(i, p)

\* There is a /broadcast between two texts that went out, and one after all of
\* them while the mark is set.
Texts(p) == sent \cap Of(p, "text")

Asked(p) ==
  /\ \A i \in Texts(p) : \E b \in Of(p, "broadcast") :
       b < i /\ \A k \in Texts(p) : k < b \/ i <= k
  /\ p \in broadcastPending =>
       \E b \in Of(p, "broadcast") : \A k \in Texts(p) : k < b

WaitUser(p) == Waits(p) /\ OneQuest(p) /\ OneBroadcast(p) /\ Asked(p)

WaitInv == \A p \in People \ hasty : WaitUser(p)

LEMMA OfIs ==
  ASSUME BotTypeOK, NEW p, NEW kind, NEW i
  PROVE  i \in Of(p, kind) <=> i \in Mine(p) /\ log[i].kind = kind
  <1>1. ASSUME i \in 1 .. Len(log)
        PROVE  log[i] = [from |-> p, kind |-> kind] <=> log[i].from = p /\ log[i].kind = kind
    <2>1. log[i] \in Messages
      BY <1>1, MessageType
    <2> QED
      BY <2>1 DEF Messages
  <1> QED
    BY <1>1 DEF Of, Mine

\* Whoever's messages do not overlap has one that is not handled, his last.
LEMMA LastIsAlone ==
  ASSUME BotTypeOK, BotInv, NEW p \in People, Waits(p),
         NEW i \in Mine(p), i \notin done
  PROVE  \A j \in Mine(p) : j # i =>
           /\ j < i /\ j \in done /\ j \in Ids /\ At(j) = "idle"
           /\ i <= fetched => j <= confirmed
  <1> SUFFICES ASSUME NEW j \in Mine(p), j # i
               PROVE  /\ j < i /\ j \in done /\ j \in Ids /\ At(j) = "idle"
                      /\ i <= fetched => j <= confirmed
    OBVIOUS
  <1>1. ~(i < j)
    BY DEF Waits
  <1>2. j < i
    BY <1>1 DEF Mine
  <1>3. j \in done /\ (i <= fetched => j <= confirmed)
    BY <1>2 DEF Waits
  <1>4. j \in Ids
    BY MessageType DEF Mine
  <1>5. At(j) = "idle"
    BY <1>3, <1>4 DEF BotInv, JobFits
  <1> QED
    BY <1>2, <1>3, <1>4, <1>5
-----------------------------------------------------------------------------
(* What a step of a handler does to what these invariants look at.         *)

Rest == <<broadcastPending, questCreation, sent, got, made>>

\* He returns, ...
Plain(i) ==
  /\ At(i) \in {"command", "append", "send", "quest", "answer"}
  /\ Finish(i)
  /\ UNCHANGED Rest

\* ... has read the admins, ...
ReadsAdmins(i) ==
  /\ At(i) = "command"
  /\ job'[i].at = "append" /\ job' \in [Ids -> Jobs]
  /\ \A k \in Ids : k # i => job'[k] = job[k]
  /\ UNCHANGED <<done, Rest>>

\* ... sets the mark, ...
Marks(i) ==
  /\ At(i) = "command" /\ log[i].kind = "broadcast"
  /\ broadcastPending' = broadcastPending \cup {From(i)}
  /\ Finish(i)
  /\ UNCHANGED <<questCreation, sent, got, made>>

\* ... opens a dialogue, ...
Opens(i) ==
  /\ At(i) = "command" /\ log[i].kind = "newquest"
  /\ questCreation' = [questCreation EXCEPT ![From(i)] = i]
  /\ Finish(i)
  /\ UNCHANGED <<broadcastPending, sent, got, made>>

\* ... takes the mark in vain, or to send, ...
Drops(i) ==
  /\ At(i) = "broadcast"
  /\ broadcastPending' = broadcastPending \ {From(i)}
  /\ Finish(i)
  /\ UNCHANGED <<questCreation, sent, got, made>>

Begins(i) ==
  /\ At(i) = "broadcast"
  /\ broadcastPending' = broadcastPending \ {From(i)}
  /\ sent' = sent \cup {i}
  /\ job'[i].at = "send" /\ job'[i].todo = Receivers /\ job' \in [Ids -> Jobs]
  /\ \A k \in Ids : k # i => job'[k] = job[k]
  /\ UNCHANGED <<questCreation, done, got, made>>

\* ... is through with one user, ...
Sends(i, u) ==
  /\ At(i) = "send"
  /\ u \in job[i].todo /\ u \in Receivers
  /\ job'[i].at = "send" /\ job'[i].todo = job[i].todo \ {u} /\ job' \in [Ids -> Jobs]
  /\ \A k \in Ids : k # i => job'[k] = job[k]
  /\ got' \in {got, [got EXCEPT ![i][u] = @ + 1]}
  /\ UNCHANGED <<broadcastPending, questCreation, sent, done, made>>

\* ... takes up a dialogue, has its last answer, creates the quest and leaves it.
Answers(i) ==
  /\ At(i) = "quest"
  /\ questCreation[From(i)] # NoDialogue
  /\ job'[i].at = "answer" /\ job'[i].dialogue = questCreation[From(i)] /\ job' \in [Ids -> Jobs]
  /\ \A k \in Ids : k # i => job'[k] = job[k]
  /\ UNCHANGED <<done, Rest>>

Completes(i) ==
  /\ At(i) = "answer"
  /\ job'[i].at = "create" /\ job'[i].dialogue = job[i].dialogue /\ job' \in [Ids -> Jobs]
  /\ \A k \in Ids : k # i => job'[k] = job[k]
  /\ UNCHANGED <<done, Rest>>

Creates(i) ==
  /\ At(i) = "create"
  /\ job'[i].at = "forget" /\ job' \in [Ids -> Jobs]
  /\ \A k \in Ids : k # i => job'[k] = job[k]
  /\ made' \in {made, [made EXCEPT ![job[i].dialogue] = @ + 1]}
  /\ UNCHANGED <<broadcastPending, questCreation, sent, got, done>>

Leaves(i) ==
  /\ At(i) = "forget"
  /\ questCreation' = [questCreation EXCEPT ![From(i)] = NoDialogue]
  /\ Finish(i)
  /\ UNCHANGED <<broadcastPending, sent, got, made>>

LEMMA HandleCases ==
  ASSUME BotTypeOK, NEW i \in Ids, Handle(i)
  PROVE  \/ Plain(i) \/ ReadsAdmins(i) \/ Marks(i) \/ Opens(i) \/ Drops(i) \/ Begins(i)
         \/ (\E u \in Receivers : Sends(i, u)) \/ Answers(i) \/ Completes(i) \/ Creates(i) \/ Leaves(i)
  <1>1. job \in [Ids -> Jobs] /\ "append" \in Stages /\ "send" \in Stages /\ "create" \in Stages /\ "forget" \in Stages
    BY DEF BotTypeOK, Stages
  <1>2. CASE handleCommand(i)
    <2>1. At(i) = "command" /\ got' = got /\ sent' = sent /\ made' = made
      BY <1>2 DEF handleCommand, At, resultVars
    <2>2. CASE handleBroadcastStart(i)
      BY <2>1, <2>2 DEF handleBroadcastStart, Marks
    <2>3. CASE handleNewQuest(i)
      BY <2>1, <2>3 DEF handleNewQuest, Opens
    <2>4. CASE handleAddAdmin(i)
      <3>1. job' = [job EXCEPT ![i].at = "append", ![i].ids = adminIDs] /\ adminIDs \in SUBSET People
        BY <2>4 DEF handleAddAdmin, BotTypeOK
      <3>2. broadcastPending' = broadcastPending /\ questCreation' = questCreation /\ done' = done
        BY <2>4 DEF handleAddAdmin, botVars
      <3>3. /\ job'[i].at = "append" /\ job' \in [Ids -> Jobs]
            /\ \A k \in Ids : k # i => job'[k] = job[k]
        <4>1. IdsSet(job, job', i, "append", adminIDs)
          BY <3>1 DEF IdsSet
        <4> QED
          BY ONLY <1>1, <3>1, <4>1, i \in Ids, IdsEffect
      <3> QED
        BY <2>1, <3>2, <3>3 DEF ReadsAdmins, Rest
    <2>5. CASE handleOther(i)
      BY <2>1, <2>5 DEF handleOther, Plain, Rest, botVars
    <2> QED
      BY <1>2, <2>2, <2>3, <2>4, <2>5 DEF handleCommand
  <1>3. CASE AppendAdmin(i)
    BY <1>3 DEF AppendAdmin, Plain, Rest, At, resultVars
  <1>4. CASE executeBroadcast(i)
    <2>1. /\ At(i) = "broadcast" /\ broadcastPending' = broadcastPending \ {From(i)}
          /\ questCreation' = questCreation /\ got' = got /\ made' = made
      BY <1>4 DEF executeBroadcast, At
    <2>2. CASE Finish(i) /\ UNCHANGED sent
      BY <2>1, <2>2 DEF Drops
    <2>3. CASE /\ sent' = sent \cup {i} /\ UNCHANGED done
               /\ job' = [job EXCEPT ![i].at = "send", ![i].todo = Receivers]
      <3>1. Receivers \in SUBSET Receivers
        OBVIOUS
      <3>2. /\ job'[i].at = "send" /\ job'[i].todo = Receivers /\ job' \in [Ids -> Jobs]
            /\ \A k \in Ids : k # i => job'[k] = job[k]
        <4>1. TodoSet(job, job', i, "send", Receivers)
          BY <2>3 DEF TodoSet
        <4> QED
          BY ONLY <1>1, <3>1, <4>1, i \in Ids, TodoEffect
      <3> QED
        BY <2>1, <2>3, <3>2 DEF Begins
    <2> QED
      BY <1>4, <2>2, <2>3 DEF executeBroadcast
  <1>5. CASE SendNext(i)
    <2>1. /\ At(i) = "send" /\ broadcastPending' = broadcastPending
          /\ questCreation' = questCreation /\ sent' = sent /\ made' = made
      BY <1>5 DEF SendNext, At, botVars
    <2>2. CASE Finish(i) /\ UNCHANGED got
      BY <2>1, <2>2 DEF Plain, Rest
    <2>3. ASSUME NEW u \in job[i].todo, job' = [job EXCEPT ![i].todo = @ \ {u}],
                 got' \in {got, [got EXCEPT ![i][u] = @ + 1]}, UNCHANGED done
          PROVE  \E v \in Receivers : Sends(i, v)
      <3>1. u \in Receivers
        BY JobType
      <3>2. /\ job'[i].at = job[i].at /\ job'[i].todo = job[i].todo \ {u} /\ job' \in [Ids -> Jobs]
            /\ \A k \in Ids : k # i => job'[k] = job[k]
        BY <1>1, <2>3, SentEffect
      <3>3. Sends(i, u)
        BY <2>1, <2>3, <3>1, <3>2 DEF Sends, At
      <3> QED
        BY <3>1, <3>3
    <2> QED
      BY <1>5, <2>2, <2>3 DEF SendNext
  <1>6. CASE handleQuestCreationStep(i)
    <2>1. /\ At(i) = "quest" /\ broadcastPending' = broadcastPending
          /\ questCreation' = questCreation /\ sent' = sent /\ got' = got /\ made' = made
      BY <1>6 DEF handleQuestCreationStep, At, botVars, resultVars
    <2>2. CASE Finish(i)
      BY <2>1, <2>2 DEF Plain, Rest
    <2>3. ASSUME NEW d, d = questCreation[From(i)], d # NoDialogue,
                 job' = [job EXCEPT ![i] = Answering(d)], UNCHANGED done
          PROVE  Answers(i)
      <3>1. d \in Ids
        <4>1. From(i) \in People
          BY <2>1, AtWorkIsTaken DEF At
        <4> QED
          BY <2>3, <4>1 DEF BotTypeOK
      <3>2. Answering(d) \in Jobs /\ Answering(d).at = "answer" /\ Answering(d).dialogue = d
        BY <3>1, AnsweringIsJob
      <3>3. /\ job'[i].at = "answer" /\ job'[i].dialogue = d /\ job' \in [Ids -> Jobs]
            /\ \A k \in Ids : k # i => job'[k] = job[k]
        BY <1>1, <2>3, <3>2
      <3> QED
        BY <2>1, <2>3, <3>3 DEF Answers, Rest
    <2> QED
      BY <1>6, <2>2, <2>3 DEF handleQuestCreationStep
  <1>7. CASE CreateQuest(i)
    <2>1. /\ At(i) = "create" /\ broadcastPending' = broadcastPending
          /\ questCreation' = questCreation /\ sent' = sent /\ got' = got
          /\ made' \in {made, [made EXCEPT ![job[i].dialogue] = @ + 1]}
          /\ job' = [job EXCEPT ![i].at = "forget"] /\ done' = done
      BY <1>7 DEF CreateQuest, StageTo, At, botVars
    <2>2. /\ job'[i].at = "forget" /\ job' \in [Ids -> Jobs]
          /\ \A k \in Ids : k # i => job'[k] = job[k]
      BY <1>1, <2>1, AtEffect
    <2> QED
      BY <2>1, <2>2 DEF Creates
  <1>8. CASE ForgetDialogue(i)
    BY <1>8 DEF ForgetDialogue, Leaves, At, resultVars
  <1>9. CASE AnswerQuestion(i)
    <2>1. /\ At(i) = "answer" /\ broadcastPending' = broadcastPending
          /\ questCreation' = questCreation /\ sent' = sent /\ got' = got /\ made' = made
      BY <1>9 DEF AnswerQuestion, At, resultVars
    <2>2. CASE Finish(i)
      BY <2>1, <2>2 DEF Plain, Rest
    <2>3. CASE job' = [job EXCEPT ![i].at = "create"] /\ done' = done
      <3>1. /\ job'[i].at = "create" /\ job' \in [Ids -> Jobs]
            /\ \A k \in Ids : k # i => job'[k] = job[k]
        BY <1>1, <2>3, AtEffect
      <3>2. job'[i].dialogue = job[i].dialogue
        BY <1>1, <2>3 DEF Jobs
      <3> QED
        BY <2>1, <2>3, <3>1, <3>2 DEF Completes, Rest
    <2> QED
      BY <1>9, <2>2, <2>3 DEF AnswerQuestion, StageTo
  <1> QED
    BY <1>2, <1>3, <1>4, <1>5, <1>6, <1>7, <1>8, <1>9 DEF Handle

\* What all of them have in common.
HandleFrame(i) ==
  /\ HandlerKeeps
  /\ i \in 1 .. taken /\ i \in 1 .. Len(log) /\ i <= fetched /\ i \notin done /\ At(i) # "idle"
  /\ From(i) \in People
  /\ done' \in {done, done \cup {i}}
  /\ job' \in [Ids -> Jobs]
  /\ \A k \in Ids : k # i => job'[k] = job[k]
  /\ \A p \in People : p # From(i) =>
       questCreation'[p] = questCreation[p] /\ (p \in broadcastPending' <=> p \in broadcastPending)
  /\ sent' \in {sent, sent \cup {i}}
  /\ \A k \in Ids : k # i => got'[k] = got[k]
  /\ \A d \in Ids : made'[d] = made[d] \/ (At(i) = "create" /\ d = job[i].dialogue)

LEMMA HandleHasFrame ==
  ASSUME BotTypeOK, BotInv, NEW i \in Ids, Handle(i)
  PROVE  HandleFrame(i)
  <1>1. At(i) # "idle" /\ i \notin done
    <2>1. At(i) # "idle"
      BY DEF Handle, handleCommand, AppendAdmin, executeBroadcast, SendNext,
             handleQuestCreationStep, AnswerQuestion, CreateQuest, ForgetDialogue, At
    <2> QED
      BY <2>1 DEF BotInv, JobFits
  <1>2. i \in 1 .. taken /\ i \in 1 .. Len(log) /\ i <= fetched /\ From(i) \in People
    BY <1>1, AtWorkIsTaken DEF At
  <1>3. HandlerKeeps
    BY HandleTypes
  <1>4. ASSUME Finish(i)
        PROVE  /\ done' = done \cup {i} /\ job' \in [Ids -> Jobs]
               /\ \A k \in Ids : k # i => job'[k] = job[k]
    BY <1>4, FinishEffect
  <1>5. /\ questCreation \in [People -> {NoDialogue} \cup Ids]
        /\ got \in [Ids -> [Receivers -> Nat]] /\ made \in [Ids -> Nat]
    BY DEF BotTypeOK
  <1>6. CASE Plain(i)
    BY <1>1, <1>2, <1>3, <1>4, <1>6 DEF HandleFrame, Plain, Rest
  <1>7. CASE ReadsAdmins(i)
    BY <1>1, <1>2, <1>3, <1>7 DEF HandleFrame, ReadsAdmins, Rest
  <1>8. CASE Marks(i)
    BY <1>1, <1>2, <1>3, <1>4, <1>8 DEF HandleFrame, Marks
  <1>9. CASE Opens(i)
    BY <1>1, <1>2, <1>3, <1>4, <1>5, <1>9 DEF HandleFrame, Opens
  <1>10. CASE Drops(i)
    BY <1>1, <1>2, <1>3, <1>4, <1>10 DEF HandleFrame, Drops
  <1>11. CASE Begins(i)
    BY <1>1, <1>2, <1>3, <1>11 DEF HandleFrame, Begins
  <1>12. ASSUME NEW u \in Receivers, Sends(i, u) PROVE HandleFrame(i)
    <2>1. \A k \in Ids : k # i => got'[k] = got[k]
      BY <1>5, <1>12 DEF Sends
    <2> QED
      BY <1>1, <1>2, <1>3, <1>12, <2>1 DEF HandleFrame, Sends
  <1>13. CASE Answers(i)
    BY <1>1, <1>2, <1>3, <1>13 DEF HandleFrame, Answers, Rest
  <1>14. CASE Creates(i)
    <2>1. \A d \in Ids : made'[d] = made[d] \/ d = job[i].dialogue
      BY <1>5, <1>14 DEF Creates
    <2> QED
      BY <1>1, <1>2, <1>3, <1>14, <2>1 DEF HandleFrame, Creates
  <1>15. CASE Leaves(i)
    BY <1>1, <1>2, <1>3, <1>4, <1>5, <1>15 DEF HandleFrame, Leaves
  <1>16. CASE Completes(i)
    BY <1>1, <1>2, <1>3, <1>16 DEF HandleFrame, Completes, Rest
  <1> QED
    BY <1>6, <1>7, <1>8, <1>9, <1>10, <1>11, <1>12, <1>13, <1>14, <1>15, <1>16, HandleCases

\* A handler's step keeps what holds of every message, ...
LEMMA HandleKeepsBotInv ==
  ASSUME BotTypeOK, BotInv, NEW i \in Ids, Handle(i)
  PROVE  BotInv'
  <1>1. HandleFrame(i)
    BY HandleHasFrame
  <1>2. log' = log /\ taken' = taken
    BY <1>1 DEF HandleFrame, HandlerKeeps
  <1>3. \A p, kind : Of(p, kind)' = Of(p, kind)
    BY <1>2 DEF Of
  <1>4. i \in 1 .. taken /\ i \in 1 .. Len(log) /\ From(i) \in People /\ i \notin done
    BY <1>1 DEF HandleFrame
  <1>5. JobFits(i) /\ Unsent(i) /\ Opened
    BY DEF BotInv
  <1>6. (Finish(i) => job'[i].at = "idle")
    <2>1. ASSUME Finish(i) PROVE job'[i].at = "idle"
      BY <2>1, FinishEffect DEF Idle
    <2> QED
      BY <2>1
  <1>7. /\ job'[i].at # "idle" => i \notin done'
        /\ job'[i].at \in {"broadcast", "send", "quest", "answer", "create", "forget"} => log[i].kind = "text"
        /\ job'[i].at \in {"command", "append"} => log[i].kind # "text"
        /\ job'[i].at \in {"answer", "create"} => job'[i].dialogue \in Of(From(i), "newquest")
    <2>1. CASE Finish(i)
      BY <1>6, <2>1
    <2>2. CASE ReadsAdmins(i)
      BY <1>4, <1>5, <2>2 DEF ReadsAdmins, JobFits
    <2>3. CASE Begins(i)
      BY <1>4, <1>5, <2>3 DEF Begins, JobFits
    <2>4. ASSUME NEW u \in Receivers, Sends(i, u)
          PROVE  job'[i].at = "send" /\ i \notin done' /\ log[i].kind = "text"
      BY <1>4, <1>5, <2>4 DEF Sends, JobFits
    <2>5. CASE Answers(i)
      BY <1>4, <1>5, <2>5 DEF Answers, JobFits, Opened
    <2>6. CASE Creates(i)
      BY <1>4, <1>5, <2>6 DEF Creates, JobFits
    <2>7. CASE Completes(i)
      BY <1>4, <1>5, <2>7 DEF Completes, JobFits
    <2> QED
      BY <2>1, <2>2, <2>3, <2>4, <2>5, <2>6, <2>7, HandleCases DEF Plain, Marks, Opens, Drops, Leaves
  <1>8. i \notin sent' => job'[i].at # "send" /\ \A u \in Receivers : got'[i][u] = 0
    <2>1. CASE Finish(i) /\ sent' = sent /\ got' = got
      BY <1>5, <1>6, <2>1 DEF Unsent
    <2>2. CASE ReadsAdmins(i)
      BY <1>5, <2>2 DEF ReadsAdmins, Rest, Unsent
    <2>3. CASE Begins(i)
      BY <2>3 DEF Begins
    <2>4. ASSUME NEW u \in Receivers, Sends(i, u)
          PROVE  i \in sent'
      BY <1>5, <2>4 DEF Sends, Unsent
    <2>5. CASE Answers(i)
      BY <1>5, <2>5 DEF Answers, Rest, Unsent
    <2>6. CASE Creates(i)
      BY <1>5, <2>6 DEF Creates, Unsent
    <2>7. CASE Completes(i)
      BY <1>5, <2>7 DEF Completes, Rest, Unsent
    <2> QED
      BY <2>1, <2>2, <2>3, <2>4, <2>5, <2>6, <2>7, HandleCases DEF Plain, Marks, Opens, Drops, Leaves, Rest
  <1>9. questCreation'[From(i)] # NoDialogue => questCreation'[From(i)] \in Of(From(i), "newquest")
    <2>1. CASE questCreation' = questCreation
      BY <1>4, <1>5, <2>1 DEF Opened
    <2>2. questCreation \in [People -> {NoDialogue} \cup Ids]
      BY DEF BotTypeOK
    <2>3. CASE Opens(i)
      <3>1. questCreation'[From(i)] = i
        BY <1>4, <2>2, <2>3 DEF Opens
      <3>2. log[i].from = From(i) /\ log[i].kind = "newquest"
        BY <2>3 DEF Opens, From
      <3> QED
        BY <1>4, <3>1, <3>2, OfIs DEF Mine
    <2>4. CASE Leaves(i)
      BY <1>4, <2>2, <2>4 DEF Leaves
    <2> QED
      BY <2>1, <2>3, <2>4, HandleCases
      DEF Plain, ReadsAdmins, Marks, Drops, Begins, Sends, Answers, Completes, Creates, Rest
  <1>10. Opened'
    BY <1>1, <1>3, <1>5, <1>9 DEF Opened, HandleFrame
  <1>11. \A k \in Ids : k > Len(log) => made'[k] = 0
    <2>1. At(i) = "create" => job[i].dialogue \in 1 .. Len(log)
      BY <1>5 DEF JobFits, Of
    <2>2. \A k \in Ids : k > Len(log) => k # job[i].dialogue \/ At(i) # "create"
      BY <2>1
    <2> QED
      BY <1>1, <2>2 DEF HandleFrame, BotInv
  <1>12. \A k \in Ids : JobFits(k)' /\ Unsent(k)'
    <2>1. JobFits(i)' /\ Unsent(i)'
      BY <1>2, <1>3, <1>7, <1>8 DEF JobFits, Unsent, At, From
    <2>2. ASSUME NEW k \in Ids, k # i
          PROVE  JobFits(k)' /\ Unsent(k)'
      <3>1. /\ job'[k] = job[k] /\ got'[k] = got[k] /\ (k \in done' => k \in done)
            /\ (k \in sent => k \in sent')
        BY <1>1, <2>2 DEF HandleFrame
      <3>2. JobFits(k) /\ Unsent(k)
        BY DEF BotInv
      <3> QED
        BY <1>2, <1>3, <3>1, <3>2 DEF JobFits, Unsent, At, From
    <2> QED
      BY <2>1, <2>2
  <1>13. done' \subseteq 1 .. taken /\ sent' \subseteq 1 .. Len(log)
    BY <1>1, <1>4 DEF HandleFrame, BotInv
  <1> QED
    BY <1>2, <1>10, <1>11, <1>12, <1>13 DEF BotInv

\* ... and so does every other step.
LEMMA BotInvStep ==
  ASSUME BotTypeOK, BotInv, [BotNext]_allVars
  PROVE  BotInv'
  <1>1. ASSUME NEW m \in Writes, Write(m) PROVE BotInv'
    <2>1. m \in Messages /\ Len(log) \in Nat /\ log' = Append(log, m) /\ log \in Seq(Messages)
      BY <1>1, AdminBotAssumption DEF Write, BotTypeOK
    <2>2. /\ Len(log') = Len(log) + 1 /\ \A k \in 1 .. Len(log) : log'[k] = log[k]
          /\ 1 .. Len(log) \subseteq 1 .. Len(log')
      BY <2>1
    <2>3. /\ job' = job /\ done' = done /\ got' = got /\ sent' = sent /\ made' = made
          /\ questCreation' = questCreation /\ taken' = taken
      BY <1>1 DEF Write, botVars, resultVars
    <2>4. \A p, kind : Of(p, kind) \subseteq Of(p, kind)'
      BY <2>2 DEF Of
    <2>5. ASSUME NEW k \in Ids PROVE JobFits(k)' /\ Unsent(k)'
      <3>1. JobFits(k) /\ Unsent(k)
        BY DEF BotInv
      <3>2. CASE At(k) = "idle"
        BY <2>3, <3>1, <3>2 DEF JobFits, Unsent, At
      <3>3. CASE At(k) # "idle"
        <4>1. k \in 1 .. Len(log)
          BY <3>3, AtWorkIsTaken DEF At
        <4>2. log'[k] = log[k]
          BY <2>2, <4>1
        <4> QED
          BY <2>3, <2>4, <3>1, <4>2 DEF JobFits, Unsent, At, From
      <3> QED
        BY <3>2, <3>3
    <2>6. Opened'
      BY <2>3, <2>4 DEF BotInv, Opened
    <2>7. \A k \in Ids : k > Len(log') => made'[k] = 0
      BY <2>1, <2>2, <2>3 DEF BotInv, Ids
    <2> QED
      BY <2>2, <2>3, <2>5, <2>6, <2>7 DEF BotInv
  <1>2. CASE Fetch \/ Stop \/ LoopReturns \/ UNCHANGED allVars
    <2>1. /\ log' = log /\ job' = job /\ done' = done /\ got' = got /\ sent' = sent /\ made' = made
          /\ questCreation' = questCreation /\ taken' = taken
      BY <1>2 DEF Fetch, Stop, LoopReturns, allVars, updateVars, botVars, resultVars
    <2>2. /\ Opened' <=> Opened
          /\ \A k \in Ids : (JobFits(k)' <=> JobFits(k)) /\ (Unsent(k)' <=> Unsent(k))
      BY <2>1 DEF Opened, JobFits, Unsent, At, From, Of
    <2> QED
      BY <2>1, <2>2 DEF BotInv
  <1>3. CASE Dispatch
    <2>1. PICK n \in Ids : n = taken + 1 /\ n \in 1 .. Len(log) /\ taken' = n /\ taken \in Nat
      BY <1>3, AdminBotAssumption DEF Dispatch, BotTypeOK, Ids
    <2>2. /\ log' = log /\ got' = got /\ sent' = sent /\ made' = made
          /\ questCreation' = questCreation
      BY <1>3 DEF Dispatch, botVars, resultVars
    <2>3. Handler(log[n]) \in Stages
      BY HandlerStage DEF Stages
    <2>4. job' = [job EXCEPT ![n].at = Handler(log[n])] /\ (done' = done \cup {n} \/ done' = done)
          /\ (Handler(log[n]) # "idle" => done' = done)
      BY <1>3, <2>1 DEF Dispatch
    <2>5. job'[n].at = Handler(log[n]) /\ \A k \in Ids : k # n => job'[k] = job[k]
      BY <2>1, <2>3, <2>4, AtEffect DEF BotTypeOK
    <2>6. n \notin done
      BY <2>1 DEF BotInv
    <2>7. \A p, kind : Of(p, kind)' = Of(p, kind)
      BY <2>2 DEF Of
    <2>8. JobFits(n)' /\ Unsent(n)'
      <3>1. Handler(log[n]) \in {"idle", "command", "broadcast", "quest"}
        BY HandlerStage
      <3>2. /\ Handler(log[n]) = "command" => log[n].kind # "text"
            /\ Handler(log[n]) \in {"broadcast", "quest"} => log[n].kind = "text"
        BY DEF Handler
      <3>3. Unsent(n)
        BY <2>1 DEF BotInv
      <3>4. PICK h : h = Handler(log[n])
        OBVIOUS
      <3>5. h \in {"idle", "command", "broadcast", "quest"} /\ job'[n].at = h
        BY <2>5, <3>1, <3>4
      <3>6. Unsent(n)'
        BY <2>2, <3>3, <3>5 DEF Unsent, At
      <3>7. /\ job'[n].at # "idle" => n \notin done'
            /\ job'[n].at \in {"broadcast", "send", "quest", "answer", "create", "forget"} => log'[n].kind = "text"
            /\ job'[n].at \in {"command", "append"} => log'[n].kind # "text"
            /\ job'[n].at \notin {"answer", "create"}
        <4>1. h # "idle" => n \notin done'
          BY <2>4, <2>6, <3>4
        <4>2. /\ h = "command" => log'[n].kind # "text"
              /\ h \in {"broadcast", "quest"} => log'[n].kind = "text"
          BY <2>2, <3>2, <3>4
        <4> QED
          BY <3>5, <4>1, <4>2
      <3> QED
        BY <3>6, <3>7 DEF JobFits, At
    <2>9. ASSUME NEW k \in Ids, k # n PROVE JobFits(k)' /\ Unsent(k)'
      <3>1. JobFits(k) /\ Unsent(k) /\ job'[k] = job[k] /\ (k \in done' => k \in done)
        BY <2>4, <2>5, <2>9 DEF BotInv
      <3> QED
        BY <2>2, <2>7, <3>1 DEF JobFits, Unsent, At, From
    <2>10. Opened'
      BY <2>2, <2>7 DEF BotInv, Opened
    <2>11. done' \subseteq 1 .. taken' /\ sent' \subseteq 1 .. Len(log')
      <3>1. done \subseteq 1 .. taken /\ sent \subseteq 1 .. Len(log) /\ n = taken + 1
        BY <2>1 DEF BotInv
      <3>2. 1 .. taken \subseteq 1 .. n /\ n \in 1 .. n
        BY <2>1, <3>1
      <3> QED
        BY <2>1, <2>2, <2>4, <3>1, <3>2
    <2>12. \A k \in Ids : JobFits(k)' /\ Unsent(k)'
      BY <2>8, <2>9
    <2>13. \A k \in Ids : k > Len(log') => made'[k] = 0
      BY <2>2 DEF BotInv
    <2> QED
      BY <2>10, <2>11, <2>12, <2>13 DEF BotInv
  <1>4. CASE Restart
    <2>1. /\ log' = log /\ got' = got /\ sent' = sent /\ made' = made
          /\ questCreation' = [p \in People |-> NoDialogue] /\ taken' = confirmed
          /\ done' = 1 .. confirmed /\ job' = [i \in Ids |-> Idle]
      BY <1>4 DEF Restart, resultVars
    <2>2. \A k \in Ids : job'[k].at = "idle"
      BY <2>1 DEF Idle
    <2>3. \A k \in Ids : JobFits(k)' /\ Unsent(k)'
      BY <2>1, <2>2 DEF JobFits, Unsent, At, BotInv
    <2>4. Opened'
      BY <2>1 DEF Opened
    <2> QED
      BY <2>1, <2>3, <2>4 DEF BotInv
  <1>5. ASSUME NEW i \in Ids, Handle(i) PROVE BotInv'
    BY <1>5, HandleKeepsBotInv
  <1> QED
    BY <1>1, <1>2, <1>3, <1>4, <1>5 DEF BotNext
-----------------------------------------------------------------------------
(* Steps that do not touch what is somebody's.                             *)

Untouched(p) ==
  /\ Mine(p)' = Mine(p)
  /\ confirmed' = confirmed /\ fetched' = fetched
  /\ questCreation'[p] = questCreation[p]
  /\ p \in broadcastPending' <=> p \in broadcastPending
  /\ \A j \in Mine(p) :
       /\ log'[j] = log[j] /\ job'[j] = job[j] /\ got'[j] = got[j] /\ made'[j] = made[j]
       /\ j \in done' <=> j \in done
       /\ j \in sent' <=> j \in sent

LEMMA UntouchedKeeps ==
  ASSUME BotTypeOK, BotInv, NEW p \in People, Untouched(p), WaitUser(p)
  PROVE  WaitUser(p)'
  <1>1. \A kind : Of(p, kind)' = Of(p, kind) /\ Of(p, kind) \subseteq Mine(p)
    <2> SUFFICES ASSUME NEW kind PROVE Of(p, kind)' = Of(p, kind) /\ Of(p, kind) \subseteq Mine(p)
      OBVIOUS
    <2>1. Of(p, kind) = {i \in Mine(p) : log[i] = [from |-> p, kind |-> kind]}
      BY DEF Of, Mine
    <2>2. Of(p, kind)' = {i \in Mine(p)' : log'[i] = [from |-> p, kind |-> kind]}
      BY DEF Of, Mine
    <2> QED
      BY <2>1, <2>2 DEF Untouched
  <1>2. Mine(p)' = Mine(p) /\ confirmed' = confirmed /\ fetched' = fetched
    BY DEF Untouched
  <1>3. Waits(p)'
    BY <1>2 DEF Waits, WaitUser, Untouched
  <1>4. OneQuest(p)'
    <2>1. ASSUME NEW d \in Of(p, "newquest") PROVE MadeOnce(d, p)'
      <3>1. MadeOnce(d, p) /\ d \in Mine(p)
        BY <1>1, <2>1 DEF WaitUser, OneQuest
      <3> QED
        BY <1>2, <3>1 DEF MadeOnce, Untouched, At
    <2>2. ASSUME NEW i \in Mine(p), job'[i].at \in {"answer", "create"}
          PROVE  questCreation'[p] = job'[i].dialogue /\ made'[job'[i].dialogue] = 0
      <3>1. job'[i] = job[i] /\ questCreation'[p] = questCreation[p]
        BY DEF Untouched
      <3>2. At(i) \in {"answer", "create"} /\ i \in Ids /\ From(i) = p
        BY <2>2, <3>1, MessageType DEF At, Mine, From
      <3>3. questCreation[p] = job[i].dialogue /\ made[job[i].dialogue] = 0
        BY <3>2 DEF WaitUser, OneQuest
      <3>4. job[i].dialogue \in Mine(p)
        BY <1>1, <3>2 DEF BotInv, JobFits
      <3> QED
        BY <3>1, <3>3, <3>4 DEF Untouched
    <2> QED
      BY <1>1, <1>2, <2>1, <2>2 DEF OneQuest, At
  <1>5. OneBroadcast(p)'
    <2>1. ASSUME NEW i \in Of(p, "text") PROVE TextOnce(i, p)'
      <3>1. TextOnce(i, p) /\ i \in Mine(p)
        BY <1>1, <2>1 DEF WaitUser, OneBroadcast
      <3> QED
        BY <3>1 DEF TextOnce, Untouched, At
    <2> QED
      BY <1>1, <2>1 DEF OneBroadcast
  <1>6. Asked(p)'
    <2>1. Texts(p)' = Texts(p)
      BY <1>1 DEF Texts, Untouched
    <2>2. Asked(p) /\ (p \in broadcastPending' <=> p \in broadcastPending)
      BY DEF WaitUser, Untouched
    <2> QED
      BY <1>1, <2>1, <2>2 DEF Asked
  <1> QED
    BY <1>3, <1>4, <1>5, <1>6 DEF WaitUser

\* A handler does not touch what is another's.
LEMMA OthersKeep ==
  ASSUME BotTypeOK, BotInv, NEW i \in Ids, Handle(i),
         NEW p \in People, p # From(i), WaitUser(p)
  PROVE  WaitUser(p)'
  <1>1. HandleFrame(i)
    BY HandleHasFrame
  <1>2. log' = log /\ confirmed' = confirmed /\ fetched' = fetched
    BY <1>1 DEF HandleFrame, HandlerKeeps
  <1>3. \A j \in Mine(p) : j # i /\ j \in Ids
    BY MessageType DEF Mine, From
  <1>4. \A j \in Mine(p) : made'[j] = made[j]
    <2>1. At(i) = "create" => job[i].dialogue \notin Mine(p)
      <3>1. At(i) = "create" => job[i].dialogue \in Of(From(i), "newquest")
        BY DEF BotInv, JobFits
      <3>2. \A d \in Of(From(i), "newquest") : log[d].from = From(i)
        BY DEF Of
      <3> QED
        BY <3>1, <3>2 DEF Mine
    <2> QED
      BY <1>1, <1>3, <2>1 DEF HandleFrame
  <1>5. Mine(p)' = Mine(p)
    BY <1>2 DEF Mine
  <1>6. Untouched(p)
    BY <1>1, <1>2, <1>3, <1>4, <1>5 DEF HandleFrame, Untouched
  <1> QED
    BY <1>6, UntouchedKeeps
-----------------------------------------------------------------------------
(* A step of the handler of somebody's last message.                       *)

\* While it runs, the others are handled and will not come again.
Alone(i) == \A j \in Mine(From(i)) : j # i =>
  /\ j < i /\ j \in done /\ j \in Ids /\ job[j].at = "idle" /\ job'[j] = job[j]
  /\ j <= confirmed

LEMMA HandlerIsAlone ==
  ASSUME BotTypeOK, BotInv, NEW i \in Ids, Handle(i), WaitUser(From(i))
  PROVE  Alone(i) /\ i \in Mine(From(i))
  <1>1. HandleFrame(i)
    BY HandleHasFrame
  <1>2. i \in Mine(From(i)) /\ i \notin done /\ i <= fetched /\ From(i) \in People
    BY <1>1 DEF HandleFrame, Mine, From
  <1>3. Waits(From(i))
    BY DEF WaitUser
  <1> QED
    BY <1>1, <1>2, <1>3, LastIsAlone DEF Alone, HandleFrame, At

LEMMA OwnQuest ==
  ASSUME BotTypeOK, BotInv, NEW i \in Ids, Handle(i), WaitUser(From(i)),
         NEW p, p = From(i)
  PROVE  OneQuest(p)'
  <1>1. HandleFrame(i) /\ Alone(i) /\ i \in Mine(p) /\ p \in People
    BY HandleHasFrame, HandlerIsAlone DEF HandleFrame
  <1>2. log' = log /\ confirmed' = confirmed
    BY <1>1 DEF HandleFrame, HandlerKeeps
  <1>3. Mine(p)' = Mine(p) /\ Of(p, "newquest")' = Of(p, "newquest")
    BY <1>2 DEF Mine, Of
  <1>4. OneQuest(p) /\ JobFits(i)
    BY DEF WaitUser, BotInv
  <1>5. \A d \in Of(p, "newquest") : d \in Mine(p) /\ d \in Ids /\ made[d] \in Nat /\ d # NoDialogue
    BY MessageType DEF Of, Mine, BotTypeOK, Ids, NoDialogue
  <1>6. Finish(i) => job'[i].at = "idle"
    <2>1. ASSUME Finish(i) PROVE job'[i].at = "idle"
      BY <2>1, FinishEffect DEF Idle
    <2> QED
      BY <2>1
  \* When nothing is created and no dialogue opened, only the answer counts.
  <1>7. ASSUME questCreation' = questCreation, made' = made, At(i) # "forget",
               job'[i].at \in {"answer", "create"} => questCreation[p] = job'[i].dialogue /\ made[job'[i].dialogue] = 0
        PROVE  OneQuest(p)'
    <2>1. ASSUME NEW d \in Of(p, "newquest") PROVE MadeOnce(d, p)'
      <3>1. MadeOnce(d, p)
        BY <1>4 DEF OneQuest
      <3>2. ~(questCreation[p] = d /\ made[d] = 1)
        BY <1>1, <1>7, <3>1 DEF MadeOnce, Alone, At
      <3> QED
        BY <1>1, <1>2, <1>7, <3>1, <3>2 DEF MadeOnce, HandleFrame
    <2>2. ASSUME NEW j \in Mine(p), job'[j].at \in {"answer", "create"}
          PROVE  questCreation'[p] = job'[j].dialogue /\ made'[job'[j].dialogue] = 0
      <3>1. j = i
        BY <1>1, <2>2 DEF Alone
      <3> QED
        BY <1>7, <2>2, <3>1
    <2> QED
      BY <1>3, <2>1, <2>2 DEF OneQuest, At
  <1>8. CASE At(i) # "forget" /\ Finish(i) /\ questCreation' = questCreation /\ made' = made
    BY <1>6, <1>7, <1>8
  <1>9. CASE ReadsAdmins(i)
    BY <1>7, <1>9 DEF ReadsAdmins, Rest
  <1>10. CASE Begins(i)
    BY <1>7, <1>10 DEF Begins
  <1>11. ASSUME NEW u \in Receivers, Sends(i, u) PROVE OneQuest(p)'
    BY <1>7, <1>11 DEF Sends
  <1>12. CASE Answers(i)
    <2> DEFINE d == questCreation[p]
    <2>1. d \in Of(p, "newquest")
      BY <1>1, <1>12 DEF Answers, BotInv, Opened
    <2>2. MadeOnce(d, p)
      BY <1>4, <2>1 DEF OneQuest
    <2>3. \A j \in Mine(p) : At(j) # "forget"
      BY <1>1, <1>12 DEF Answers, Alone, At
    <2>4. made[d] = 0
      BY <1>5, <2>1, <2>2, <2>3 DEF MadeOnce
    <2> QED
      BY <1>7, <1>12, <2>4 DEF Answers, Rest
  <1>13. CASE Opens(i)
    <2>1. questCreation'[p] = i /\ made' = made /\ job'[i].at = "idle" /\ i \in done'
      BY <1>1, <1>6, <1>13, FinishEffect DEF Opens, BotTypeOK
    <2>2. ASSUME NEW d \in Of(p, "newquest") PROVE MadeOnce(d, p)'
      <3>1. MadeOnce(d, p)
        BY <1>4 DEF OneQuest
      <3>2. ~(d = i /\ made[d] = 1)
        BY <1>1, <3>1 DEF MadeOnce, HandleFrame
      <3> QED
        BY <1>1, <1>2, <2>1, <3>1, <3>2 DEF MadeOnce, HandleFrame
    <2>3. \A j \in Mine(p) : job'[j].at \notin {"answer", "create"}
      BY <1>1, <2>1 DEF Alone
    <2> QED
      BY <1>3, <2>2, <2>3 DEF OneQuest, At
  <1>14. CASE Creates(i)
    <2>1. /\ job'[i].at = "forget" /\ done' = done
          /\ made' \in {made, [made EXCEPT ![job[i].dialogue] = @ + 1]}
      BY <1>14 DEF Creates
    <2>2. PICK e : e = job[i].dialogue
      OBVIOUS
    <2>3. made[e] = 0 /\ e \in Of(p, "newquest") /\ log[i].kind = "text"
      BY <1>1, <1>4, <1>14, <2>2 DEF Creates, OneQuest, JobFits
    <2>4. e # i
      BY <2>3, OfIs
    <2>5. e \in done /\ e <= confirmed
      BY <1>1, <1>5, <2>3, <2>4 DEF Alone
    <2>6. ASSUME NEW d \in Of(p, "newquest") PROVE MadeOnce(d, p)'
      <3>1. MadeOnce(d, p)
        BY <1>4 DEF OneQuest
      <3>2. At(i)' = "forget" /\ i \in Mine(p)'
        BY <1>1, <1>3, <2>1 DEF At
      <3>3. d # e => made'[d] = made[d]
        BY <1>5, <2>1, <2>2 DEF BotTypeOK
      <3>4. d = e => made'[d] <= 1
        BY <1>5, <2>1, <2>2, <2>3 DEF BotTypeOK
      <3> QED
        BY <1>2, <2>1, <2>5, <3>1, <3>2, <3>3, <3>4 DEF MadeOnce
    <2>7. \A j \in Mine(p) : job'[j].at \notin {"answer", "create"}
      BY <1>1, <2>1 DEF Alone
    <2> QED
      BY <1>3, <2>6, <2>7 DEF OneQuest, At
  <1>15. CASE Leaves(i)
    <2>1. questCreation'[p] = NoDialogue /\ made' = made /\ job'[i].at = "idle"
      BY <1>1, <1>6, <1>15 DEF Leaves, BotTypeOK
    <2>2. ASSUME NEW d \in Of(p, "newquest") PROVE MadeOnce(d, p)'
      <3>1. MadeOnce(d, p)
        BY <1>4 DEF OneQuest
      <3> QED
        BY <1>1, <1>2, <1>5, <2>1, <3>1 DEF MadeOnce, HandleFrame
    <2>3. \A j \in Mine(p) : job'[j].at \notin {"answer", "create"}
      BY <1>1, <2>1 DEF Alone
    <2> QED
      BY <1>3, <2>2, <2>3 DEF OneQuest, At
  <1>16. CASE Completes(i)
    <2>1. questCreation[p] = job[i].dialogue /\ made[job[i].dialogue] = 0
      BY <1>1, <1>4, <1>16 DEF Completes, OneQuest
    <2> QED
      BY <1>7, <1>16, <2>1 DEF Completes, Rest
  <1> QED
    BY <1>8, <1>9, <1>10, <1>11, <1>12, <1>13, <1>14, <1>15, <1>16, HandleCases
    DEF Plain, Marks, Drops, Rest

LEMMA OwnText ==
  ASSUME BotTypeOK, BotInv, NEW i \in Ids, Handle(i), WaitUser(From(i)),
         NEW p, p = From(i)
  PROVE  OneBroadcast(p)'
  <1>1. HandleFrame(i) /\ Alone(i) /\ i \in Mine(p) /\ p \in People
    BY HandleHasFrame, HandlerIsAlone DEF HandleFrame
  <1>2. log' = log
    BY <1>1 DEF HandleFrame, HandlerKeeps
  <1>3. Of(p, "text")' = Of(p, "text")
    BY <1>2 DEF Of
  <1>4. OneBroadcast(p)
    BY DEF WaitUser
  <1>5. \A k \in Of(p, "text") : k \in Mine(p) /\ log[k].kind = "text"
    BY OfIs
  <1>6. ASSUME NEW k \in Of(p, "text"), k # i PROVE TextOnce(k, p)'
    <2>1. TextOnce(k, p) /\ k \in Mine(p)
      BY <1>4, <1>5, <1>6 DEF OneBroadcast
    <2>2. k \in done' /\ job'[k].at = "idle" /\ got'[k] = got[k]
      BY <1>1, <1>6, <2>1 DEF Alone, HandleFrame
    <2> QED
      BY <2>1, <2>2 DEF TextOnce, At
  <1>7. ASSUME i \in Of(p, "text") PROVE TextOnce(i, p)'
    <2>1. TextOnce(i, p) /\ log[i].kind = "text"
      BY <1>4, <1>5, <1>7 DEF OneBroadcast
    <2>2. i \notin done /\ got[i] \in [Receivers -> Nat]
      BY <1>1 DEF HandleFrame, BotTypeOK
    <2>3. CASE Finish(i) /\ got' = got
      <3>1. job'[i].at = "idle" /\ i \in done'
        BY <2>3, FinishEffect DEF Idle
      <3> QED
        BY <2>1, <2>3, <3>1 DEF TextOnce, At
    <2>4. CASE ReadsAdmins(i)
      BY <2>1, <2>4 DEF ReadsAdmins, BotInv, JobFits, Rest, TextOnce, At
    <2>5. CASE Begins(i)
      <3>1. job'[i].at = "send" /\ p \notin broadcastPending' /\ got' = got
        BY <2>5 DEF Begins
      <3>2. job'[i].todo = Receivers
        BY <2>5 DEF Begins
      <3>3. \A u \in Receivers : got[i][u] = 0
        BY <2>1, <2>5 DEF Begins, TextOnce, BotInv, Unsent
      <3> QED
        BY <3>1, <3>2, <3>3 DEF TextOnce, At
    <2>6. ASSUME NEW u \in Receivers, Sends(i, u) PROVE TextOnce(i, p)'
      <3>1. /\ At(i) = "send" /\ job'[i].at = "send" /\ job'[i].todo = job[i].todo \ {u}
            /\ u \in job[i].todo /\ job[i].todo \subseteq Receivers
            /\ broadcastPending' = broadcastPending /\ sent' = sent /\ done' = done
        BY <2>6, JobType DEF Sends
      <3>2. \A v \in Receivers : got'[i][v] = got[i][v] \/ (v = u /\ got'[i][v] = got[i][v] + 1)
        <4>1. got' = got \/ got' = [got EXCEPT ![i][u] = @ + 1]
          BY <2>6 DEF Sends
        <4> QED
          BY <4>1 DEF BotTypeOK
      <3>3. got[i][u] = 0
        BY <2>1, <3>1 DEF TextOnce
      <3>4. \A v \in Receivers : got'[i][v] <= 1
        BY <2>1, <3>2, <3>3 DEF TextOnce
      <3>5. \A v \in job'[i].todo : got'[i][v] = 0
        BY <2>1, <3>1, <3>2 DEF TextOnce
      <3> QED
        BY <2>1, <3>1, <3>4, <3>5 DEF TextOnce, At
    <2>7. CASE Answers(i)
      BY <2>1, <2>7 DEF Answers, Rest, TextOnce, At
    <2>8. CASE Creates(i)
      BY <2>1, <2>8 DEF Creates, TextOnce, At
    <2>9. CASE Completes(i)
      BY <2>1, <2>9 DEF Completes, Rest, TextOnce, At
    <2> QED
      BY <2>3, <2>4, <2>5, <2>6, <2>7, <2>8, <2>9, HandleCases
      DEF Plain, Marks, Opens, Drops, Leaves, Rest
  <1> QED
    BY <1>3, <1>6, <1>7 DEF OneBroadcast

LEMMA OwnAsked ==
  ASSUME BotTypeOK, BotInv, NEW i \in Ids, Handle(i), WaitUser(From(i)),
         NEW p, p = From(i)
  PROVE  Asked(p)'
  <1>1. HandleFrame(i) /\ Alone(i) /\ i \in Mine(p) /\ p \in People
    BY HandleHasFrame, HandlerIsAlone DEF HandleFrame
  <1>2. log' = log
    BY <1>1 DEF HandleFrame, HandlerKeeps
  <1>3. \A kind : Of(p, kind)' = Of(p, kind)
    BY <1>2 DEF Of
  <1>4. Asked(p)
    BY DEF WaitUser
  <1>5. \A kind : \A k \in Of(p, kind) : k \in Mine(p) /\ k \in Nat /\ log[k].kind = kind
    BY OfIs DEF Mine
  <1>6. ASSUME sent' = sent, p \in broadcastPending' => p \in broadcastPending
        PROVE  Asked(p)'
    <2>1. Texts(p)' = Texts(p)
      BY <1>3, <1>6 DEF Texts
    <2> QED
      BY <1>3, <1>4, <1>6, <2>1 DEF Asked
  <1>7. CASE Marks(i)
    <2>1. sent' = sent /\ log[i].kind = "broadcast"
      BY <1>7 DEF Marks
    <2>2. Texts(p)' = Texts(p)
      BY <1>3, <2>1 DEF Texts
    <2>3. i \in Of(p, "broadcast")
      BY <1>1, <2>1, OfIs
    <2>4. \A k \in Texts(p) : k < i
      BY <1>1, <1>5, <2>1 DEF Texts, Alone
    <2> QED
      BY <1>3, <1>4, <2>2, <2>3, <2>4 DEF Asked
  <1>8. CASE Begins(i)
    <2>1. sent' = sent \cup {i} /\ p \notin broadcastPending'
      BY <1>8 DEF Begins
    <2>2. i \in Of(p, "text")
      BY <1>1, <1>8, OfIs DEF Begins, BotInv, JobFits
    <2>3. p \in broadcastPending /\ i \notin sent
      BY <1>8, <2>2 DEF Begins, WaitUser, OneBroadcast, TextOnce
    <2>4. Texts(p)' = Texts(p) \cup {i}
      BY <1>3, <2>1, <2>2 DEF Texts
    <2>5. \A k \in Texts(p) : k < i /\ k \in Nat
      BY <1>1, <1>5, <2>3 DEF Texts, Alone
    <2>6. PICK b \in Of(p, "broadcast") : \A k \in Texts(p) : k < b
      BY <1>4, <2>3 DEF Asked
    <2>7. b < i /\ i \in Nat
      BY <1>1, <1>5, <2>2, <2>6 DEF Alone
    <2>8. \E c \in Of(p, "broadcast") : c < i /\ \A k \in Texts(p) \cup {i} : k < c \/ i <= k
      BY <2>6, <2>7
    <2>9. ASSUME NEW t \in Texts(p)
          PROVE  \E c \in Of(p, "broadcast") : c < t /\ \A k \in Texts(p) \cup {i} : k < c \/ t <= k
      <3>1. PICK c \in Of(p, "broadcast") : c < t /\ \A k \in Texts(p) : k < c \/ t <= k
        BY <1>4 DEF Asked
      <3>2. t <= i
        BY <2>5, <2>7
      <3> QED
        BY <3>1, <3>2
    <2>10. \A t \in Texts(p)' : \E c \in Of(p, "broadcast")' :
             c < t /\ \A k \in Texts(p)' : k < c \/ t <= k
      BY <1>3, <2>4, <2>8, <2>9
    <2> QED
      BY <2>1, <2>10 DEF Asked
  <1>9. CASE sent' = sent /\ broadcastPending' = broadcastPending
    BY <1>6, <1>9
  <1>10. CASE Drops(i)
    BY <1>6, <1>10 DEF Drops
  <1>11. ASSUME NEW u \in Receivers, Sends(i, u) PROVE Asked(p)'
    BY <1>9, <1>11 DEF Sends
  <1> QED
    BY <1>7, <1>8, <1>9, <1>10, <1>11, HandleCases
    DEF Plain, ReadsAdmins, Opens, Answers, Completes, Creates, Leaves, Rest

LEMMA OwnKeeps ==
  ASSUME BotTypeOK, BotInv, NEW i \in Ids, Handle(i),
         NEW p, p = From(i), WaitUser(p)
  PROVE  WaitUser(p)'
  <1>1. HandleFrame(i)
    BY HandleHasFrame
  <1>2. Mine(p)' = Mine(p) /\ confirmed' = confirmed /\ fetched' = fetched /\ done \subseteq done'
    BY <1>1 DEF HandleFrame, HandlerKeeps, Mine
  <1>3. Waits(p)'
    BY <1>2 DEF Waits, WaitUser
  <1>4. OneQuest(p)' /\ OneBroadcast(p)' /\ Asked(p)'
    BY OwnQuest, OwnText, OwnAsked
  <1> QED
    BY <1>3, <1>4 DEF WaitUser
-----------------------------------------------------------------------------
(* The other steps.                                                        *)

LEMMA WriteKeeps ==
  ASSUME BotTypeOK, BotInv, WaitInv, NEW m \in Writes, Write(m)
  PROVE  WaitInv'
  <1> SUFFICES ASSUME NEW p \in People, p \notin hasty'
               PROVE  WaitUser(p)'
    BY DEF WaitInv
  <1>1. m \in Messages /\ Len(log) \in Nat /\ log' = Append(log, m) /\ log \in Seq(Messages)
    BY AdminBotAssumption DEF Write, BotTypeOK
  <1>2. PICK n : n = Len(log) + 1
    OBVIOUS
  <1>3. /\ Len(log') = n /\ log'[n] = m /\ \A k \in 1 .. Len(log) : log'[k] = log[k]
        /\ n \in 1 .. n /\ 1 .. n = (1 .. Len(log)) \cup {n} /\ n \in Ids /\ n \notin 1 .. Len(log)
    BY <1>1, <1>2, AdminBotAssumption DEF Write, Ids, BotTypeOK
  <1>4. /\ job' = job /\ done' = done /\ got' = got /\ sent' = sent /\ made' = made
        /\ questCreation' = questCreation /\ broadcastPending' = broadcastPending
        /\ confirmed' = confirmed /\ fetched' = fetched
        /\ hasty' = hasty \cup Overlapping(log', done)
    BY DEF Write, botVars, resultVars
  <1>5. WaitUser(p) /\ p \notin Overlapping(log', done)
    BY <1>4 DEF WaitInv
  <1>6. CASE p # m.from
    <2>1. Mine(p)' = Mine(p)
      BY <1>3, <1>6 DEF Mine
    <2>2. Untouched(p)
      BY <1>3, <1>4, <2>1 DEF Untouched, Mine
    <2> QED
      BY <1>5, <2>2, UntouchedKeeps
  <1>7. CASE p = m.from
    <2>1. Mine(p)' = Mine(p) \cup {n}
      BY <1>3, <1>7 DEF Mine
    <2>2. /\ n \notin done /\ n \notin sent /\ made[n] = 0 /\ n > fetched
          /\ job[n].at = "idle" /\ \A u \in Receivers : got[n][u] = 0
      <3>1. n \notin done /\ n \notin sent /\ n > fetched /\ n > taken /\ n > Len(log)
        BY <1>1, <1>2, <1>3 DEF BotInv, BotTypeOK
      <3>2. made[n] = 0 /\ \A u \in Receivers : got[n][u] = 0
        BY <1>3, <3>1 DEF BotInv, Unsent
      <3>3. job[n].at = "idle"
        BY <1>3, <3>1 DEF BotTypeOK
      <3> QED
        BY <3>1, <3>2, <3>3
    <2>3. \A j \in Mine(p) : j \in done /\ j # n /\ j < n
      <3> SUFFICES ASSUME NEW j \in Mine(p) PROVE j \in done /\ j # n /\ j < n
        OBVIOUS
      <3>1. j \in 1 .. Len(log) /\ log[j].from = p /\ j # n /\ j < n
        BY <1>1, <1>2, <1>3 DEF Mine
      <3>2. ~(j \in (1 .. Len(log')) \ done /\ n \in (1 .. Len(log')) \ done
              /\ j # n /\ log'[j].from = p /\ log'[n].from = p)
        BY <1>5 DEF Overlapping
      <3> QED
        BY <1>3, <1>7, <2>2, <3>1, <3>2
    <2>4. Waits(p)'
      <3> SUFFICES ASSUME NEW i \in Mine(p)', NEW j \in Mine(p)', i < j
                   PROVE  i \in done /\ (j <= fetched => i <= confirmed)
        BY <1>4 DEF Waits
      <3>1. i \in Mine(p)
        <4>1. i # n
          <5>1. j \in Nat /\ (j < n \/ j = n) /\ n \in Nat
            BY <1>1, <1>2, <2>1, <2>3 DEF Mine
          <5> QED
            BY <5>1
        <4> QED
          BY <2>1, <4>1
      <3>2. CASE j \in Mine(p)
        BY <1>5, <3>1, <3>2 DEF WaitUser, Waits
      <3>3. CASE j = n
        BY <1>1, <1>2, <2>2, <2>3, <3>1, <3>3 DEF BotTypeOK
      <3> QED
        BY <2>1, <3>2, <3>3
    <2>5. \A kind : Of(p, kind) \subseteq Of(p, kind)' /\ Of(p, kind)' \subseteq Of(p, kind) \cup {n}
      BY <1>3 DEF Of
    <2>6. OneQuest(p)'
      <3>1. ASSUME NEW d \in Of(p, "newquest") PROVE MadeOnce(d, p)'
        <4>1. MadeOnce(d, p)
          BY <1>5 DEF WaitUser, OneQuest
        <4> QED
          BY <1>4, <2>1, <4>1 DEF MadeOnce, At
      <3>2. MadeOnce(n, p)'
        BY <1>4, <2>2 DEF MadeOnce
      <3>3. \A i \in Mine(p)' : At(i)' \in {"answer", "create"} =>
              questCreation'[p] = job'[i].dialogue /\ made'[job'[i].dialogue] = 0
        BY <1>4, <1>5, <2>1, <2>2 DEF WaitUser, OneQuest, At
      <3> QED
        BY <2>5, <3>1, <3>2, <3>3 DEF OneQuest
    <2>7. OneBroadcast(p)'
      <3>1. ASSUME NEW i \in Of(p, "text") PROVE TextOnce(i, p)'
        <4>1. TextOnce(i, p)
          BY <1>5 DEF WaitUser, OneBroadcast
        <4> QED
          BY <1>4, <4>1 DEF TextOnce, At
      <3>2. TextOnce(n, p)'
        BY <1>4, <2>2 DEF TextOnce, At
      <3> QED
        BY <2>5, <3>1, <3>2 DEF OneBroadcast
    <2>8. Asked(p)'
      <3>1. Texts(p)' = Texts(p)
        BY <1>4, <2>2, <2>5 DEF Texts
      <3>2. Of(p, "broadcast") \subseteq Of(p, "broadcast")'
        BY <2>5
      <3>3. Asked(p)
        BY <1>5 DEF WaitUser
      <3> QED
        BY <1>4, <3>1, <3>2, <3>3 DEF Asked
    <2> QED
      BY <2>4, <2>6, <2>7, <2>8 DEF WaitUser
  <1> QED
    BY <1>6, <1>7

\* What is fetched has been, and what was handled is confirmed with it.
LEMMA FetchKeeps ==
  ASSUME BotTypeOK, BotInv, WaitInv, Fetch
  PROVE  WaitInv'
  <1> SUFFICES ASSUME NEW p \in People, p \notin hasty'
               PROVE  WaitUser(p)'
    BY DEF WaitInv
  <1>1. /\ log' = log /\ job' = job /\ done' = done /\ got' = got /\ sent' = sent /\ made' = made
        /\ questCreation' = questCreation /\ broadcastPending' = broadcastPending
        /\ hasty' = hasty /\ confirmed' = fetched
    BY DEF Fetch, botVars, resultVars
  <1>2. WaitUser(p)
    BY <1>1 DEF WaitInv
  <1>3. Mine(p)' = Mine(p) /\ \A kind : Of(p, kind)' = Of(p, kind)
    BY <1>1 DEF Mine, Of
  <1>4. \A i \in done : i <= fetched
    BY DEF BotInv, BotTypeOK
  <1>5. Waits(p)'
    BY <1>1, <1>2, <1>3, <1>4 DEF Waits, WaitUser
  <1>6. OneQuest(p)'
    <2>1. ASSUME NEW d \in Of(p, "newquest") PROVE MadeOnce(d, p)'
      <3>1. MadeOnce(d, p)
        BY <1>2 DEF WaitUser, OneQuest
      <3> QED
        BY <1>1, <1>3, <1>4, <3>1 DEF MadeOnce, At
    <2> QED
      BY <1>1, <1>2, <1>3, <2>1 DEF OneQuest, WaitUser, At
  <1>7. OneBroadcast(p)'
    BY <1>1, <1>2, <1>3 DEF OneBroadcast, WaitUser, TextOnce, At
  <1>8. Asked(p)'
    BY <1>1, <1>2, <1>3 DEF Asked, WaitUser, Texts
  <1> QED
    BY <1>5, <1>6, <1>7, <1>8 DEF WaitUser

\* The text an admin is asked for goes to the handler of broadcasts only while
\* the mark is set.
LEMMA DispatchKeeps ==
  ASSUME BotTypeOK, BotInv, WaitInv, Dispatch
  PROVE  WaitInv'
  <1> SUFFICES ASSUME NEW p \in People, p \notin hasty'
               PROVE  WaitUser(p)'
    BY DEF WaitInv
  <1>1. /\ log' = log /\ got' = got /\ sent' = sent /\ made' = made
        /\ questCreation' = questCreation /\ broadcastPending' = broadcastPending
        /\ hasty' = hasty /\ confirmed' = confirmed /\ fetched' = fetched
    BY DEF Dispatch, botVars, resultVars
  <1>2. WaitUser(p)
    BY <1>1 DEF WaitInv
  <1>3. PICK n \in Ids : n = taken + 1 /\ n \in 1 .. Len(log) /\ taken \in Nat
    BY AdminBotAssumption DEF Dispatch, BotTypeOK, Ids
  <1>4. PICK h : h = Handler(log[n])
    OBVIOUS
  <1>5. h \in {"idle", "command", "broadcast", "quest"} /\ h \in Stages
    BY <1>4, HandlerStage DEF Stages
  <1>6. /\ job' = [job EXCEPT ![n].at = h] /\ (done' = done \cup {n} \/ done' = done)
    BY <1>3, <1>4 DEF Dispatch
  <1>7. job'[n].at = h /\ \A k \in Ids : k # n => job'[k] = job[k]
    BY <1>3, <1>5, <1>6, AtEffect DEF BotTypeOK
  <1>8. n \notin done /\ At(n) = "idle"
    BY <1>3 DEF BotInv, BotTypeOK, At
  <1>9. Mine(p)' = Mine(p) /\ Mine(p) \subseteq Ids /\ \A kind : Of(p, kind)' = Of(p, kind)
    BY <1>1, MessageType DEF Mine, Of
  <1>10. CASE n \notin Mine(p)
    <2>1. Untouched(p)
      BY <1>1, <1>6, <1>7, <1>9, <1>10 DEF Untouched
    <2> QED
      BY <1>2, <2>1, UntouchedKeeps
  <1>11. CASE n \in Mine(p)
    <2>1. Waits(p)'
      BY <1>1, <1>2, <1>6, <1>9 DEF Waits, WaitUser
    <2>2. OneQuest(p)'
      <3>1. ASSUME NEW d \in Of(p, "newquest") PROVE MadeOnce(d, p)'
        <4>1. MadeOnce(d, p)
          BY <1>2 DEF WaitUser, OneQuest
        <4>2. \A i \in Mine(p) : At(i) = "forget" => job'[i].at = "forget"
          BY <1>7, <1>8, <1>9 DEF At
        <4> QED
          BY <1>1, <1>6, <1>9, <4>1, <4>2 DEF MadeOnce, At
      <3>2. ASSUME NEW i \in Mine(p), job'[i].at \in {"answer", "create"}
            PROVE  questCreation'[p] = job'[i].dialogue /\ made'[job'[i].dialogue] = 0
        <4>1. i # n
          BY <1>5, <1>7, <3>2
        <4>2. job'[i] = job[i] /\ At(i) \in {"answer", "create"}
          BY <1>7, <1>9, <3>2, <4>1 DEF At
        <4> QED
          BY <1>1, <1>2, <4>2 DEF WaitUser, OneQuest
      <3> QED
        BY <1>9, <3>1, <3>2 DEF OneQuest, At
    <2>3. OneBroadcast(p)'
      <3>1. ASSUME NEW i \in Of(p, "text"), i # n PROVE TextOnce(i, p)'
        <4>1. TextOnce(i, p)
          BY <1>2 DEF WaitUser, OneBroadcast
        <4>2. i \in Ids
          BY <1>9, OfIs
        <4>3. job'[i] = job[i] /\ (i \notin done' => i \notin done)
          BY <1>6, <1>7, <3>1, <4>2
        <4> QED
          BY <1>1, <4>1, <4>3 DEF TextOnce, At
      <3>2. ASSUME n \in Of(p, "text") PROVE TextOnce(n, p)'
        <4>1. TextOnce(n, p) /\ log[n].from = p
          BY <1>2, <3>2, OfIs DEF WaitUser, OneBroadcast, Mine
        <4>2. h = "broadcast" => p \in broadcastPending
          BY <1>4, <4>1 DEF Handler
        <4>3. h = "broadcast" => n \notin sent
          BY <1>8, <4>1, <4>2 DEF TextOnce
        <4> QED
          BY <1>1, <1>5, <1>6, <1>7, <4>1, <4>2, <4>3 DEF TextOnce, At
      <3> QED
        BY <1>9, <3>1, <3>2 DEF OneBroadcast
    <2>4. Asked(p)'
      BY <1>1, <1>2, <1>9 DEF Asked, WaitUser, Texts
    <2> QED
      BY <2>1, <2>2, <2>3, <2>4 DEF WaitUser
  <1> QED
    BY <1>10, <1>11

\* What is delivered again is the last message of each, at most, and neither a
\* mark nor a dialogue is left to meet it.
LEMMA RestartKeeps ==
  ASSUME BotTypeOK, BotInv, WaitInv, Restart
  PROVE  WaitInv'
  <1> SUFFICES ASSUME NEW p \in People, p \notin hasty'
               PROVE  WaitUser(p)'
    BY DEF WaitInv
  <1>1. /\ log' = log /\ got' = got /\ sent' = sent /\ made' = made
        /\ questCreation' = [q \in People |-> NoDialogue] /\ broadcastPending' = {}
        /\ confirmed' = confirmed /\ fetched' = confirmed
        /\ done' = 1 .. confirmed /\ job' = [i \in Ids |-> Idle]
        /\ hasty' = hasty \cup Overlapping(log, 1 .. confirmed)
    BY DEF Restart, resultVars
  <1>2. WaitUser(p) /\ p \notin Overlapping(log, 1 .. confirmed)
    BY <1>1 DEF WaitInv
  <1>3. Mine(p)' = Mine(p) /\ \A kind : Of(p, kind)' = Of(p, kind) /\ Of(p, kind) \subseteq Mine(p)
    BY <1>1, OfIs DEF Mine, Of
  <1>4. \A i \in Mine(p) : i \in Ids /\ i \in Nat \ {0} /\ job'[i].at = "idle"
    BY <1>1, MessageType DEF Mine, Idle
  <1>5. Waits(p)'
    <2> SUFFICES ASSUME NEW i \in Mine(p), NEW j \in Mine(p), i < j
                 PROVE  i \in 1 .. confirmed
      BY <1>1, <1>3 DEF Waits
    <2>1. confirmed \in Nat
      BY DEF BotTypeOK
    <2>2. ~(i \in (1 .. Len(log)) \ (1 .. confirmed) /\ j \in (1 .. Len(log)) \ (1 .. confirmed) /\ i # j
            /\ log[i].from = p /\ log[j].from = p)
      BY <1>2 DEF Overlapping
    <2> QED
      BY <1>4, <2>1, <2>2 DEF Mine
  <1>6. OneQuest(p)'
    <2>1. ASSUME NEW d \in Of(p, "newquest") PROVE MadeOnce(d, p)'
      <3>1. MadeOnce(d, p) /\ d \in Nat \ {0}
        BY <1>2, <1>3, <1>4 DEF WaitUser, OneQuest
      <3>2. questCreation'[p] # d /\ (d <= confirmed => d \in 1 .. confirmed)
        BY <1>1, <3>1 DEF NoDialogue, BotTypeOK
      <3> QED
        BY <1>1, <3>1, <3>2 DEF MadeOnce
    <2> QED
      BY <1>3, <1>4, <2>1 DEF OneQuest, At
  <1>7. OneBroadcast(p)'
    <2>1. ASSUME NEW i \in Of(p, "text") PROVE TextOnce(i, p)'
      <3>1. TextOnce(i, p) /\ job'[i].at = "idle"
        BY <1>2, <1>3, <1>4 DEF WaitUser, OneBroadcast
      <3> QED
        BY <1>1, <3>1 DEF TextOnce, At
    <2> QED
      BY <1>3, <2>1 DEF OneBroadcast
  <1>8. Asked(p)'
    BY <1>1, <1>2, <1>3 DEF Asked, WaitUser, Texts
  <1> QED
    BY <1>5, <1>6, <1>7, <1>8 DEF WaitUser

LEMMA WaitInvStep ==
  ASSUME BotTypeOK, BotInv, WaitInv, [BotNext]_allVars
  PROVE  WaitInv'
  <1>1. CASE Stop \/ LoopReturns \/ UNCHANGED allVars
    <2> SUFFICES ASSUME NEW p \in People, p \notin hasty'
                 PROVE  WaitUser(p)'
      BY DEF WaitInv
    <2>1. /\ log' = log /\ got' = got /\ sent' = sent /\ made' = made /\ job' = job /\ done' = done
          /\ questCreation' = questCreation /\ broadcastPending' = broadcastPending
          /\ confirmed' = confirmed /\ fetched' = fetched /\ hasty' = hasty
      BY <1>1 DEF Stop, LoopReturns, allVars, updateVars, botVars, resultVars
    <2>2. Untouched(p)
      BY <2>1 DEF Untouched, Mine
    <2>3. WaitUser(p)
      BY <2>1 DEF WaitInv
    <2> QED
      BY <2>2, <2>3, UntouchedKeeps
  <1>2. ASSUME NEW i \in Ids, Handle(i) PROVE WaitInv'
    <2> SUFFICES ASSUME NEW p \in People, p \notin hasty'
                 PROVE  WaitUser(p)'
      BY DEF WaitInv
    <2>1. p \notin hasty
      BY <1>2, HandleHasFrame DEF HandleFrame, HandlerKeeps
    <2>2. WaitUser(p)
      BY <2>1 DEF WaitInv
    <2> QED
      BY <1>2, <2>2, OthersKeep, OwnKeeps
  <1> QED
    BY <1>1, <1>2, WriteKeeps, FetchKeeps, DispatchKeeps, RestartKeeps DEF BotNext

\* The k-th text that went out comes after a /broadcast of its own.
LEMMA TextsAreAsked ==
  ASSUME BotTypeOK, NEW p \in People, Asked(p)
  PROVE  Cardinality(sent \cap Of(p, "text")) <= Cardinality(Of(p, "broadcast"))
  <1>1. \A kind : Of(p, kind) \subseteq 1 .. Len(log)
    BY DEF Of
  <1>2. IsFiniteSet(Of(p, "broadcast"))
    <2>1. IsFiniteSet(1 .. Len(log))
      BY FS_Interval DEF BotTypeOK
    <2> QED
      BY <1>1, <2>1, FS_Subset
  <1>3. PICK B \in [Texts(p) -> Of(p, "broadcast")] :
          \A i \in Texts(p) : B[i] < i /\ \A k \in Texts(p) : k < B[i] \/ i <= k
    <2> DEFINE Witness(i) == CHOOSE b \in Of(p, "broadcast") :
                 b < i /\ \A k \in Texts(p) : k < b \/ i <= k
    <2>1. \A i \in Texts(p) : Witness(i) \in Of(p, "broadcast")
            /\ Witness(i) < i /\ \A k \in Texts(p) : k < Witness(i) \/ i <= k
      BY DEF Asked
    <2> HIDE DEF Witness
    <2>2. [i \in Texts(p) |-> Witness(i)] \in [Texts(p) -> Of(p, "broadcast")]
      BY <2>1
    <2> QED
      BY <2>1, <2>2
  <1>4. ASSUME NEW i \in Texts(p), NEW k \in Texts(p), B[i] = B[k] PROVE i = k
    <2>1. i \in Nat /\ k \in Nat /\ B[i] \in Nat
      BY <1>1, <1>3 DEF Texts
    <2>2. (k < B[i] \/ i <= k) /\ (i < B[k] \/ k <= i) /\ B[i] < i /\ B[k] < k
      BY <1>3
    <2> QED
      BY <1>4, <2>1, <2>2
  <1>5. B \in Injection(Texts(p), Of(p, "broadcast"))
    BY <1>3, <1>4 DEF Injection, IsInjective
  <1>6. Cardinality(Texts(p)) <= Cardinality(Of(p, "broadcast"))
    BY <1>2, <1>5, FS_Injection
  <1> QED
    BY <1>6 DEF Texts

\* A dialogue makes one quest, a text is broadcast for one /broadcast and
\* reaches a user once, for whoever has never had two messages at work.
THEOREM DoneAsAskedHolds == BotSpec => []DoneAsAsked
  <1>1. BotInit => BotInv /\ WaitInv
    <2> SUFFICES ASSUME BotInit
                 PROVE  BotInv /\ WaitInv
      OBVIOUS
    <2>1. /\ 1 .. Len(log) = {} /\ done = {} /\ sent = {} /\ broadcastPending = {}
          /\ \A i \in Ids : job[i].at = "idle" /\ made[i] = 0 /\ \A u \in Receivers : got[i][u] = 0
          /\ \A p \in People : questCreation[p] = NoDialogue
      BY DEF BotInit, Idle
    <2>2. \A p, kind : Of(p, kind) = {} /\ Mine(p) = {}
      BY <2>1 DEF Of, Mine
    <2>3. BotInv
      BY <2>1 DEF BotInv, JobFits, Unsent, Opened, At
    <2>4. ASSUME NEW p PROVE WaitUser(p)
      BY <2>1, <2>2 DEF WaitUser, Waits, OneQuest, OneBroadcast, Asked, Texts
    <2> QED
      BY <2>3, <2>4 DEF WaitInv
  <1>2. BotTypeOK /\ BotInv /\ WaitInv /\ [BotNext]_allVars => BotInv' /\ WaitInv'
    BY BotInvStep, WaitInvStep
  <1>3. BotTypeOK /\ WaitInv => DoneAsAsked
    <2> SUFFICES ASSUME BotTypeOK, WaitInv, NEW p \in People, p \notin hasty
                 PROVE  /\ \A i \in Of(p, "newquest") : made[i] <= 1
                        /\ \A i \in Of(p, "text"), u \in Receivers : got[i][u] <= 1
                        /\ Cardinality(sent \cap Of(p, "text")) <= Cardinality(Of(p, "broadcast"))
      BY DEF DoneAsAsked
    <2>1. OneQuest(p) /\ OneBroadcast(p) /\ Asked(p)
      BY DEF WaitInv, WaitUser
    <2> QED
      BY <2>1, TextsAreAsked DEF OneQuest, MadeOnce, OneBroadcast, TextOnce
  <1>4. BotSpec => [](BotInv /\ WaitInv)
    BY <1>1, <1>2, BotTypeCorrect, PTL DEF BotSpec
  <1> QED
    BY <1>3, <1>4, BotTypeCorrect, PTL
=============================================================================
