----------------------------- MODULE RoomRounds -----------------------------
(***************************************************************************)
(* The rounds of one room once both players are seated: internal/ws/room.go*)
(* with internal/game/rps.go and mines.go.                                 *)
(*                                                                         *)
(* Four kinds of goroutine share the room: the readPump of each player     *)
(* (HandleMessage), the setup goroutine, the Run loop (the registration of *)
(* the second player, then saveResult) and the round timers, each of which *)
(* calls handleRoundTimeout when it fires.  Every step below is one        *)
(* critical section of Room.mu or of the mutex of the game; between two    *)
(* steps anybody else may run.  Messages buffered by a client before its   *)
(* registration are taken as messages of its readPump.                     *)
(***************************************************************************)
EXTENDS Integers

CONSTANTS First, Second,  \* players[0] and players[1]
          RunLoop, Setup, \* the goroutines of Room.Run
          Game,           \* "rps" or "mines"
          MaxRounds,      \* drawn rounds before the game is a draw (5)
          Polls,          \* checkRound calls at the end of handleRegister (5)
          SetupMayFire,   \* does the setup timer run out during the game?
          MaxTimers       \* bound on the timers; MaxRounds + 3 are never exceeded

\* Results that name no player; Undecided is a nil result.
Draw == "draw"
Undecided == "undecided"

Players == {First, Second}
Timers == 1 .. MaxTimers

ASSUME RoundsAssumption ==
  /\ First # Second
  /\ RunLoop # Setup
  /\ {RunLoop, Setup, Draw, Undecided} \cap Players = {}
  /\ {First, Second, RunLoop, Setup} \cap Timers = {}
  /\ Game \in {"rps", "mines"}
  /\ MaxRounds \in Nat \ {0}
  /\ Polls \in Nat
  /\ SetupMayFire \in BOOLEAN
  /\ MaxTimers \in Nat /\ MaxTimers >= MaxRounds + 3

Threads == Players \cup {RunLoop, Setup} \cup Timers

\* Two of the three moves already give every outcome of a round.  A cell of the
\* opponent's board counts for the mine under it.
Moves == IF Game = "rps" THEN {"rock", "paper"} ELSE {"hit", "miss"}
NoMove == "none"

\* A board of positions that are all out of range has no mine on it.
Placements == {"none", "bare", "mined"}

Results == Players \cup {Draw, Undecided}

VARIABLES
  boards,         \* Mines: what each player has placed
  moves,          \* the moves of the current round
  round,          \* rounds judged so far, counted up to MaxRounds
  result,         \* game.result
  setupCompleted, \* Room.setupCompleted
  setupDone,      \* how often Room.setupDoneChan has been closed
  roundStarted,   \* Room.roundStarted
  roundChecking,  \* Room.roundChecking
  timer,          \* Room.timer: the timer it points to, 0 for nil
  timerRound,     \* Room.timerRound
  polled,         \* checkRound calls made by handleRegister
  announced,      \* the results that have been broadcast
  saved,          \* what saveResult found
  pc,             \* where each goroutine is
  busy            \* those that have been at work since the latest timer was started

gameVars == <<boards, moves, round, result>>
setupVars == <<setupCompleted, setupDone>>
timerVars == <<timer, timerRound>>
flagVars == <<roundStarted, roundChecking>>
outVars == <<announced, saved>>
vars == <<gameVars, setupVars, timerVars, flagVars, polled, outVars, pc, busy>>

Labels == {"off", "armed", "fired", "idle", "moved", "asking", "completing", "closing",
           "reset", "start", "stopping", "check", "judge", "again", "restart", "leave",
           "polling", "both", "loop", "cleaning", "done"}

TypeOK ==
  /\ boards \in [Players -> Placements]
  /\ moves \in [Players -> Moves \cup {NoMove}]
  /\ round \in 0 .. MaxRounds
  /\ result \in Results
  /\ setupCompleted \in BOOLEAN
  /\ setupDone \in Nat
  /\ roundStarted \in BOOLEAN
  /\ roundChecking \in BOOLEAN
  /\ timer \in {0} \cup Timers
  /\ timerRound \in {0} \cup Timers
  /\ polled \in 0 .. Polls
  /\ announced \subseteq Results
  /\ saved \in Results
  /\ pc \in [Threads -> Labels]
  /\ busy \subseteq Threads

\* The second player is seated and its registration is in the channel.
Init ==
  /\ boards = [p \in Players |-> "none"]
  /\ moves = [p \in Players |-> NoMove]
  /\ round = 0
  /\ result = Undecided
  /\ setupCompleted = FALSE
  /\ setupDone = 0
  /\ roundStarted = FALSE
  /\ roundChecking = FALSE
  /\ timer = 0
  /\ timerRound = 0
  /\ polled = 0
  /\ announced = {}
  /\ saved = Undecided
  /\ pc = [t \in Threads |-> IF t \in Players THEN "idle"
                             ELSE IF t = RunLoop THEN "polling"
                             ELSE IF t = Setup THEN "armed" ELSE "off"]
  /\ busy = {}

\* Where a goroutine waits for an event, or has ended.
Resting == {"off", "armed", "idle", "loop", "done"}
AtWork(now) == {t \in Threads : now[t] \notin Resting}

Goto(t, label) ==
  /\ pc' = [pc EXCEPT ![t] = label]
  /\ busy' = busy \cap AtWork(pc')
-----------------------------------------------------------------------------
(* The games.                                                              *)

IsSetupComplete == Game = "rps" \/ \A p \in Players : boards[p] = "mined"
IsRoundComplete == \A p \in Players : moves[p] # NoMove
IsFinished == result # Undecided

\* decide, or the mines of the opponents: the winner of a round, or a draw.
Winner(m1, m2) ==
  IF m1 = m2 THEN Draw
  ELSE IF m1 = "paper" \/ m2 = "hit" THEN First ELSE Second

\* Mutant of Verdict: round == 5 instead of round >= 5.
VerdictAtLimit ==
  LET w == Winner(moves[First], moves[Second])
  IN  IF w = Draw /\ round + 1 # MaxRounds THEN Undecided ELSE w

\* What CheckResult returns for a complete round.
Verdict ==
  LET w == Winner(moves[First], moves[Second])
  IN  IF w = Draw /\ round + 1 < MaxRounds THEN Undecided ELSE w

\* CheckResult on a complete round.  A nil verdict clears the table.
CheckResult ==
  /\ round' = IF round < MaxRounds THEN round + 1 ELSE round
  /\ IF Verdict = Undecided
     THEN moves' = [p \in Players |-> NoMove] /\ UNCHANGED result
     ELSE result' = Verdict /\ UNCHANGED moves
  /\ UNCHANGED boards

\* HandleMove with what the player sent: RPS refuses a second move in a round;
\* Mines takes it, and takes anything for a placement until both boards are mined.
\* A null after his move changes nothing, and is no error.
HandleMove(p) ==
  IF IsSetupComplete
  THEN /\ \/ moves[p] # NoMove /\ UNCHANGED moves
          \/ /\ Game = "rps" => moves[p] = NoMove
             /\ \E m \in Moves : moves' = [moves EXCEPT ![p] = m]
       /\ UNCHANGED <<boards, round, result>>
  ELSE /\ \E board \in {"bare", "mined"} : boards' = [boards EXCEPT ![p] = board]
       /\ UNCHANGED <<moves, round, result>>

\* completeSetup asks for each player whether the setup is incomplete, and then
\* calls HandleMove(p, nil): if a placement of a readPump (which now waits for
\* Room.mu) has completed it in between, the bot moves instead.
LateMoves ==
  IF Game = "mines" /\ IsSetupComplete /\ (\E q \in Players : pc[q] = "moved")
  THEN {[moves EXCEPT ![p] = m] : p \in {q \in Players : moves[q] = NoMove}, m \in Moves}
  ELSE {}

\* Bots place mines for whoever has no board; a bare board is left as it is.
BotsPlace ==
  /\ boards' = IF IsSetupComplete THEN boards
               ELSE [p \in Players |-> IF boards[p] = "none" THEN "mined" ELSE boards[p]]
  /\ moves' \in {moves} \cup LateMoves
  /\ UNCHANGED <<round, result>>

\* HandleMove(p, nil) for every player: bots move for whoever has not.
BotsMove ==
  /\ moves' \in {m \in [Players -> Moves] :
                   \A p \in Players : moves[p] # NoMove => m[p] = moves[p]}
  /\ UNCHANGED <<boards, round, result>>
-----------------------------------------------------------------------------
(* Parts of a room that several goroutines run.                            *)

\* Mutant of Stopped: nothing is stopped.
NotStopped == pc

\* Timer.Stop: too late for a timer that has fired.
Stopped == IF timer # 0 /\ pc[timer] = "armed" THEN [pc EXCEPT ![timer] = "off"] ELSE pc

\* completeSetup, without the broadcast.
CompleteSetup ==
  /\ setupCompleted' = TRUE
  /\ IF setupCompleted THEN UNCHANGED gameVars ELSE BotsPlace
  /\ UNCHANGED setupDone

\* startRound: stop the old timer and start the next, unless roundStarted.
StartRound(t, next) ==
  /\ roundStarted' = TRUE
  /\ IF roundStarted
     THEN Goto(t, next) /\ UNCHANGED timerVars
     ELSE /\ timerRound < MaxTimers
          /\ timerRound' = timerRound + 1
          /\ timer' = timerRound'
          /\ pc' = [Stopped EXCEPT ![t] = next, ![timerRound'] = "armed"]
          /\ busy' = AtWork(pc')
  /\ UNCHANGED <<gameVars, setupVars, roundChecking, polled, outVars>>

ResetRound(t, next) ==
  /\ roundStarted' = FALSE
  /\ Goto(t, next)
  /\ UNCHANGED <<gameVars, setupVars, timerVars, roundChecking, polled, outVars>>
-----------------------------------------------------------------------------
(* checkRound, run by whoever calls it.                                    *)

\* Where the caller goes on when checkRound returns.
Return(t) == IF t \in Players THEN "idle" ELSE IF t = RunLoop THEN "polling" ELSE "off"

\* Mutant of EnterCheck: the flag is not looked at.
EnterCheckAlways(t) ==
  /\ pc[t] = "check"
  /\ roundChecking' = TRUE
  /\ Goto(t, "judge")
  /\ UNCHANGED <<gameVars, setupVars, timerVars, roundStarted, polled, outVars>>

\* The flag roundChecking turns a second caller away.
EnterCheck(t) ==
  /\ pc[t] = "check"
  /\ roundChecking' = TRUE
  /\ Goto(t, IF roundChecking THEN Return(t) ELSE "judge")
  /\ UNCHANGED <<gameVars, setupVars, timerVars, roundStarted, polled, outVars>>

\* A complete round is judged.  A result is broadcast; a drawn round leads to
\* the next one, unless the game was over already.
Judge(t) ==
  /\ pc[t] = "judge"
  /\ IF IsRoundComplete
     THEN /\ CheckResult
          /\ IF Verdict = Undecided
             THEN Goto(t, IF IsFinished THEN "leave" ELSE "again") /\ UNCHANGED announced
             ELSE Goto(t, "leave") /\ announced' = announced \cup {Verdict}
     ELSE Goto(t, "leave") /\ UNCHANGED <<gameVars, announced>>
  /\ UNCHANGED <<setupVars, timerVars, flagVars, polled, saved>>

\* Mutant of NextRound: roundStarted stays set.
NextRoundNoReset(t) ==
  /\ pc[t] = "again"
  /\ Goto(t, "restart")
  /\ UNCHANGED <<gameVars, setupVars, timerVars, flagVars, polled, outVars>>

\* After the round_draw messages: roundStarted is cleared, startRound follows.
NextRound(t) == pc[t] = "again" /\ ResetRound(t, "restart")
RestartRound(t) == pc[t] = "restart" /\ StartRound(t, "leave")

LeaveCheck(t) ==
  /\ pc[t] = "leave"
  /\ roundChecking' = FALSE
  /\ Goto(t, Return(t))
  /\ UNCHANGED <<gameVars, setupVars, timerVars, roundStarted, polled, outVars>>

CheckRound(t) == EnterCheck(t) \/ Judge(t) \/ NextRound(t) \/ RestartRound(t) \/ LeaveCheck(t)
-----------------------------------------------------------------------------
(* HandleMessage of a player.                                              *)

Move(p) ==
  /\ pc[p] = "idle"
  /\ HandleMove(p)
  /\ Goto(p, "moved")
  /\ UNCHANGED <<setupVars, timerVars, flagVars, polled, outVars>>

\* setupCompleted is read under the lock, and acted upon without it.
AskSetup(p) ==
  /\ pc[p] = "moved"
  /\ Goto(p, IF ~setupCompleted /\ IsSetupComplete THEN "completing" ELSE "asking")
  /\ UNCHANGED <<gameVars, setupVars, timerVars, flagVars, polled, outVars>>

AskRound(p) ==
  /\ pc[p] = "asking"
  /\ Goto(p, IF IsRoundComplete THEN "stopping" ELSE "idle")
  /\ UNCHANGED <<gameVars, setupVars, timerVars, flagVars, polled, outVars>>

\* completeSetup, when both boards are mined: there is nothing to do for the bots.
FinishSetup(p) ==
  /\ pc[p] = "completing"
  /\ setupCompleted' = TRUE
  /\ Goto(p, "closing")
  /\ UNCHANGED <<gameVars, setupDone, timerVars, flagVars, polled, outVars>>

\* setupDone is closed unless it is closed already.
CloseSetup(p) ==
  /\ pc[p] = "closing"
  /\ setupDone' = IF setupDone = 0 THEN 1 ELSE setupDone
  /\ Goto(p, "reset")
  /\ UNCHANGED <<gameVars, setupCompleted, timerVars, flagVars, polled, outVars>>

ResetFirst(p) == pc[p] = "reset" /\ ResetRound(p, "start")
StartFirst(p) == pc[p] = "start" /\ StartRound(p, "idle")

StopTimer(p) ==
  /\ pc[p] = "stopping"
  /\ timer' = 0
  /\ pc' = [Stopped EXCEPT ![p] = "check"]
  /\ UNCHANGED busy
  /\ UNCHANGED <<gameVars, setupVars, timerRound, flagVars, polled, outVars>>

PlayerStep(p) ==
  \/ AskSetup(p) \/ AskRound(p) \/ FinishSetup(p) \/ CloseSetup(p)
  \/ ResetFirst(p) \/ StartFirst(p) \/ StopTimer(p) \/ CheckRound(p)
-----------------------------------------------------------------------------
(* The setup goroutine, the round timers and the Run loop.                 *)

\* After ten seconds, with an opponent present; or setupDone was closed first.
SetupWakes ==
  /\ pc[Setup] = "armed"
  /\ setupDone > 0 \/ SetupMayFire
  /\ Goto(Setup, IF setupDone > 0 THEN "done"
                 ELSE IF setupCompleted THEN "closing" ELSE "completing")
  /\ UNCHANGED <<gameVars, setupVars, timerVars, flagVars, polled, outVars>>

SetupCompletes ==
  /\ pc[Setup] = "completing"
  /\ CompleteSetup
  /\ Goto(Setup, "reset")
  /\ UNCHANGED <<timerVars, flagVars, polled, outVars>>

SetupResets == pc[Setup] = "reset" /\ ResetRound(Setup, "start")
SetupStarts == pc[Setup] = "start" /\ StartRound(Setup, "closing")

\* close(setupDone) without a look: closing a closed channel panics.
SetupCloses ==
  /\ pc[Setup] = "closing"
  /\ setupDone' = setupDone + 1
  /\ Goto(Setup, "done")
  /\ UNCHANGED <<gameVars, setupCompleted, timerVars, flagVars, polled, outVars>>

SetupStep == SetupWakes \/ SetupCompletes \/ SetupResets \/ SetupStarts \/ SetupCloses

\* A turn (15 or 20 s) outlasts whatever was under way when its timer started.
Fire(k) ==
  /\ pc[k] = "armed"
  /\ busy = {}
  /\ Goto(k, "fired")
  /\ UNCHANGED <<gameVars, setupVars, timerVars, flagVars, polled, outVars>>

\* handleRoundTimeout: the latest timer moves for whoever is late.  While a board
\* is bare nobody is: the bots skip whoever has a board, and no move counts.
RoundTimeout(k) ==
  /\ pc[k] = "fired"
  /\ IF k = timerRound /\ IsSetupComplete
     THEN BotsMove /\ Goto(k, "check")
     ELSE Goto(k, "off") /\ UNCHANGED gameVars
  /\ UNCHANGED <<setupVars, timerVars, flagVars, polled, outVars>>

TimerStep(k) == Fire(k) \/ RoundTimeout(k) \/ CheckRound(k)

\* Mutant of Poll: one check too many.
PollOnceMore ==
  /\ pc[RunLoop] = "polling"
  /\ IF polled <= Polls /\ ~(polled > 0 /\ IsFinished)
     THEN polled' = polled + 1 /\ Goto(RunLoop, "check")
     ELSE Goto(RunLoop, "both") /\ UNCHANGED polled
  /\ UNCHANGED <<gameVars, setupVars, timerVars, flagVars, outVars>>

\* The end of handleRegister: a few checks, 20 ms apart, until the game is over.
Poll ==
  /\ pc[RunLoop] = "polling"
  /\ IF polled < Polls /\ ~(polled > 0 /\ IsFinished)
     THEN polled' = polled + 1 /\ Goto(RunLoop, "check")
     ELSE Goto(RunLoop, "both") /\ UNCHANGED polled
  /\ UNCHANGED <<gameVars, setupVars, timerVars, flagVars, outVars>>

\* Run: both clients are there; if the setup is complete the first round starts.
BothPresent ==
  /\ pc[RunLoop] = "both"
  /\ setupCompleted' = (setupCompleted \/ IsSetupComplete)
  /\ Goto(RunLoop, IF IsSetupComplete THEN "start" ELSE "loop")
  /\ UNCHANGED <<gameVars, setupDone, timerVars, flagVars, polled, outVars>>

RunStarts == pc[RunLoop] = "start" /\ StartRound(RunLoop, "loop")

\* IsFinished at the top of the loop: saveResult asks CheckResult once more.
SaveResult ==
  /\ pc[RunLoop] = "loop"
  /\ IsFinished
  /\ IF IsRoundComplete
     THEN CheckResult /\ saved' = Verdict
     ELSE UNCHANGED <<gameVars, saved>>
  /\ Goto(RunLoop, "cleaning")
  /\ UNCHANGED <<setupVars, timerVars, flagVars, polled, announced>>

\* cleanup stops the timer.
Cleanup ==
  /\ pc[RunLoop] = "cleaning"
  /\ timer' = 0
  /\ pc' = [Stopped EXCEPT ![RunLoop] = "done"]
  /\ busy' = busy \cap AtWork(pc')
  /\ UNCHANGED <<gameVars, setupVars, timerRound, flagVars, polled, outVars>>

RunStep ==
  \/ Poll \/ BothPresent \/ RunStarts \/ SaveResult \/ Cleanup
  \/ CheckRound(RunLoop)
-----------------------------------------------------------------------------
Next ==
  \/ \E p \in Players : Move(p) \/ PlayerStep(p)
  \/ SetupStep
  \/ \E k \in Timers : TimerStep(k)
  \/ RunStep

Spec == Init /\ [][Next]_vars

\* The goroutine of each player runs, and while the others can go on one of them
\* does: their steps are finitely many, so none is left behind.  Players need not
\* move.
Fairness ==
  /\ \A p \in Players : WF_vars(PlayerStep(p))
  /\ WF_vars(SetupStep \/ RunStep \/ \E k \in Timers : TimerStep(k))

FairSpec == Spec /\ Fairness
-----------------------------------------------------------------------------
(* Properties.                                                             *)

\* Whatever number of goroutines announce the result, and however late, all of
\* them and saveResult agree on it (RPS; at a Mines table a late move changes it).
SavedAsAnnounced ==
  pc[RunLoop] \in {"cleaning", "done"} => saved # Undecided /\ announced = {saved}

\* One goroutine at a time judges a round and starts the next.
Checking(t) == pc[t] \in {"judge", "again", "restart", "leave"}

OneChecker == \A t, u \in Threads : Checking(t) /\ Checking(u) => t = u

\* However many goroutines race to start a round, one timer runs, and it is the
\* one Room.timer points to: no timer escapes the next Stop.
OneTimer == \A k \in Timers : pc[k] = "armed" => k = timer

\* However the goroutines race, a room starts a timer for each round and three
\* more at most: roundStarted is not cleared once too often.  A round that is to
\* be started finds a timer left.
FewTimers == timerRound + (IF roundStarted THEN 0 ELSE 1) <= MaxRounds + 3

\* While both players keep silent the bots play the game to its end.
SilentGameEnds == [](\A p \in Players : pc[p] = "idle") => <>IsFinished

-----------------------------------------------------------------------------
(* What the comments of the code say, and the code does not do.            *)

\* "One call of checkRound, it handles the result itself" (room.go:808): with that
\* and the bots, every game ends.
GameEnds == <>IsFinished

\* "The channel is closed already" (room.go:777): setupDone is never closed twice,
\* which would end the whole server.
SetupClosedOnce == setupDone <= 1
=============================================================================
