----------------------------- MODULE PveSessions -----------------------------
(***************************************************************************)
(* The games a user plays alone and over several requests, CoinFlip Pro    *)
(* and Mines Pro: service/{coinflip,mines}_pro_service.go over             *)
(* game/{coinflip_pro,mines_pve}.go, with what http/handlers/games_pve.go  *)
(* does afterwards.  The two services have the same control flow; this     *)
(* module is either of them: a round is a won flip or a safe cell.         *)
(*                                                                         *)
(* Requests run concurrently.  The service protects the map of games with  *)
(* its mutex and a game protects itself with another, each for one step    *)
(* below; the credits are SQL statements of their own.  The map lives in   *)
(* memory only.                                                            *)
(***************************************************************************)
EXTENDS Integers, FiniteSets

CONSTANTS Users, Nobody,
          Games,      \* the games that are ever started
          NoGame,     \* a missing entry of activeGames
          Calls,      \* goroutines that can run a request at the same time
          Bets,
          MaxRounds,  \* flips, or safe cells, that complete a game
          Prize,      \* what a bet has won after some rounds, rounded down
          StartGems   \* what each user has to begin with

ASSUME SessionsAssumption ==
  /\ Nobody \notin Users
  /\ NoGame \notin Games
  /\ Bets \subseteq Nat \ {0}
  /\ MaxRounds \in Nat \ {0}
  /\ Prize \in [Bets -> [1 .. MaxRounds -> Nat]]
  /\ StartGems \in Nat

\* "exploded" of Mines Pro is "lost" here.
Statuses == {"none", "active", "cashed_out", "lost"}

\* Where a request is: what it will do next.
Stages == {"idle", "flip", "look", "drop", "credit", "cash", "pay", "clear", "report"}

CallStates == [at : Stages, user : Users \cup {Nobody}, game : Games \cup {NoGame}]

Idle == [at |-> "idle", user |-> Nobody, game |-> NoGame]

VARIABLES
  gems,         \* users.gems
  activeGames,  \* the map of the service: a game of each user
  owner, bet,   \* UserID and Bet of each game
  rounds,       \* CurrentRound, or len(RevealedCells)
  status,       \* Status; "none" before the game is created
  call,         \* the requests that are running
  credited,     \* how often the winnings of each game were credited
  recorded,     \* how often each game went to RecordGameResult
  orderly,      \* users none of whose requests have overlapped
  intact        \* games that were not forgotten and lost no statement

gameVars == <<owner, bet, rounds, status>>
ghostVars == <<credited, recorded>>
vars == <<gems, activeGames, gameVars, call, ghostVars, orderly, intact>>

TypeOK ==
  /\ gems \in [Users -> Nat]
  /\ activeGames \in [Users -> Games \cup {NoGame}]
  /\ owner \in [Games -> Users \cup {Nobody}]
  /\ bet \in [Games -> Bets \cup {0}]
  /\ rounds \in [Games -> 0 .. MaxRounds]
  /\ status \in [Games -> Statuses]
  /\ \A g \in Games : status[g] # "none" => owner[g] \in Users /\ bet[g] \in Bets
  /\ \A g \in Games : status[g] = "cashed_out" => rounds[g] > 0
  /\ \A g \in Games : status[g] = "none" => rounds[g] = 0
  /\ \A g \in Games : status[g] = "active" => rounds[g] < MaxRounds
  /\ \A u \in Users : activeGames[u] # NoGame => status[activeGames[u]] # "none"
  /\ call \in [Calls -> CallStates]
  /\ \A c \in Calls : call[c].at # "idle" =>
       call[c].user \in Users /\ call[c].game \in Games /\ status[call[c].game] # "none"
  /\ \A c \in Calls : call[c].at = "pay" => status[call[c].game] = "cashed_out"
  /\ credited \in [Games -> Nat]
  /\ recorded \in [Games -> Nat]
  /\ orderly \subseteq Users
  /\ intact \subseteq Games

Init ==
  /\ gems = [u \in Users |-> StartGems]
  /\ activeGames = [u \in Users |-> NoGame]
  /\ owner = [g \in Games |-> Nobody]
  /\ bet = [g \in Games |-> 0]
  /\ rounds = [g \in Games |-> 0]
  /\ status = [g \in Games |-> "none"]
  /\ call = [c \in Calls |-> Idle]
  /\ credited = [g \in Games |-> 0]
  /\ recorded = [g \in Games |-> 0]
  /\ orderly = Users
  /\ intact = Games

WinAmount(g) == Prize[bet[g]][rounds[g]]

Goto(c, stage) == call' = [call EXCEPT ![c].at = stage]
Return(c) == call' = [call EXCEPT ![c] = Idle]

\* The user makes a request: is another one of his under way?
Ask(u) == orderly' = IF \E d \in Calls : call[d].user = u THEN orderly \ {u} ELSE orderly

\* A request that has found the active game of its user begins.
BeginOn(c, u, stage) ==
  /\ call[c] = Idle
  /\ activeGames[u] # NoGame
  /\ status[activeGames[u]] = "active"
  /\ call' = [call EXCEPT ![c] = [at |-> stage, user |-> u, game |-> activeGames[u]]]
  /\ Ask(u)
  /\ UNCHANGED <<gems, activeGames, gameVars, ghostVars, intact>>

\* Whatever game the map holds for the user by now.
Forget(u) == activeGames' = [activeGames EXCEPT ![u] = NoGame]

CreditWinnings(g) ==
  /\ gems' = [gems EXCEPT ![owner[g]] = @ + WinAmount(g)]
  /\ credited' = [credited EXCEPT ![g] = @ + 1]
-----------------------------------------------------------------------------
(* StartGame, under the mutex of the service from end to end.              *)

\* Mutant of Enough: the balance is not compared.
EnoughAlways(u, b) == TRUE

Enough(u, b) == gems[u] >= b

\* Mutant of HasActiveGame: there is never one.
HasActiveGameNever(u) == FALSE

\* A game that is over may still be in the map.
HasActiveGame(u) == activeGames[u] # NoGame /\ status[activeGames[u]] = "active"

\* NewCoinFlipProGame, or NewMinesPvEGame.
NewGame(g, u, b) ==
  /\ status[g] = "none"
  /\ owner' = [owner EXCEPT ![g] = u]
  /\ bet' = [bet EXCEPT ![g] = b]
  /\ status' = [status EXCEPT ![g] = "active"]

StartGame(u, b) ==
  /\ ~HasActiveGame(u)
  /\ Enough(u, b)
  /\ gems' = [gems EXCEPT ![u] = @ - b]
  /\ \E g \in Games : NewGame(g, u, b) /\ activeGames' = [activeGames EXCEPT ![u] = g]
  /\ Ask(u)
  /\ UNCHANGED <<rounds, call, ghostVars, intact>>
-----------------------------------------------------------------------------
(* Flip, or RevealCell.                                                    *)

Flip(c, u) == BeginOn(c, u, "flip")

\* The round is won, and with the last one the game; or the game is lost.
WinRound(g) ==
  /\ rounds' = [rounds EXCEPT ![g] = @ + 1]
  /\ status' = [status EXCEPT ![g] = IF rounds[g] + 1 = MaxRounds THEN "cashed_out" ELSE @]

LoseGame(g) ==
  /\ status' = [status EXCEPT ![g] = "lost"]
  /\ UNCHANGED rounds

\* The round is played under the mutex of the game.  It is an error when the game
\* has ended meanwhile, when the cell is open already or without randomness.
Toss(c) ==
  /\ call[c].at = "flip"
  /\ \/ /\ status[call[c].game] = "active"
        /\ WinRound(call[c].game) \/ LoseGame(call[c].game)
        /\ Goto(c, "look")
     \/ /\ Return(c)
        /\ UNCHANGED <<rounds, status>>
  /\ UNCHANGED <<gems, activeGames, owner, bet, ghostVars, orderly, intact>>

\* Mutant of Look: only a lost game is over.
LookForLoss(c) ==
  /\ call[c].at = "look"
  /\ Goto(c, IF status[call[c].game] = "lost" THEN "drop" ELSE "report")
  /\ UNCHANGED <<gems, activeGames, gameVars, ghostVars, orderly, intact>>

\* IsActive is asked in a step of its own.
Look(c) ==
  /\ call[c].at = "look"
  /\ Goto(c, IF status[call[c].game] = "active" THEN "report" ELSE "drop")
  /\ UNCHANGED <<gems, activeGames, gameVars, ghostVars, orderly, intact>>

Drop(c) ==
  /\ call[c].at = "drop"
  /\ Forget(call[c].user)
  /\ Goto(c, "credit")
  /\ UNCHANGED <<gems, gameVars, ghostVars, orderly, intact>>

\* The game is over, so its status is read without a lock.  A credit that fails
\* is ignored.
Credit(c) ==
  /\ call[c].at = "credit"
  /\ LET g == call[c].game
     IN  IF status[g] = "cashed_out"
         THEN \/ CreditWinnings(g) /\ UNCHANGED intact
              \/ intact' = intact \ {g} /\ UNCHANGED <<gems, credited>>
         ELSE UNCHANGED <<gems, credited, intact>>
  /\ Goto(c, "report")
  /\ UNCHANGED <<activeGames, gameVars, recorded, orderly>>

FlipStep(c) == Toss(c) \/ Look(c) \/ Drop(c) \/ Credit(c)
-----------------------------------------------------------------------------
(* CashOut.                                                                *)

CashOut(c, u) == BeginOn(c, u, "cash")

\* Mutant of TakeOut: an ended game is cashed out like any other.
TakeOutEnded(c) ==
  /\ call[c].at = "cash"
  /\ LET g == call[c].game
     IN  IF rounds[g] > 0
         THEN status' = [status EXCEPT ![g] = "cashed_out"] /\ Goto(c, "pay")
         ELSE UNCHANGED status /\ Return(c)
  /\ UNCHANGED <<gems, activeGames, owner, bet, rounds, ghostVars, orderly, intact>>

\* The game ends, under its own mutex, unless it has ended or nothing was won.
TakeOut(c) ==
  /\ call[c].at = "cash"
  /\ LET g == call[c].game
     IN  IF status[g] = "active" /\ rounds[g] > 0
         THEN status' = [status EXCEPT ![g] = "cashed_out"] /\ Goto(c, "pay")
         ELSE UNCHANGED status /\ Return(c)
  /\ UNCHANGED <<gems, activeGames, owner, bet, rounds, ghostVars, orderly, intact>>

\* Mutant of Pay: the game is then settled like one that a flip has ended.
PayAndSettle(c) ==
  /\ call[c].at = "pay"
  /\ CreditWinnings(call[c].game)
  /\ Goto(c, "drop")
  /\ UNCHANGED <<activeGames, gameVars, recorded, orderly, intact>>

\* When the statement fails the request ends: the winnings are lost, and the ended
\* game stays in the map.
Pay(c) ==
  /\ call[c].at = "pay"
  /\ \/ CreditWinnings(call[c].game) /\ Goto(c, "clear") /\ UNCHANGED intact
     \/ Return(c) /\ intact' = intact \ {call[c].game} /\ UNCHANGED <<gems, credited>>
  /\ UNCHANGED <<activeGames, gameVars, recorded, orderly>>

Clear(c) ==
  /\ call[c].at = "clear"
  /\ Forget(call[c].user)
  /\ Goto(c, "report")
  /\ UNCHANGED <<gems, gameVars, ghostVars, orderly, intact>>

CashOutStep(c) == TakeOut(c) \/ Pay(c) \/ Clear(c)
-----------------------------------------------------------------------------
(* What else happens.                                                      *)

\* The handlers record a game that is over by now, for the history and the quests.
Report(c) ==
  /\ call[c].at = "report"
  /\ LET g == call[c].game
     IN  recorded' = IF status[g] # "active" THEN [recorded EXCEPT ![g] = @ + 1] ELSE recorded
  /\ Return(c)
  /\ UNCHANGED <<gems, activeGames, gameVars, credited, orderly, intact>>

\* cleanupExpiredGames: a game older than an hour (its age is not modelled) is
\* forgotten, whatever its status; nothing is given back.
Expire(u) ==
  /\ activeGames[u] # NoGame
  /\ Forget(u)
  /\ intact' = intact \ {activeGames[u]}
  /\ UNCHANGED <<gems, gameVars, call, ghostVars, orderly>>

\* The process stops and starts again.
Crash ==
  /\ \/ \E c \in Calls : call[c] # Idle
     \/ \E u \in Users : activeGames[u] # NoGame
  /\ call' = [c \in Calls |-> Idle]
  /\ activeGames' = [u \in Users |-> NoGame]
  /\ intact' = intact \ {g \in Games : status[g] = "active" \/ \E c \in Calls : call[c].game = g}
  /\ UNCHANGED <<gems, gameVars, ghostVars, orderly>>

Next ==
  \/ \E u \in Users, b \in Bets : StartGame(u, b)
  \/ \E c \in Calls, u \in Users : Flip(c, u) \/ CashOut(c, u)
  \/ \E c \in Calls : FlipStep(c) \/ CashOutStep(c) \/ Report(c)
  \/ \E u \in Users : Expire(u)
  \/ Crash

Spec == Init /\ [][Next]_vars
-----------------------------------------------------------------------------
(* Properties.                                                             *)

Ended(g) == status[g] \in {"cashed_out", "lost"}

\* A game that is over stays as it ended, whatever requests still hold it: the
\* service reads its status and its winnings without a lock.
EndedStays ==
  [][\A g \in Games : Ended(g) => UNCHANGED <<status[g], rounds[g], bet[g]>>]_vars

\* However requests race, when all of them have returned a game that is over was
\* recorded, and its winnings were credited if it was won and only then, unless a
\* statement failed, the process stopped or the game was forgotten for its age.
NothingIsLost ==
  \A g \in intact : Ended(g) /\ (\A c \in Calls : call[c].game # g) =>
    /\ recorded[g] > 0
    /\ credited[g] > 0 <=> status[g] = "cashed_out"

\* A user who makes one request at a time is paid, and gets a game into his
\* history, once.
PaidOnce ==
  \A g \in Games : owner[g] \in orderly => credited[g] <= 1 /\ recorded[g] <= 1

\* ... and finds the game he has staked on until it ends.
GameIsFound ==
  \A g \in intact : status[g] = "active" /\ owner[g] \in orderly => activeGames[owner[g]] = g

-----------------------------------------------------------------------------
(* What a comment of the code says, and the code does not do.              *)

\* "if it was won (automatic cash-out when the maximal number of rounds is reached),
\* credit the winnings" (coinflip_pro_service.go:114): Flip pays complete games only.
FlipPaysCompleteGames ==
  \A c \in Calls : call[c].at = "credit" /\ status[call[c].game] = "cashed_out"
    => rounds[call[c].game] = MaxRounds
=============================================================================
